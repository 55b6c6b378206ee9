-------------------------- MODULE JobControlProofs --------------------------
(***************************************************************************)
(* Proofs about JobControl for any clusters, jobs, numbers of ticks and    *)
(* removals, and for any shadowing of identifiers.                         *)
(*                                                                         *)
(* The inductive invariant has three parts besides the types: where the    *)
(* tick can stand, what a cancellation means for the place of its job, and *)
(* that a cluster with a holder is marked and one with two is known to     *)
(* have been overlapped.                                                   *)
(***************************************************************************)
EXTENDS JobControl, TLAPS

RunRecord ==
  [pc : {"idle", "loading", "marking", "processing", "host"},
   todo : SUBSET Clusters, mine : SUBSET Clusters, marked : SUBSET Clusters,
   at : Clusters \cup {"none"},
   result : {"none", "recorded", "failed", "reported"},
   keys : SUBSET (Jobs \cup SchedIds)]

TickRecord == [n : 0 .. MaxTicks, run : RunRecord]

\* The tick only touches clusters of its own, and has marked those it processes.
Stands(run) ==
  /\ run.marked \subseteq run.mine
  /\ run.pc \notin {"idle", "loading"} => run.todo \subseteq run.mine
  /\ run.pc = "marking" => run.mine \subseteq run.todo \cup run.marked
  /\ run.pc = "processing" => run.todo \subseteq run.marked
  /\ run.at # "none" => run.at \in run.todo /\ run.pc \in {"marking", "processing", "host"}
  /\ run.result = "reported" => run.at # "none" /\ run.pc = "processing"

TickInv ==
  /\ tick \in TickRecord
  /\ tick.run.pc # "idle" => tick.n \in 1 .. MaxTicks
  /\ Stands(tick.run)

\* What is known of a job by its place and by its cancellation.
JobInv ==
  \A j \in Jobs :
    /\ job[j].pc = "none" <=> jobs[j].status = "none"
    /\ jobs[j].status = "pending" => job[j].pc \in {"queued", "admitted"}
    /\ job[j].pc \notin {"none", "done"} => job[j].cluster \in Clusters
    /\ job[j].pc \in {"recorded", "host"} => job[j].result # "none"
    /\ cancel[j] \in {"flagged", "pending", "answered", "finished"} => jobs[j].cancel_requested
    /\ cancel[j] \in {"pending", "finished"} => job[j].pc \in {"queued", "admitted", "begun", "done"}
    /\ cancel[j] = "pending" /\ job[j].pc = "done" => jobs[j].status = "cancelled"

\* Two holders of a cluster are on record, and the only holder's mark stands.
HoldInv ==
  \A c \in Clusters :
    /\ Holders(c) # {} => c \in RUNNING \cup overlapped
    /\ \A x, y \in Holders(c) : x # y => c \in overlapped

IInv == TypeOK /\ TickInv /\ JobInv /\ HoldInv

-----------------------------------------------------------------------------
(* Initially *)

LEMMA Initially == Init => IInv
<1> SUFFICES ASSUME Init PROVE IInv
  OBVIOUS
<1>1. TypeOK
  BY DEF Init, TypeOK, NoJob, NoSched, NoTask, IdleTick, Active, Terminal, Held
<1>2. TickInv
  BY CountAssumption DEF Init, TickInv, TickRecord, RunRecord, IdleTick, Stands
<1>3. JobInv
  BY DEF Init, JobInv, NoJob, NoTask
<1>4. \A c \in Clusters : Holders(c) = {}
  BY DEF Init, Holders, NoTask, IdleTick, Held
<1>5. HoldInv
  BY <1>4 DEF HoldInv
<1> QED
  BY <1>1, <1>2, <1>3, <1>5 DEF IInv

-----------------------------------------------------------------------------
(* The tick *)

\* What the steps outside the tick leave alone.
LEMMA TickStill == TickInv /\ UNCHANGED tick => TickInv'
  BY DEF TickInv

\* The tick's record after a step, and a step of it in the same tick.
LEMMA IdleStands == IdleTick \in RunRecord /\ Stands(IdleTick)
  BY DEF IdleTick, RunRecord, Stands

LEMMA RunStep ==
  ASSUME TickInv, NEW r \in RunRecord, Stands(r), Run(r), r.pc = "idle" \/ tick.run.pc # "idle"
  PROVE  TickInv'
<1>1. tick' \in TickRecord /\ tick'.run = r /\ tick'.n = tick.n
  BY DEF TickInv, TickRecord, Run
<1> QED
  BY <1>1 DEF TickInv

SchedType == [SchedIds -> [status : {"none", "running", "completed", "warning"}, failures : BOOLEAN]]

LEMMA TickStepTyped ==
  ASSUME TypeOK, TickInv, TickStep
  PROVE  TickInv' /\ sched' \in SchedType
<1> DEFINE run == tick.run
<1> USE NameAssumption
<1>0. /\ tick \in TickRecord /\ run \in RunRecord /\ Stands(run) /\ tick.n \in 0 .. MaxTicks
      /\ sched \in SchedType /\ configs \in SUBSET Clusters /\ Keys \in SUBSET (Jobs \cup SchedIds)
  BY DEF TickInv, TickRecord, TypeOK, SchedType, Keys, SchedKeys
<1>1. CASE TickBegins
  <2> DEFINE new == [IdleTick EXCEPT !.pc = "loading", !.todo = configs]
  <2>1. tick' = [n |-> tick.n + 1, run |-> new] /\ sched' = sched /\ tick.n < MaxTicks
    BY <1>1 DEF TickBegins
  <2>2. tick.n + 1 \in 1 .. MaxTicks
    BY <1>0, <2>1, CountAssumption
  <2>3. new \in RunRecord /\ Stands(new)
    BY <1>0 DEF RunRecord, IdleTick, Stands
  <2> HIDE DEF new
  <2> QED
    BY <1>0, <2>1, <2>2, <2>3, CountAssumption DEF TickInv, TickRecord
<1>2. ASSUME NEW c \in Clusters, TickLoads(c)
      PROVE  TickInv' /\ sched' \in SchedType
  <2> DEFINE new == [run EXCEPT !.todo = @ \ {c},
                                !.mine = IF c \in configs /\ c \notin RUNNING THEN @ \cup {c} ELSE @]
  <2>1. run.pc = "loading" /\ Run(new) /\ sched' = sched
    BY <1>2 DEF TickLoads, At
  <2>2. new \in RunRecord /\ Stands(new)
    BY <1>0, <2>1 DEF RunRecord, Stands
  <2> QED
    BY <1>0, <2>1, <2>2, RunStep
<1>3. CASE TickAdvances
  <2>1. sched' = sched /\ run.todo = {} /\ run.at = "none"
    BY <1>3 DEF TickAdvances
  <2>2. ASSUME NEW next \in {<<"loading", "marking">>, <<"marking", "processing">>, <<"processing", "host">>},
               At(next[1]), Run([run EXCEPT !.pc = next[2], !.todo = run.mine])
        PROVE  TickInv'
    <3> DEFINE new == [run EXCEPT !.pc = next[2], !.todo = run.mine]
    <3>1. /\ next[2] \in {"marking", "processing", "host"} /\ run.pc # "idle"
          /\ next[2] = "processing" => run.pc = "marking"
      BY <2>2 DEF At
    <3>2. new \in RunRecord /\ Stands(new)
      BY <1>0, <2>1, <3>1 DEF RunRecord, Stands
    <3> QED
      BY <2>2, <3>1, <3>2, RunStep
  <2>3. ASSUME At("host"), Run(IdleTick) PROVE TickInv'
    BY <2>3, IdleStands, RunStep DEF IdleTick
  <2> QED
    BY <1>0, <1>3, <2>1, <2>2, <2>3 DEF TickAdvances
<1>4. ASSUME NEW c \in Clusters, NEW result \in {"recorded", "failed"}, TickScans(c, result)
      PROVE  TickInv' /\ sched' \in SchedType
  <2> DEFINE new == [run EXCEPT !.at = c, !.result = result, !.keys = Keys]
  <2>1. /\ run.pc \in {"marking", "processing", "host"} /\ c \in run.todo
        /\ Run(new) /\ sched' = sched
    BY <1>4 DEF TickScans
  <2>2. new \in RunRecord /\ Stands(new)
    BY <1>0, <2>1 DEF RunRecord, Stands
  <2> QED
    BY <1>0, <2>1, <2>2, RunStep
<1>5. CASE TickRaises
  <2>1. sched' = sched
    BY <1>5 DEF TickRaises
  <2>2. CASE At("processing") /\ run.result = "recorded"
    <3> DEFINE new == [run EXCEPT !.result = "failed", !.keys = Keys]
    <3>1. Run(new) /\ run.pc = "processing"
      BY <1>5, <2>2 DEF TickRaises, At
    <3>2. new \in RunRecord /\ Stands(new)
      BY <1>0, <3>1 DEF RunRecord, Stands
    <3> QED
      BY <1>0, <2>1, <3>1, <3>2, RunStep
  <2>3. CASE ~(At("processing") /\ run.result = "recorded")
    <3>1. Run(IdleTick)
      BY <1>5, <2>3 DEF TickRaises
    <3> QED
      BY <1>0, <2>1, <3>1, IdleStands, RunStep DEF IdleTick
  <2> QED
    BY <2>2, <2>3
<1>6. CASE TickMarks
  <2> DEFINE new == [run EXCEPT !.at = "none", !.todo = @ \ {run.at}, !.marked = @ \cup {run.at}]
  <2>1. run.pc = "marking" /\ run.at # "none" /\ Run(new)
    BY <1>6 DEF TickMarks, Undisturbed, At
  <2>2. run.at \in Clusters /\ run.at \in run.mine /\ run.result # "reported"
    BY <1>0, <2>1 DEF Stands, RunRecord
  <2>3. new \in RunRecord /\ Stands(new)
    BY <1>0, <2>1, <2>2 DEF RunRecord, Stands
  <2>4. sched' \in SchedType
    <3>1. sched' = [sched EXCEPT ![<<run.at, tick.n>>].status = "running"]
      BY <1>6 DEF TickMarks
    <3> QED
      BY <1>0, <3>1 DEF SchedType
  <2> QED
    BY <2>1, <2>3, <2>4, RunStep
<1>7. CASE TickReports
  <2>1. sched' \in SchedType
    <3>1. PICK s \in Attributed(run.at) :
                 sched' = [sched EXCEPT ![s].failures = @ \/ run.result = "failed"]
      BY <1>7 DEF TickReports
    <3>2. s \in SchedIds
      BY DEF Attributed, SchedKeys
    <3>3. (sched[s].failures \/ run.result = "failed") \in BOOLEAN
      BY <1>0, <3>2 DEF SchedType
    <3> QED
      BY <1>0, <3>1, <3>2, <3>3 DEF SchedType
  <2>2. run.at # "none" /\ run.pc \in {"processing", "host"} /\ run.result # "reported"
    BY <1>7 DEF TickReports, Undisturbed
  <2>3. CASE run.pc = "processing"
    <3> DEFINE new == [run EXCEPT !.result = "reported"]
    <3>1. Run(new)
      BY <1>7, <2>3 DEF TickReports, At
    <3>2. new \in RunRecord /\ Stands(new)
      BY <1>0, <2>2, <2>3 DEF RunRecord, Stands
    <3> QED
      BY <2>1, <2>2, <3>1, <3>2, RunStep
  <2>4. CASE run.pc = "host"
    <3> DEFINE new == [run EXCEPT !.at = "none", !.todo = @ \ {run.at}]
    <3>1. Run(new)
      BY <1>7, <2>4 DEF TickReports, At
    <3>2. new \in RunRecord /\ Stands(new)
      BY <1>0, <2>2, <2>4 DEF RunRecord, Stands
    <3> QED
      BY <2>1, <2>2, <3>1, <3>2, RunStep
  <2> QED
    BY <2>2, <2>3, <2>4
<1>8. CASE TickCompletes
  <2> DEFINE new == [run EXCEPT !.at = "none", !.result = "none", !.todo = @ \ {run.at},
                                !.marked = @ \ {run.at}]
             s == <<run.at, tick.n>>
  <2>1. run.pc = "processing" /\ Run(new)
    BY <1>8 DEF TickCompletes, At
  <2>2. new \in RunRecord /\ Stands(new)
    BY <1>0, <2>1 DEF RunRecord, Stands
  <2>3. sched' \in SchedType
    <3>1. sched' = [sched EXCEPT ![s].status = IF sched[s].failures THEN "warning" ELSE "completed"]
      BY <1>8 DEF TickCompletes
    <3> QED
      BY <1>0, <3>1 DEF SchedType
  <2> QED
    BY <2>1, <2>2, <2>3, RunStep
<1>9. ASSUME NEW c \in Clusters, TickSkips(c)
      PROVE  TickInv' /\ sched' \in SchedType
  <2> DEFINE new == [run EXCEPT !.todo = @ \ {c}]
  <2>1. run.pc = "host" /\ run.at = "none" /\ Run(new) /\ sched' = sched
    BY <1>9 DEF TickSkips, At
  <2>2. new \in RunRecord /\ Stands(new)
    BY <1>0, <2>1 DEF RunRecord, Stands
  <2> QED
    BY <1>0, <2>1, <2>2, RunStep
<1> QED
  BY <1>1, <1>2, <1>3, <1>4, <1>5, <1>6, <1>7, <1>8, <1>9 DEF TickStep

-----------------------------------------------------------------------------
(* Types of the rest *)

JobRecord == [pc : {"none", "queued", "admitted", "done"} \cup Held,
              cluster : Clusters \cup {"none"},
              result : {"none", "failed", "warning", "completed"}]

EntryRecord == [status : {"none"} \cup Active \cup Terminal, cancel_requested : BOOLEAN]

CancelPlaces == {"none", "accepted", "flagged", "pending", "answered", "finished"}

ControlTyped ==
  /\ RUNNING \in SUBSET Clusters /\ configs \in SUBSET Clusters
  /\ jobs \in [Jobs -> EntryRecord]
  /\ job \in [Jobs -> JobRecord]
  /\ cancel \in [Jobs -> CancelPlaces]

LEMMA TypeSplit ==
  /\ TypeOK => ControlTyped /\ sched \in SchedType
  /\ ControlTyped /\ sched \in SchedType /\ TickInv => TypeOK
  BY DEF TypeOK, ControlTyped, SchedType, JobRecord, EntryRecord, CancelPlaces, TickInv, Stands

Places == {"none", "queued", "admitted", "done"} \cup Held

LEMMA GotoTyped ==
  ASSUME ControlTyped, NEW j \in Jobs, NEW pc \in Places, Goto(j, pc)
  PROVE  /\ job' \in [Jobs -> JobRecord]
         /\ job'[j].pc = pc /\ job'[j].cluster = job[j].cluster /\ job'[j].result = job[j].result
         /\ \A k \in Jobs \ {j} : job'[k] = job[k]
<1>1. job[j] \in JobRecord
  BY DEF ControlTyped
<1>2. [job[j] EXCEPT !.pc = pc] \in JobRecord
  BY <1>1 DEF JobRecord, Places
<1>3. job' = [job EXCEPT ![j] = [job[j] EXCEPT !.pc = pc]]
  BY DEF Goto, ControlTyped
<1>4. /\ [job[j] EXCEPT !.pc = pc].pc = pc
      /\ [job[j] EXCEPT !.pc = pc].cluster = job[j].cluster
      /\ [job[j] EXCEPT !.pc = pc].result = job[j].result
  BY <1>1 DEF JobRecord
<1> QED
  BY <1>2, <1>3, <1>4 DEF ControlTyped

LEMMA FinishTyped ==
  ASSUME ControlTyped, NEW j \in Jobs, NEW status \in {"none"} \cup Active \cup Terminal, Finish(j, status)
  PROVE  /\ jobs' \in [Jobs -> EntryRecord] /\ job' \in [Jobs -> JobRecord]
         /\ jobs'[j].status = status /\ jobs'[j].cancel_requested = jobs[j].cancel_requested
         /\ job'[j].pc = "done"
         /\ \A k \in Jobs \ {j} : jobs'[k] = jobs[k] /\ job'[k] = job[k]
         /\ RUNNING' = RUNNING \ {job[j].cluster} /\ UNCHANGED overlapped
<1>1. Goto(j, "done") /\ jobs' = [jobs EXCEPT ![j].status = status]
  BY DEF Finish
<1>2. "done" \in Places
  BY DEF Places
<1> QED
  BY <1>1, <1>2, GotoTyped DEF Finish, Release, ControlTyped, EntryRecord

\* What JobChecks, JobRaises and JobEnds come to.
LEMMA CheckOutcome ==
  ASSUME NEW j \in Jobs, JobChecks(j)
  PROVE  /\ UNCHANGED <<sched, cancel, tick, configs, removing, removals>>
         /\ job[j].pc \in {"begun", "collecting", "recorded"}
         /\ \/ jobs[j].cancel_requested /\ Finish(j, "cancelled")
            \/ /\ ~jobs[j].cancel_requested
               /\ UNCHANGED <<jobs, RUNNING, overlapped>>
               /\ \E pc \in {"collecting", "recording", "host"} :
                    Goto(j, pc) /\ (pc = "host" <=> job[j].pc = "recorded")
<1>1. PICK next \in {<<"begun", "collecting">>, <<"collecting", "recording">>, <<"recorded", "host">>} :
        /\ AtTask(j, next[1])
        /\ IF jobs[j].cancel_requested
             THEN Finish(j, "cancelled")
             ELSE Goto(j, next[2]) /\ UNCHANGED <<jobs, RUNNING, overlapped>>
  BY DEF JobChecks
<1>2. /\ next[2] \in {"collecting", "recording", "host"}
      /\ job[j].pc = next[1] /\ next[1] \in {"begun", "collecting", "recorded"}
      /\ next[2] = "host" <=> next[1] = "recorded"
  BY <1>1 DEF AtTask
<1>3. CASE jobs[j].cancel_requested
  BY <1>1, <1>2, <1>3 DEF JobChecks, jobRest, tables
<1>4. CASE ~jobs[j].cancel_requested
  BY <1>1, <1>2, <1>4 DEF JobChecks, jobRest, tables
<1> QED
  BY <1>3, <1>4

LEMMA JobStepTyped ==
  ASSUME ControlTyped, JobInv, NEW j \in Jobs, JobStep(j)
  PROVE  ControlTyped'
<1> USE DEF ControlTyped, JobRecord, EntryRecord, Held, Active, Terminal
<1>1. CASE JobStarts(j)
  BY <1>1 DEF JobStarts, AtTask, Goto, jobRest, tables
<1>2. CASE JobMarks(j)
  BY <1>2 DEF JobMarks, AtTask, Goto, Mark, jobRest, tables, JobInv
<1>3. CASE JobChecks(j)
  <2>1. CASE jobs[j].cancel_requested
    BY <1>3, <2>1, CheckOutcome, FinishTyped
  <2>2. CASE ~jobs[j].cancel_requested
    <3>1. PICK pc \in {"collecting", "recording", "host"} : Goto(j, pc)
      BY <1>3, <2>2, CheckOutcome
    <3>2. job' \in [Jobs -> JobRecord]
      BY <3>1, GotoTyped DEF Places
    <3> QED
      BY <1>3, <2>2, <3>2, CheckOutcome
  <2> QED
    BY <2>1, <2>2
<1>4. CASE JobRecords(j)
  <2>1. PICK result \in {"failed", "warning", "completed"} :
          job' = [job EXCEPT ![j].pc = "recorded", ![j].result = result]
    BY <1>4 DEF JobRecords
  <2>2. job' \in [Jobs -> JobRecord]
    <3>1. [job[j] EXCEPT !.pc = "recorded", !.result = result] \in JobRecord
      BY DEF ControlTyped
    <3> QED
      BY <2>1, <3>1
  <2> QED
    BY <1>4, <2>2 DEF JobRecords, jobRest, tables
<1>5. CASE JobRaises(j)
  BY <1>5, FinishTyped DEF JobRaises, jobRest, tables
<1>6. CASE JobEnds(j)
  BY <1>6, FinishTyped DEF JobEnds, jobRest, tables
<1> QED
  BY <1>1, <1>2, <1>3, <1>4, <1>5, <1>6 DEF JobStep

LEMMA RequestTyped ==
  ASSUME ControlTyped, NEW j \in Jobs,
         CancelAccepted(j) \/ CancelStep(j) \/ \E c \in Clusters : Post(j, c)
  PROVE  ControlTyped'
<1> USE DEF ControlTyped, JobRecord, EntryRecord, CancelPlaces, Held, Active, Terminal
<1>1. CASE CancelAccepted(j)
  BY <1>1 DEF CancelAccepted, cancelRest, tables
<1>2. CASE CancelFlags(j)
  BY <1>2 DEF CancelFlags, cancelRest, tables
<1>3. CASE CancelReads(j)
  BY <1>3 DEF CancelReads, cancelRest, tables
<1>4. CASE CancelFinishes(j)
  BY <1>4 DEF CancelFinishes, cancelRest, tables
<1>5. CASE \E c \in Clusters : Post(j, c)
  <2>1. PICK c \in Clusters : Post(j, c)
    BY <1>5
  <2>2. [NoTask EXCEPT !.pc = "queued", !.cluster = c] \in JobRecord
    BY DEF NoTask
  <2>3. /\ job' = [job EXCEPT ![j] = [NoTask EXCEPT !.pc = "queued", !.cluster = c]]
        /\ jobs' = [jobs EXCEPT ![j].status = "pending"]
        /\ configs' = configs \cup {c} /\ UNCHANGED <<RUNNING, cancel>>
    BY <2>1 DEF Post
  <2>4. job' \in [Jobs -> JobRecord]
    BY <2>2, <2>3 
  <2>5. jobs' \in [Jobs -> EntryRecord]
    BY <2>3
  <2> QED
    BY <2>3, <2>4, <2>5
<1> QED
  BY <1>1, <1>2, <1>3, <1>4, <1>5 DEF CancelStep

LEMMA TickKeepsControl ==
  ASSUME ControlTyped, TickInv, TickStep
  PROVE  ControlTyped'
<1>1. UNCHANGED <<jobs, job, cancel, configs>>
  BY DEF TickStep, TickBegins, TickAdvances, TickRaises, TickMarks, TickReports, TickCompletes,
         TickLoads, TickSkips, TickScans, tickRest, tables
<1>2. RUNNING' \in SUBSET Clusters
  <2>1. CASE TickMarks
    <3>1. tick.run.at \in Clusters
      BY <2>1 DEF TickMarks, Undisturbed, TickInv, TickRecord, RunRecord
    <3> QED
      BY <2>1, <3>1 DEF TickMarks, Mark, ControlTyped
  <2>2. CASE TickCompletes
    BY <2>2 DEF TickCompletes, Release, ControlTyped
  <2>3. CASE ~TickMarks /\ ~TickCompletes
    BY <2>3 DEF TickStep, TickBegins, TickAdvances, TickRaises, TickReports,
                TickLoads, TickSkips, TickScans, ControlTyped
  <2> QED
    BY <2>1, <2>2, <2>3
<1> QED
  BY <1>1, <1>2 DEF ControlTyped

LEMMA RemovalTyped ==
  ASSUME ControlTyped, NEW c \in Clusters, RemoveRows(c) \/ RemoveFile(c)
  PROVE  ControlTyped'
  BY DEF ControlTyped, RemoveRows, RemoveFile

-----------------------------------------------------------------------------
(* Jobs and their cancellation *)

LEMMA JobStepInv ==
  ASSUME ControlTyped, JobInv, NEW j \in Jobs, JobStep(j)
  PROVE  JobInv'
<1> USE DEF ControlTyped, JobRecord, EntryRecord, Held, Active, Terminal
<1>0. UNCHANGED cancel
  BY DEF JobStep, JobStarts, JobMarks, JobChecks, JobRecords, JobRaises, JobEnds, jobRest
<1>1. \A k \in Jobs \ {j} : jobs'[k] = jobs[k] /\ job'[k] = job[k]
  BY CheckOutcome DEF JobStep, JobStarts, JobMarks, JobRecords, JobRaises, JobEnds, Finish, Goto
<1>2. CASE JobStarts(j)
  BY <1>0, <1>1, <1>2 DEF JobStarts, AtTask, Goto, JobInv
<1>3. CASE JobMarks(j)
  BY <1>0, <1>1, <1>3 DEF JobMarks, AtTask, Goto, JobInv
<1>4. CASE JobChecks(j)
  <2>1. CASE jobs[j].cancel_requested
    BY <1>0, <1>1, <1>4, <2>1, CheckOutcome, FinishTyped DEF JobInv
  <2>2. CASE ~jobs[j].cancel_requested
    <3>1. PICK pc \in {"collecting", "recording", "host"} :
            Goto(j, pc) /\ (pc = "host" <=> job[j].pc = "recorded")
      BY <1>4, <2>2, CheckOutcome
    <3>2. /\ job'[j].pc = pc /\ job'[j].cluster = job[j].cluster /\ job'[j].result = job[j].result
      BY <3>1, GotoTyped DEF Places
    <3>3. jobs' = jobs /\ job[j].pc \in {"begun", "collecting", "recorded"}
      BY <1>4, <2>2, CheckOutcome
    <3> QED
      BY <1>0, <1>1, <2>2, <3>1, <3>2, <3>3 DEF JobInv
  <2> QED
    BY <2>1, <2>2
<1>5. CASE JobRecords(j)
  <2>1. PICK result \in {"failed", "warning", "completed"} :
          job' = [job EXCEPT ![j].pc = "recorded", ![j].result = result]
    BY <1>5 DEF JobRecords
  <2>2. /\ job'[j].pc = "recorded" /\ job'[j].cluster = job[j].cluster /\ job'[j].result = result
        /\ jobs' = jobs /\ job[j].pc = "recording"
    BY <1>5, <2>1 DEF JobRecords, AtTask
  <2> QED
    BY <1>0, <1>1, <2>2 DEF JobInv
<1>6. CASE JobRaises(j)
  BY <1>0, <1>1, <1>6, FinishTyped DEF JobRaises, JobInv
<1>7. CASE JobEnds(j)
  BY <1>0, <1>1, <1>7, FinishTyped DEF JobEnds, AtTask, JobInv
<1> QED
  BY <1>2, <1>3, <1>4, <1>5, <1>6, <1>7 DEF JobStep

LEMMA RequestInv ==
  ASSUME ControlTyped, JobInv, NEW j \in Jobs,
         CancelAccepted(j) \/ CancelStep(j) \/ \E c \in Clusters : Post(j, c)
  PROVE  JobInv'
<1> USE DEF ControlTyped, JobRecord, EntryRecord, CancelPlaces, Held, Active, Terminal
<1>1. CASE CancelAccepted(j)
  BY <1>1 DEF CancelAccepted, cancelRest, JobInv
<1>2. CASE CancelFlags(j)
  BY <1>2 DEF CancelFlags, cancelRest, JobInv
<1>3. CASE CancelReads(j)
  BY <1>3 DEF CancelReads, cancelRest, JobInv
<1>4. CASE CancelFinishes(j)
  BY <1>4 DEF CancelFinishes, cancelRest, JobInv
<1>5. CASE \E c \in Clusters : Post(j, c)
  <2>1. PICK c \in Clusters : Post(j, c)
    BY <1>5
  <2>2. /\ job'[j].pc = "queued" /\ job'[j].cluster = c /\ jobs'[j].status = "pending"
        /\ jobs'[j].cancel_requested = jobs[j].cancel_requested /\ cancel' = cancel
        /\ \A k \in Jobs \ {j} : jobs'[k] = jobs[k] /\ job'[k] = job[k]
    <3> DEFINE new == [NoTask EXCEPT !.pc = "queued", !.cluster = c]
    <3>1. /\ job' = [job EXCEPT ![j] = new] /\ cancel' = cancel
          /\ jobs' = [jobs EXCEPT ![j].status = "pending"]
      BY <2>1 DEF Post
    <3>2. new.pc = "queued" /\ new.cluster = c
      BY DEF NoTask
    <3> HIDE DEF new
    <3> QED
      BY <3>1, <3>2
  <2> QED
    BY <2>1, <2>2 DEF JobInv
<1> QED
  BY <1>1, <1>2, <1>3, <1>4, <1>5 DEF CancelStep

LEMMA JobStill == JobInv /\ UNCHANGED <<jobs, job, cancel>> => JobInv'
  BY DEF JobInv

-----------------------------------------------------------------------------
(* Holders *)

\* Nobody new holds a cluster, and no mark is taken away.
LEMMA HoldersKept ==
  ASSUME HoldInv, \A c \in Clusters : Holders(c)' \subseteq Holders(c),
         RUNNING \subseteq RUNNING', overlapped \subseteq overlapped'
  PROVE  HoldInv'
  BY DEF HoldInv

\* h marks x and becomes its holder.
LEMMA HolderMarks ==
  ASSUME HoldInv, NEW x, NEW h, Mark(x),
         \A c \in Clusters : Holders(c)' \subseteq Holders(c) \cup {k \in {h} : c = x}
  PROVE  HoldInv'
<1> SUFFICES ASSUME NEW c \in Clusters
             PROVE  /\ Holders(c)' # {} => c \in RUNNING' \cup overlapped'
                    /\ \A k, l \in Holders(c)' : k # l => c \in overlapped'
  BY DEF HoldInv
<1>1. x \in RUNNING' /\ RUNNING \subseteq RUNNING' /\ overlapped \subseteq overlapped'
  BY DEF Mark
<1>2. Holders(x) # {} => x \in overlapped'
  BY DEF Mark
<1>3. CASE c = x
  BY <1>1, <1>2, <1>3
<1>4. CASE c # x
  BY <1>1, <1>4 DEF HoldInv
<1> QED
  BY <1>3, <1>4

\* h holds x, and gives it up with its mark.
LEMMA HolderReleases ==
  ASSUME HoldInv, NEW x, NEW h \in Holders(x), Release(x),
         \A c \in Clusters : Holders(c)' \subseteq Holders(c), h \notin Holders(x)'
  PROVE  HoldInv'
<1> SUFFICES ASSUME NEW c \in Clusters
             PROVE  /\ Holders(c)' # {} => c \in RUNNING' \cup overlapped'
                    /\ \A k, l \in Holders(c)' : k # l => c \in overlapped'
  BY DEF HoldInv
<1>1. RUNNING' = RUNNING \ {x} /\ overlapped' = overlapped
  BY DEF Release
<1>2. CASE c = x
  <2>1. \A k \in Holders(c)' : k \in Holders(c) /\ k # h
    BY <1>2
  <2>2. Holders(c)' # {} => c \in overlapped
    BY <1>2, <2>1 DEF HoldInv
  <2> QED
    BY <1>1, <2>2
<1>3. CASE c # x
  BY <1>1, <1>3 DEF HoldInv
<1> QED
  BY <1>2, <1>3

\* The holders of a cluster after one job moved to the place pc.
LEMMA HoldersAfterMove ==
  ASSUME ControlTyped, NEW j \in Jobs, UNCHANGED tick,
         \A k \in Jobs \ {j} : job'[k] = job[k],
         job'[j].cluster = job[j].cluster \/ job'[j].pc \notin Held
  PROVE  \A c \in Clusters :
           /\ Holders(c)' \subseteq Holders(c) \cup {k \in {j} : c = job[j].cluster /\ job'[j].pc \in Held}
           /\ job[j].pc \in Held => Holders(c)' \subseteq Holders(c)
<1> TAKE c \in Clusters
<1>0. \A k : (k \in Holders(c)) <=> (\/ k \in Jobs /\ job[k].pc \in Held /\ job[k].cluster = c
                                     \/ k = "tick" /\ c \in tick.run.marked)
  BY DEF Holders
<1>3. \A k : (k \in Holders(c)') <=> (\/ k \in Jobs /\ job'[k].pc \in Held /\ job'[k].cluster = c
                                      \/ k = "tick" /\ c \in tick'.run.marked)
  BY DEF Holders
<1>1. ASSUME NEW k, k \in Holders(c)'
      PROVE  k \in Holders(c) \/ (k = j /\ c = job[j].cluster /\ job'[j].pc \in Held)
  <2>1. CASE k = j
    BY <1>0, <1>1, <1>3, <2>1
  <2>2. CASE k # j
    BY <1>0, <1>1, <1>3, <2>2
  <2> QED
    BY <2>1, <2>2
<1>2. job[j].pc \in Held /\ c = job[j].cluster => j \in Holders(c)
  BY DEF Holders
<1> QED
  BY <1>1, <1>2

LEMMA JobStepHolds ==
  ASSUME ControlTyped, JobInv, HoldInv, NEW j \in Jobs, JobStep(j)
  PROVE  HoldInv'
<1> USE NameAssumption
<1>x. PICK x : x = job[j].cluster
  OBVIOUS
<1>0. UNCHANGED tick /\ \A k \in Jobs \ {j} : job'[k] = job[k]
  BY CheckOutcome
  DEF JobStep, JobStarts, JobMarks, JobRecords, JobRaises, JobEnds, Finish, Goto, jobRest, ControlTyped
<1>1. ASSUME NEW status \in {"none"} \cup Active \cup Terminal, Finish(j, status), job[j].pc \in Held
      PROVE  HoldInv'
  <2>1. job'[j].pc = "done" /\ Release(x)
    BY <1>1, <1>x, FinishTyped DEF Finish
  <2>2. "done" \notin Held
    BY DEF Held
  <2>3. \A c \in Clusters : Holders(c)' \subseteq Holders(c)
    BY <1>0, <1>1, <2>1, <2>2, HoldersAfterMove
  <2>4. j \in Holders(x) /\ j \notin Holders(x)'
    BY <1>1, <1>x, <2>1, <2>2 DEF Holders
  <2> QED
    BY <2>1, <2>3, <2>4, HolderReleases
<1>2. ASSUME NEW pc \in Places, Goto(j, pc), UNCHANGED <<RUNNING, overlapped>>, job[j].pc \in Held \/ pc \notin Held
      PROVE  HoldInv'
  <2>1. job'[j].pc = pc /\ job'[j].cluster = x
    BY <1>2, <1>x, GotoTyped
  <2>2. \A c \in Clusters : Holders(c)' \subseteq Holders(c)
    BY <1>0, <1>2, <1>x, <2>1, HoldersAfterMove
  <2> QED
    BY <1>2, <2>2, HoldersKept
<1>3. CASE JobStarts(j)
  <2>1. PICK pc \in {"done", "admitted"} : Goto(j, pc)
    BY <1>3 DEF JobStarts
  <2> QED
    BY <1>2, <1>3, <2>1 DEF JobStarts, Places, Held
<1>4. CASE JobMarks(j)
  <2>1. Mark(x) /\ Goto(j, "begun") /\ "begun" \in Places
    BY <1>4, <1>x DEF JobMarks, Places, Held
  <2>2. job'[j].pc = "begun" /\ job'[j].cluster = x
    BY <2>1, <1>x, GotoTyped
  <2>3. \A c \in Clusters : Holders(c)' \subseteq Holders(c) \cup {k \in {j} : c = x}
    BY <1>0, <1>x, <2>2, HoldersAfterMove
  <2> QED
    BY <2>1, <2>3, HolderMarks
<1>5. CASE JobChecks(j)
  <2>1. CASE jobs[j].cancel_requested
    BY <1>1, <1>5, <2>1, CheckOutcome DEF Held, Terminal
  <2>2. CASE ~jobs[j].cancel_requested
    <3>1. PICK pc \in {"collecting", "recording", "host"} : Goto(j, pc)
      BY <1>5, <2>2, CheckOutcome
    <3> QED
      BY <1>2, <1>5, <2>2, <3>1, CheckOutcome DEF Held, Places
  <2> QED
    BY <2>1, <2>2
<1>6. CASE JobRecords(j)
  <2>1. PICK result \in {"failed", "warning", "completed"} :
          job' = [job EXCEPT ![j].pc = "recorded", ![j].result = result]
    BY <1>6 DEF JobRecords
  <2>2. job'[j].cluster = x /\ job[j].pc \in Held
    BY <1>6, <1>x, <2>1 DEF JobRecords, AtTask, ControlTyped, JobRecord, Held
  <2>3. \A c \in Clusters : Holders(c)' \subseteq Holders(c)
    BY <1>0, <1>x, <2>2, HoldersAfterMove
  <2> QED
    BY <1>6, <2>3, HoldersKept DEF JobRecords
<1>7. CASE JobRaises(j)
  BY <1>1, <1>7 DEF JobRaises, Held, Terminal
<1>8. CASE JobEnds(j)
  <2>1. job[j].result \in Terminal /\ job[j].pc \in Held
    BY <1>8 DEF JobEnds, AtTask, JobInv, ControlTyped, JobRecord, Terminal, Held
  <2> QED
    BY <1>1, <1>8, <2>1 DEF JobEnds
<1> QED
  BY <1>3, <1>4, <1>5, <1>6, <1>7, <1>8 DEF JobStep

LEMMA RequestHolds ==
  ASSUME ControlTyped, JobInv, HoldInv, NEW j \in Jobs,
         CancelAccepted(j) \/ CancelStep(j) \/ \E c \in Clusters : Post(j, c)
  PROVE  HoldInv'
<1>1. CASE \E c \in Clusters : Post(j, c)
  <2>1. PICK c \in Clusters : Post(j, c)
    BY <1>1
  <2>2. /\ \A k \in Jobs \ {j} : job'[k] = job[k]
        /\ job'[j].pc = "queued" /\ UNCHANGED <<tick, RUNNING, overlapped>>
    BY <2>1 DEF Post, NoTask, ControlTyped
  <2>3. "queued" \notin Held
    BY DEF Held
  <2>4. \A d \in Clusters : Holders(d)' \subseteq Holders(d)
    BY <2>2, <2>3, HoldersAfterMove
  <2> QED
    BY <2>2, <2>4, HoldersKept
<1>2. CASE CancelAccepted(j) \/ CancelStep(j)
  <2>1. UNCHANGED <<job, tick, RUNNING, overlapped>>
    BY <1>2 DEF CancelAccepted, CancelStep, CancelFlags, CancelReads, CancelFinishes, cancelRest
  <2>2. \A c \in Clusters : Holders(c)' = Holders(c)
    BY <2>1 DEF Holders
  <2> QED
    BY <2>1, <2>2, HoldersKept
<1> QED
  BY <1>1, <1>2

\* A step of the tick that marks no cluster and gives none up properly.
LEMMA TickHolds ==
  ASSUME TickInv, HoldInv, TickStep
  PROVE  HoldInv'
<1> DEFINE run == tick.run
<1>0. /\ run \in RunRecord /\ Stands(run) /\ tick \in TickRecord /\ UNCHANGED job
  BY DEF TickInv, TickRecord, TickStep, TickBegins, TickAdvances, TickRaises, TickMarks, TickReports,
         TickCompletes, TickLoads, TickSkips, TickScans, tickRest
<1>x. PICK x : x = run.at
  OBVIOUS
<1>r. ASSUME NEW r, Run(r) PROVE tick'.run = r
  BY <1>0, <1>r DEF Run, TickRecord
<1>1. CASE TickMarks
  <2>1. Mark(x) /\ tick'.run.marked = run.marked \cup {x}
    BY <1>0, <1>1, <1>x, <1>r DEF TickMarks, RunRecord
  <2>2. \A c \in Clusters : Holders(c)' \subseteq Holders(c) \cup {k \in {"tick"} : c = x}
    BY <1>0, <2>1 DEF Holders
  <2> QED
    BY <2>1, <2>2, HolderMarks
<1>2. CASE TickCompletes
  <2>1. Release(x) /\ tick'.run.marked = run.marked \ {x}
    BY <1>0, <1>2, <1>x, <1>r DEF TickCompletes, RunRecord
  <2>2. x \in run.marked
    BY <1>0, <1>2, <1>x DEF TickCompletes, At, Stands
  <2>3. "tick" \in Holders(x) /\ "tick" \notin Holders(x)'
    BY <1>0, <2>1, <2>2, NameAssumption DEF Holders
  <2>4. \A c \in Clusters : Holders(c)' \subseteq Holders(c)
    BY <1>0, <2>1 DEF Holders
  <2> QED
    BY <2>1, <2>3, <2>4, HolderReleases
<1>3. CASE ~TickMarks /\ ~TickCompletes
  <2>1. UNCHANGED <<RUNNING, overlapped>>
    BY <1>3 DEF TickStep, TickBegins, TickAdvances, TickRaises, TickReports,
                TickLoads, TickSkips, TickScans
  <2>2. tick'.run.marked \subseteq run.marked
    <3>0. IdleTick.marked = {}
      BY DEF IdleTick
    <3>1. CASE TickBegins
      BY <3>1 DEF TickBegins, IdleTick
    <3>2. CASE TickAdvances
      <4>1. ASSUME NEW pc, NEW todo, Run([run EXCEPT !.pc = pc, !.todo = todo])
            PROVE  tick'.run.marked = run.marked
        BY <1>0, <1>r, <4>1 DEF RunRecord
      <4> QED
        BY <1>r, <3>0, <3>2, <4>1 DEF TickAdvances
    <3>3. CASE TickRaises
      <4>1. ASSUME Run([run EXCEPT !.result = "failed", !.keys = Keys])
            PROVE  tick'.run.marked = run.marked
        BY <1>0, <1>r, <4>1 DEF RunRecord
      <4> QED
        BY <1>r, <3>0, <3>3, <4>1 DEF TickRaises
    <3>4. CASE TickReports
      <4>1. CASE Run([run EXCEPT !.result = "reported"])
        BY <1>0, <1>r, <4>1 DEF RunRecord
      <4>2. CASE Run([run EXCEPT !.at = "none", !.todo = @ \ {run.at}])
        BY <1>0, <1>r, <4>2 DEF RunRecord
      <4> QED
        BY <3>4, <4>1, <4>2 DEF TickReports
    <3>5. ASSUME NEW c \in Clusters, TickLoads(c)
          PROVE  tick'.run.marked \subseteq run.marked
      BY <1>0, <1>r, <3>5 DEF TickLoads, RunRecord
    <3>6. ASSUME NEW c \in Clusters, TickSkips(c)
          PROVE  tick'.run.marked \subseteq run.marked
      BY <1>0, <1>r, <3>6 DEF TickSkips, RunRecord
    <3>7. ASSUME NEW c \in Clusters, NEW result \in {"recorded", "failed"}, TickScans(c, result)
          PROVE  tick'.run.marked \subseteq run.marked
      BY <1>0, <1>r, <3>7 DEF TickScans, RunRecord
    <3> QED
      BY <1>3, <3>1, <3>2, <3>3, <3>4, <3>5, <3>6, <3>7 DEF TickStep
  <2>3. \A c \in Clusters : Holders(c)' \subseteq Holders(c)
    BY <1>0, <2>2 DEF Holders
  <2> QED
    BY <2>1, <2>3, HoldersKept
<1> QED
  BY <1>1, <1>2, <1>3

-----------------------------------------------------------------------------
(* The theorems *)

LEMMA Inductive == IInv /\ [Next]_vars => IInv'
<1> SUFFICES ASSUME IInv, [Next]_vars PROVE IInv'
  OBVIOUS
<1>0. TypeOK /\ TickInv /\ JobInv /\ HoldInv /\ ControlTyped /\ sched \in SchedType
  BY TypeSplit DEF IInv
<1> SUFFICES ControlTyped' /\ sched' \in SchedType /\ TickInv' /\ JobInv' /\ HoldInv'
  BY DEF IInv, TypeOK, ControlTyped, SchedType, JobRecord, EntryRecord, CancelPlaces, TickInv, Stands
<1>1. CASE TickStep
  <2>1. UNCHANGED <<jobs, job, cancel>>
    BY <1>1 DEF TickStep, TickBegins, TickAdvances, TickRaises, TickMarks, TickReports, TickCompletes,
                TickLoads, TickSkips, TickScans, tickRest
  <2> QED
    BY <1>0, <1>1, <2>1, TickStepTyped, TickKeepsControl, JobStill, TickHolds
<1>2. ASSUME NEW j \in Jobs, JobStep(j)
      PROVE  ControlTyped' /\ sched' \in SchedType /\ TickInv' /\ JobInv' /\ HoldInv'
  <2>1. UNCHANGED <<sched, tick>>
    BY <1>2 DEF JobStep, JobStarts, JobMarks, JobChecks, JobRecords, JobRaises, JobEnds, jobRest
  <2> QED
    BY <1>0, <1>2, <2>1, JobStepTyped, JobStepInv, JobStepHolds, TickStill
<1>3. ASSUME NEW j \in Jobs,
             CancelAccepted(j) \/ CancelStep(j) \/ \E c \in Clusters : Post(j, c)
      PROVE  ControlTyped' /\ sched' \in SchedType /\ TickInv' /\ JobInv' /\ HoldInv'
  <2>1. UNCHANGED <<sched, tick>>
    BY <1>3 DEF CancelAccepted, CancelStep, CancelFlags, CancelReads, CancelFinishes, cancelRest, Post
  <2> QED
    BY <1>0, <1>3, <2>1, RequestTyped, RequestInv, RequestHolds, TickStill
<1>4. ASSUME NEW c \in Clusters, RemoveRows(c) \/ RemoveFile(c)
      PROVE  ControlTyped' /\ sched' \in SchedType /\ TickInv' /\ JobInv' /\ HoldInv'
  <2>1. UNCHANGED <<sched, tick, jobs, job, cancel, RUNNING, overlapped>>
    BY <1>4 DEF RemoveRows, RemoveFile
  <2>2. \A d \in Clusters : Holders(d)' = Holders(d)
    BY <2>1 DEF Holders
  <2> QED
    BY <1>0, <1>4, <2>1, <2>2, RemovalTyped, JobStill, HoldersKept, TickStill
<1>5. CASE UNCHANGED vars
  <2>1. UNCHANGED <<sched, tick, jobs, job, cancel, RUNNING, overlapped, configs>>
    BY <1>5 DEF vars, tables
  <2>2. \A d \in Clusters : Holders(d)' = Holders(d)
    BY <2>1 DEF Holders
  <2>3. ControlTyped'
    BY <1>0, <2>1 DEF ControlTyped
  <2> QED
    BY <1>0, <2>1, <2>2, <2>3, JobStill, HoldersKept, TickStill
<1> QED
  BY <1>1, <1>2, <1>3, <1>4, <1>5 DEF Next

LEMMA Invariance == Spec => []IInv
  BY Initially, Inductive, PTL DEF Spec

\* RUNNING_CLUSTERS, JOBS, the jobs, their cancellations and the tick stay in
\* their types, and the tick only counts as marked what it has loaded.
THEOREM JobsTypeCorrect == Spec => []TypeOK
<1>1. IInv => TypeOK
  BY DEF IInv
<1> QED
  BY <1>1, Invariance, PTL

\* A job that cancel_job answered "cancelled" while it was queued never reaches a
\* node, however the event loop and the thread of the cancellation interleave.
THEOREM NoCollectionAfterCancel == Spec => []CancelledNeverCollects
<1>1. IInv => CancelledNeverCollects
  BY DEF IInv, JobInv, CancelledNeverCollects, Held
<1> QED
  BY <1>1, Invariance, PTL

\* A cluster that a job or the tick collects is in RUNNING_CLUSTERS, unless two
\* collections of it overlapped.
THEOREM CollectionIsGuarded == Spec => []GuardHeld
<1>1. IInv => GuardHeld
  BY DEF IInv, HoldInv, GuardHeld
<1> QED
  BY <1>1, Invariance, PTL

\* The status of a job whose task has ended is never rewritten: neither a late
\* cancellation nor another request changes it.
THEOREM OutcomesAreFinal == Spec => OutcomeIsFinal
<1>1. ASSUME IInv, [Next]_vars, NEW j \in Jobs, job[j].pc = "done"
      PROVE  jobs'[j].status = jobs[j].status
  <2>0. ControlTyped /\ JobInv
    BY <1>1, TypeSplit DEF IInv
  <2>1. ASSUME NEW k \in Jobs, JobStep(k) PROVE jobs'[j].status = jobs[j].status
    <3>1. k # j
      BY <1>1, <2>1, CheckOutcome DEF JobStep, JobStarts, JobMarks, JobRecords, JobRaises, JobEnds, AtTask
    <3>2. jobs'[j] = jobs[j]
      BY <2>0, <2>1, <3>1, CheckOutcome
      DEF JobStep, JobStarts, JobMarks, JobRecords, JobRaises, JobEnds, Finish, ControlTyped
    <3> QED
      BY <3>2
  <2>2. ASSUME NEW k \in Jobs, CancelAccepted(k) \/ CancelStep(k) PROVE jobs'[j].status = jobs[j].status
    BY <1>1, <2>0, <2>2
    DEF CancelStep, CancelAccepted, CancelFlags, CancelReads, CancelFinishes, ControlTyped, EntryRecord, JobInv
  <2>3. ASSUME NEW k \in Jobs, NEW c \in Clusters, Post(k, c) PROVE jobs'[j].status = jobs[j].status
    <3>1. k # j
      BY <1>1, <2>0, <2>3 DEF Post, JobInv
    <3> QED
      BY <2>3, <3>1 DEF Post
  <2>4. TickStep \/ (\E c \in Clusters : RemoveRows(c) \/ RemoveFile(c)) \/ UNCHANGED vars => UNCHANGED jobs
    BY DEF TickStep, TickBegins, TickAdvances, TickRaises, TickMarks, TickReports, TickCompletes,
           TickLoads, TickSkips, TickScans, tickRest, RemoveRows, RemoveFile, vars
  <2> QED
    BY <1>1, <2>1, <2>2, <2>3, <2>4 DEF Next
<1>2. IInv /\ [Next]_vars => [\A j \in Jobs : job[j].pc = "done" => jobs'[j].status = jobs[j].status]_vars
  BY <1>1
<1> QED
  BY <1>2, Invariance, PTL DEF Spec, OutcomeIsFinal

=============================================================================
