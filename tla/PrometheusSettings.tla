------------------------- MODULE PrometheusSettings -------------------------
(***************************************************************************)
(* The Prometheus settings file and its connection tests: concurrent GET,  *)
(* PUT and test requests in the thread pool, hand edits of the file, and a *)
(* restart of the process at any point.  save is a compare-and-set of the  *)
(* file's revision under a file lock; a test's result is cached for the    *)
(* revision it was started for.                                            *)
(*                                                                         *)
(* Data abstraction.  A revision is the SHA-256 of the normalised config,  *)
(* so a config stands for its revision, and Broken for any file that _load *)
(* refuses: not regular, not JSON, too long, or not a valid config.        *)
(***************************************************************************)
EXTENDS Integers, FiniteSets

CONSTANTS
  Threads,    \* requests served at the same time
  Configs,    \* normalised configs
  Default,    \* defaults()
  Unset,      \* configs without a base_url
  Absent,     \* there is no file
  Broken,     \* a file _load refuses
  NoTest,     \* no cached or shown test result
  MaxSlots,   \* _TEST_SLOTS
  MaxEdits    \* bound: edits by hand and restarts

ASSUME ConfigAssumption ==
  /\ Default \in Unset /\ Unset \subseteq Configs
  /\ Absent \notin Configs /\ Broken \notin Configs /\ NoTest \notin Configs /\ Absent # Broken
ASSUME SlotAssumption == MaxSlots \in Nat /\ MaxEdits \in Nat
ASSUME ThreadAssumption == IsFiniteSet(Threads)

VARIABLES
  file,       \* what prometheus.json holds
  lock,       \* threads that hold the file lock
  cache,      \* _LAST_TEST
  slots,      \* permits left in _TEST_SLOTS
  call,       \* what each thread is doing, and its locals
  edits,      \* edits and restarts so far
  overtaken   \* history: savers whose checked file was edited by hand since

vars == <<file, lock, cache, slots, call, edits, overtaken>>

Statuses == {"connected", "failed"}
\* A cached result: its key, the status, and the config the probe was given.
Results  == [key : Configs, status : Statuses, tested : Configs]

Locked   == {"checking", "writing", "replacing", "clearing"}
Probing  == {"probing", "rereading", "storing"}
Points   == {"idle", "locking", "reading", "looking", "comparing"} \cup Locked \cup Probing

Reading  == {"reading", "checking", "comparing", "rereading"}   \* about to call _load

Calls == [pc : Points, expected : Configs, config : Configs, status : Statuses]
Rest  == [pc |-> "idle", expected |-> Default, config |-> Default, status |-> "failed"]

Readable == file # Broken

\* _load: the file's config, the defaults when there is none.
Loaded == IF file = Absent THEN Default ELSE file

At(t, pc)   == call[t].pc = pc
Goto(t, pc) == call' = [call EXCEPT ![t].pc = pc]
Return(t)   == call' = [call EXCEPT ![t] = Rest]

Init ==
  /\ file \in Configs \cup {Absent}
  /\ lock = {} /\ overtaken = {}
  /\ cache = NoTest
  /\ slots = MaxSlots
  /\ call = [t \in Threads |-> Rest]
  /\ edits = 0

-----------------------------------------------------------------------------
(* describe: GET, and the answer of a save *)

Get(t) ==
  /\ At(t, "idle")
  /\ Goto(t, "reading")
  /\ UNCHANGED <<file, lock, cache, slots, edits, overtaken>>

DescribeReads(t) ==
  /\ At(t, "reading") /\ Readable
  /\ call' = [call EXCEPT ![t].pc = "looking", ![t].config = Loaded]
  /\ UNCHANGED <<file, lock, cache, slots, edits, overtaken>>

\* Mutant: the cached result is shown whatever revision it is for.
AnyResult(config) == cache

\* The lookup under _CACHE_LOCK, by the revision read before.
Result(config) == IF cache # NoTest /\ cache.key = config THEN cache ELSE NoTest

\* The answer: the config read and Result(config).
DescribeLooks(t) ==
  /\ At(t, "looking")
  /\ Return(t)
  /\ UNCHANGED <<file, lock, cache, slots, edits, overtaken>>

-----------------------------------------------------------------------------
(* save *)

\* The page was loaded at some revision, perhaps long ago.
Save(t, expected, config) ==
  /\ At(t, "idle")
  /\ call' = [call EXCEPT ![t] =
       [Rest EXCEPT !.pc = "locking", !.expected = expected, !.config = config]]
  /\ UNCHANGED <<file, lock, cache, slots, edits, overtaken>>

\* Mutant: no file lock.
SaveLocksNothing(t) ==
  /\ At(t, "locking")
  /\ lock' = lock \cup {t}
  /\ Goto(t, "checking")
  /\ UNCHANGED <<file, cache, slots, edits, overtaken>>

SaveLocks(t) ==
  /\ At(t, "locking")
  /\ lock = {}
  /\ lock' = {t}
  /\ Goto(t, "checking")
  /\ UNCHANGED <<file, cache, slots, edits, overtaken>>

\* StorageError: the lock file cannot be opened, or is not a regular file.
LockFails(t) ==
  /\ At(t, "locking")
  /\ Return(t)
  /\ UNCHANGED <<file, lock, cache, slots, edits, overtaken>>

\* Mutant: the lock is not closed when the revision does not match.
SaveChecksKeepingLock(t) ==
  /\ At(t, "checking") /\ Readable
  /\ IF call[t].expected = Loaded THEN Goto(t, "writing") ELSE Return(t)
  /\ overtaken' = overtaken \ {t}
  /\ UNCHANGED <<file, lock, cache, slots, edits>>

\* ConflictError unless the file is at the expected revision.
SaveChecks(t) ==
  /\ At(t, "checking") /\ Readable
  /\ IF call[t].expected = Loaded
       THEN Goto(t, "writing") /\ UNCHANGED lock
       ELSE Return(t) /\ lock' = lock \ {t}
  /\ overtaken' = overtaken \ {t}
  /\ UNCHANGED <<file, cache, slots, edits>>

\* Mutant: the config is written to the file itself.
SaveWritesInPlace(t) ==
  /\ At(t, "writing")
  /\ file' = Broken
  /\ Goto(t, "replacing")
  /\ UNCHANGED <<lock, cache, slots, edits, overtaken>>

\* The temporary file, which only this save opens, is written and synced.
SaveWrites(t) ==
  /\ At(t, "writing")
  /\ Goto(t, "replacing")
  /\ UNCHANGED <<file, lock, cache, slots, edits, overtaken>>

SaveReplaces(t) ==
  /\ At(t, "replacing")
  /\ file' = call[t].config
  /\ call' = [call EXCEPT ![t] = [Rest EXCEPT !.pc = "clearing"]]
  /\ UNCHANGED <<lock, cache, slots, edits, overtaken>>

\* _LAST_TEST.clear, then the lock is closed and the answer described.
SaveClears(t) ==
  /\ At(t, "clearing")
  /\ cache' = NoTest
  /\ lock' = lock \ {t}
  /\ Goto(t, "reading")
  /\ UNCHANGED <<file, slots, edits, overtaken>>

\* StorageError: the temporary file cannot be written or moved; it is unlinked,
\* the lock closed.
SaveFails(t) ==
  /\ At(t, "writing") \/ At(t, "replacing")
  /\ lock' = lock \ {t}
  /\ Return(t)
  /\ UNCHANGED <<file, cache, slots, edits, overtaken>>

-----------------------------------------------------------------------------
(* test_connection *)

Test(t, expected) ==
  /\ At(t, "idle")
  /\ call' = [call EXCEPT ![t] = [Rest EXCEPT !.pc = "comparing", !.expected = expected]]
  /\ UNCHANGED <<file, lock, cache, slots, edits, overtaken>>

\* ConflictError at another revision, ValueError without a saved URL.
TestRefused(t) ==
  /\ At(t, "comparing") /\ Readable
  /\ call[t].expected # Loaded \/ file = Absent \/ file \in Unset
  /\ Return(t)
  /\ UNCHANGED <<file, lock, cache, slots, edits, overtaken>>

\* BusyError without a permit, else the saved config is probed.
TestAdmitted(t) ==
  /\ At(t, "comparing") /\ Readable
  /\ call[t].expected = Loaded /\ file \notin Unset \cup {Absent}
  /\ IF slots = 0
       THEN Return(t) /\ UNCHANGED slots
       ELSE /\ slots' = slots - 1
            /\ call' = [call EXCEPT ![t] = [Rest EXCEPT !.pc = "probing", !.config = file]]
  /\ UNCHANGED <<file, lock, cache, edits, overtaken>>

\* probe returns a result in every case, its own deadline included.
TestProbes(t) ==
  /\ At(t, "probing")
  /\ \E status \in Statuses : call' = [call EXCEPT ![t].pc = "rereading", ![t].status = status]
  /\ UNCHANGED <<file, lock, cache, slots, edits, overtaken>>

\* ConflictError when the revision is no longer the probed one.
TestRereads(t) ==
  /\ At(t, "rereading") /\ Readable
  /\ IF Loaded = call[t].config
       THEN Goto(t, "storing") /\ UNCHANGED slots
       ELSE Return(t) /\ slots' = slots + 1
  /\ UNCHANGED <<file, lock, cache, edits, overtaken>>

\* The only entry of _LAST_TEST is replaced; the permit is released.
TestStores(t) ==
  /\ At(t, "storing")
  /\ cache' = [key |-> call[t].config, status |-> call[t].status, tested |-> call[t].config]
  /\ slots' = slots + 1
  /\ Return(t)
  /\ UNCHANGED <<file, lock, edits, overtaken>>

-----------------------------------------------------------------------------
(* Reads that fail *)

\* Mutant: the exception of the second read passes by the release.
LoadFailsKeepingSlot(t) ==
  /\ call[t].pc \in Reading
  /\ lock' = lock \ {t}
  /\ Return(t)
  /\ UNCHANGED <<file, cache, slots, edits, overtaken>>

\* StorageError of _load, for a broken file or any error of the read.  The
\* with statement closes the lock, the finally gives the permit back.
LoadFails(t) ==
  /\ call[t].pc \in Reading
  /\ lock' = lock \ {t}
  /\ slots' = IF At(t, "rereading") THEN slots + 1 ELSE slots
  /\ Return(t)
  /\ UNCHANGED <<file, cache, edits, overtaken>>

-----------------------------------------------------------------------------
(* Edits by hand and restarts *)

Savers == {t \in Threads : call[t].pc \in {"writing", "replacing"}}

\* The lock is the application's own: an editor does not take it.
Edit(content) ==
  /\ edits < MaxEdits
  /\ file' = content
  /\ edits' = edits + 1
  /\ overtaken' = overtaken \cup Savers
  /\ UNCHANGED <<lock, cache, slots, call>>

\* Locks and memory are gone, the file stays.
Restart ==
  /\ edits < MaxEdits
  /\ edits' = edits + 1
  /\ call' = [t \in Threads |-> Rest]
  /\ lock' = {} /\ cache' = NoTest /\ slots' = MaxSlots /\ overtaken' = {}
  /\ UNCHANGED file

SaveStep(t) == SaveChecks(t) \/ SaveWrites(t) \/ SaveReplaces(t) \/ SaveClears(t) \/ SaveFails(t)
TestStep(t) == TestRefused(t) \/ TestAdmitted(t) \/ TestProbes(t) \/ TestRereads(t) \/ TestStores(t)
Step(t) == DescribeReads(t) \/ DescribeLooks(t) \/ SaveStep(t) \/ TestStep(t) \/ LoadFails(t)

Request(t) ==
  \/ Get(t)
  \/ \E expected \in Configs : Test(t, expected) \/ \E config \in Configs : Save(t, expected, config)

Next ==
  \/ \E t \in Threads : Request(t) \/ SaveLocks(t) \/ LockFails(t) \/ Step(t)
  \/ \E content \in Configs \cup {Broken} : Edit(content)
  \/ Restart

Spec == Init /\ [][Next]_vars

\* Threads keep running; flock serves its waiters in turn.
FairSpec == Spec /\ \A t \in Threads : WF_vars(Step(t)) /\ SF_vars(SaveLocks(t))

-----------------------------------------------------------------------------
(* Properties *)

\* Besides the types: until somebody edits it by hand the file holds a whole
\* config or is absent at every instant, so that readers, which take no lock,
\* find one.
TypeOK ==
  /\ file \in Configs \cup {Absent, Broken}
  /\ file = Broken => edits > 0
  /\ lock \subseteq Threads /\ overtaken \subseteq Threads
  /\ cache \in Results \cup {NoTest}
  /\ slots \in 0 .. MaxSlots
  /\ call \in [Threads -> Calls]
  /\ edits \in 0 .. MaxEdits

\* No lost update: a save only ever replaces the revision its page was loaded
\* at, unless the file was edited by hand after the check (save, _write_lock).
ReplacesWhatItChecked ==
  [][\A t \in Threads :
       At(t, "replacing") /\ call'[t].pc = "clearing"
         => Loaded = call[t].expected \/ t \in overtaken]_vars

\* A test result is shown only next to the very config that was probed,
\* whatever saves and edits came in between (test_connection, describe).
ShownResultIsOfShownConfig ==
  \A t \in Threads :
    At(t, "looking") /\ Result(call[t].config) # NoTest
      => Result(call[t].config).tested = call[t].config

Testers == {t \in Threads : call[t].pc \in Probing}

\* Permits are conserved: those not available are held by a running test.  The
\* test's ways out are its answer, a conflict and a read that fails.
SlotsConserved == slots + Cardinality(Testers) = MaxSlots

\* Every request is answered, however saves queue for the lock.
RequestsEnd == \A t \in Threads : call[t].pc # "idle" ~> call[t].pc = "idle"

=============================================================================
