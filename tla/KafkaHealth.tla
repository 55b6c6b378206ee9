---------------------------- MODULE KafkaHealth ----------------------------
(***************************************************************************)
(* How Kafka and ZooKeeper evidence is judged: what kafka_analyzer makes   *)
(* of log text, what kafka_ingest merges into a row, the health score, the *)
(* root causes and the real-time alerts of a node.                         *)
(*                                                                         *)
(* A line has its own time or None, and the patterns it matches.  A row    *)
(* maps the columns below to numbers or None: percentages, latencies and   *)
(* scores in tenths, rates in thousandths per second.  A host row and GC   *)
(* metrics are those of HostHealth and GcHealth.                           *)
(***************************************************************************)
EXTENDS Integers, FiniteSets, FiniteSetsExt, SequencesExt

CONSTANTS
  None,       \* a value that was not observed
  EventCap    \* events kept of one text (250)

ASSUME CapAssumption == EventCap \in Nat \ {0} /\ None \notin Int

BrokerColumns == {"urp", "offline", "controllers", "shrink", "expand", "unclean",
                  "idle", "netIdle", "produce", "fetch", "queue"}
ZkColumns == {"zkAvg", "zkMax", "outstanding", "fsync", "sessions"}
KafkaColumns == BrokerColumns \cup ZkColumns
HostColumns == {"cpu", "iowait", "mem", "swap", "swapOut", "diskUtil", "diskAwait"}

Value(x) == IF x = None THEN 0 ELSE x
Or(a, b) == IF Value(a) = 0 THEN b ELSE a
AtLeast(x, limit) == x # None /\ x >= limit
Below(x, limit)   == x # None /\ x < limit
If(cond, penalty) == IF cond THEN penalty ELSE 0
Alert(cond, alerts) == IF cond THEN alerts ELSE {}

-----------------------------------------------------------------------------
(* parse_kafka_logs *)

\* _LOG_PATTERNS, in order.
Patterns == << "zk_fsync_stall", "zk_session_expired", "zk_quorum_election",
               "zk_connection_drop", "isr_shrink", "isr_expand", "urp_detected",
               "offline_partition", "controller_election", "leader_election",
               "not_leader_error", "request_handler_starvation",
               "storage_io_error", "jvm_oom" >>
Categories == ToSet(Patterns)

LogLine == [at : Nat \cup {None}, matches : SUBSET Categories, ms : Nat]

\* A line has the category of the first pattern it matches.
Category(line) == Patterns[Min({k \in DOMAIN Patterns : Patterns[k] \in line.matches})]
Hits(text) == {k \in DOMAIN text : text[k].matches # {}}

\* A line without a time has that of the line before it, the first ones `now`.
Stamp(text, k, now) ==
  LET timed == {n \in 1 .. k : text[n].at # None}
  IN IF timed = {} THEN now ELSE text[Max(timed)].at

\* Every hit is counted; only the first EventCap of the text become events.
Parse(text, now) ==
  LET hits == SetToSortSeq(Hits(text), <)
      event(k) == [ts |-> Stamp(text, k, now), cat |-> Category(text[k])]
      kept == Min({Cardinality(Hits(text)), EventCap})
  IN [counts |-> [c \in Categories |-> Cardinality({k \in Hits(text) : Category(text[k]) = c})],
      maxFsync |-> Max({0} \cup {text[k].ms : k \in {h \in Hits(text) : Category(text[h]) = "zk_fsync_stall"}}),
      events |-> [n \in 1 .. kept |-> event(hits[n])]]

NoRow == [c \in KafkaColumns |-> None]

\* c / 60 in thousandths, rounded.
PerSecond(count) == (1000 * count + 30) \div 60

\* Mutant: what earlier rows said is not carried over.
MergeAfresh(existing, scraped, parsed, expands) ==
  [c \in KafkaColumns |->
     CASE c \in DOMAIN scraped -> scraped[c]
       [] c = "urp"     -> parsed.counts["urp_detected"]
       [] c = "offline" -> parsed.counts["offline_partition"]
       [] c = "fsync"   -> parsed.counts["zk_fsync_stall"]
       [] OTHER -> NoRow[c]]

\* The row of a pass or an upload: the latest one, overwritten by what was
\* scraped, then raised by what the log text counts.  A count of zero changes
\* nothing.  Uploads leave the expand rate alone.
Merge(existing, scraped, parsed, expands) ==
  LET base(c) == IF c \in DOMAIN scraped THEN scraped[c] ELSE existing[c]
      count(cat) == parsed.counts[cat]
      raised(c, x) == Max({Value(base(c)), x})
  IN [c \in KafkaColumns |->
        IF c = "urp" /\ count("urp_detected") > 0 THEN raised(c, count("urp_detected"))
        ELSE IF c = "offline" /\ count("offline_partition") > 0 THEN raised(c, count("offline_partition"))
        ELSE IF c = "shrink" /\ count("isr_shrink") > 0
          THEN Value(base(c)) + PerSecond(count("isr_shrink"))
        ELSE IF c = "expand" /\ expands /\ count("isr_expand") > 0
          THEN Value(base(c)) + PerSecond(count("isr_expand"))
        ELSE IF c = "fsync" /\ count("zk_fsync_stall") > 0 THEN count("zk_fsync_stall")
        ELSE IF c = "zkMax" /\ count("zk_fsync_stall") > 0 THEN raised(c, parsed.maxFsync)
        ELSE IF c = "sessions" /\ count("zk_session_expired") > 0 THEN count("zk_session_expired")
        ELSE base(c)]

-----------------------------------------------------------------------------
(* score_kafka_health *)

ZkPenalty(m, logs) ==
  LET fsync == Or(m["fsync"], logs["zk_fsync_stall"])
      gone  == Or(m["sessions"], logs["zk_session_expired"])
  IN If(fsync > 0, Min({350, 150 + fsync * 50}))
     + (IF AtLeast(m["zkAvg"], 500) THEN 300 ELSE If(AtLeast(m["zkAvg"], 150), 120))
     + (IF AtLeast(m["zkMax"], 6000) THEN 180 ELSE If(AtLeast(m["zkMax"], 1500), 80))
     + (IF AtLeast(m["outstanding"], 40) THEN 220 ELSE If(AtLeast(m["outstanding"], 10), 100))
     + (IF gone >= 3 THEN 200 ELSE If(gone >= 1, 80))

BrokerPenalty(m, logs) ==
  If(AtLeast(m["offline"], 1), 450)
  + If(AtLeast(m["urp"], 1), Min({380, 220 + Value(m["urp"]) * 15}))
  + If(AtLeast(m["unclean"], 1), 300)
  + (IF AtLeast(m["shrink"], 100) THEN 150 ELSE If(logs["isr_shrink"] > 0, 120))
  + (IF Below(m["idle"], 180) THEN 220 ELSE If(Below(m["idle"], 350), 100))
  + (IF Below(m["netIdle"], 180) THEN 180 ELSE If(Below(m["netIdle"], 350), 80))
  + (IF AtLeast(m["produce"], 3000) THEN 180 ELSE If(AtLeast(m["produce"], 1200), 80))
  + If(AtLeast(m["fetch"], 4000), 100)
  + If(AtLeast(m["queue"], 80), 120)

KafkaScore(m, role, logs) ==
  Max({0, 1000 - (IF role = "zookeeper" THEN ZkPenalty(m, logs) ELSE BrokerPenalty(m, logs))})

KafkaGrade(score) ==
  IF score >= 900 THEN "A" ELSE IF score >= 750 THEN "B" ELSE IF score >= 600 THEN "C"
  ELSE IF score >= 400 THEN "D" ELSE "F"

-----------------------------------------------------------------------------
(* derive_kafka_findings: the root causes it names *)

ZkCauses(m, host, logs) ==
  IF Value(m["fsync"]) + logs["zk_fsync_stall"] > 0 \/ AtLeast(host["diskAwait"], 251)
    THEN {"zk_wal_io_stall"} ELSE {}

BrokerCauses(m, gc, host) ==
  LET urp == Value(m["urp"]) > 0
      holds == [gc_induced_urp   |-> urp /\ (AtLeast(gc["max"], 400) \/ AtLeast(gc["full"], 1)),
                io_induced_urp   |-> urp /\ (AtLeast(host["iowait"], 100) \/ AtLeast(host["diskAwait"], 250)),
                swap_induced_urp |-> urp /\ AtLeast(host["swap"], 6),
                cpu_thread_starvation |-> Below(m["idle"], 350) /\ AtLeast(host["cpu"], 800)]
  IN {id \in DOMAIN holds : holds[id]}

Causes(m, role, gc, host, logs) ==
  IF role = "zookeeper" THEN ZkCauses(m, host, logs) ELSE BrokerCauses(m, gc, host)

-----------------------------------------------------------------------------
(* evaluate_realtime_alerts: the alerts of one node, as <<category, severity>> *)

HostAlerts(h) ==
  LET await == AtLeast(h["diskAwait"], 350)
      wait  == AtLeast(h["iowait"], 150)
  IN (IF AtLeast(h["cpu"], 900) THEN {<<"cpu_damage", "critical">>}
      ELSE IF AtLeast(h["cpu"], 750) THEN {<<"cpu_pressure", "warning">>} ELSE {})
     \cup
     (IF h["mem"] = None THEN {}
      ELSE IF AtLeast(h["mem"], 920) \/ AtLeast(h["swapOut"], 6) \/ AtLeast(h["swap"], 20)
        THEN {<<"memory_damage", "critical">>}
      ELSE IF AtLeast(h["mem"], 850) \/ AtLeast(h["swap"], 5)
        THEN {<<"memory_pressure", "warning">>} ELSE {})
     \cup
     (IF await \/ wait \/ AtLeast(h["diskUtil"], 900)
        THEN {<<"disk_io_damage", IF AtLeast(h["diskAwait"], 500) \/ AtLeast(h["iowait"], 200)
                                    THEN "critical" ELSE "warning">>} ELSE {})

KafkaAlerts(m, role) ==
  LET fsync == Value(m["fsync"]) > 0
      gone  == Value(m["sessions"])
  IN Alert(Value(m["offline"]) > 0, {<<"offline_partitions", "critical">>})
     \cup Alert(Value(m["urp"]) > 0, {<<"urp", "critical">>})
     \cup Alert(Below(m["idle"], 250),
              {<<"thread_starvation", IF m["idle"] < 150 THEN "critical" ELSE "warning">>})
     \cup Alert(role = "zookeeper" /\ (fsync \/ AtLeast(m["zkAvg"], 250) \/ gone > 0),
              {<<"zk_quorum_stall",
                 IF fsync \/ AtLeast(m["zkAvg"], 500) \/ gone >= 2 THEN "critical" ELSE "warning">>})

=============================================================================
