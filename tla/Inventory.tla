------------------------------ MODULE Inventory ------------------------------
(***************************************************************************)
(* Which hosts the history database knows and under which instance id      *)
(* their history is kept (ingest.py, store.py, app.py).  Every pass over a *)
(* cluster computes the ids anew from the node list it was given; sync     *)
(* moves what is stored under other ids of the same hosts and deletes the  *)
(* hosts that the list no longer names.  The lists come from files that    *)
(* requests rewrite while passes with older lists are in flight.           *)
(*                                                                         *)
(* An id is <<scheme, cluster, name>>.  The tables that migrate_instance   *)
(* moves (GC and host metrics, offsets, quality) are one relation, `hist': *)
(* which host's measurements are stored under which id.                    *)
(* A database transaction is one step; so is a pass over one cluster's     *)
(* nodes where the code has a transaction for all of them.  All nodes have *)
(* one role.                                                               *)
(***************************************************************************)
EXTENDS Naturals, Sequences, FiniteSets, SequencesExt

CONSTANTS Clusters,     \* cluster names
          Nodes,        \* node ids of the YAML files
          Lists,        \* the node lists a file may declare
          Slug,         \* Slug[c]: the file name of cluster c
          Safe,         \* Safe[n]: node id n with other characters replaced
          Number,       \* Number[n]: the index parsed from n, 0 if there is none
          MaxStarts     \* bound: requests, ticks and restarts that begin

NoNode == "no node id"

ASSUME ClustersAreFinite == IsFiniteSet(Clusters)
ASSUME NodesAreNamed == NoNode \notin Nodes
ASSUME ListsDeclareNodes == Lists \subseteq Seq(Nodes) \ {<< >>}
ASSUME ClustersHaveSlugs == DOMAIN Slug = Clusters
ASSUME NumbersAreNaturals == Number \in [Nodes -> Nat]
ASSUME StartsAreCounted == MaxStarts \in Nat

VARIABLES files,    \* the clusters/*.yaml: [cluster, nodes] by file name
          db,       \* rows: [cluster, node] by id; hist: pairs [id, host]
          RUNNING,  \* the clusters marked as being collected
          ops,      \* requests, jobs and ticks in flight, one per cluster
          uploads,  \* uploads that found their instance: [id, host]
          drifted,  \* history: clusters left with instances of another list than their file's
          up,       \* the application has started
          starts    \* what began so far
vars == <<files, db, RUNNING, ops, uploads, drifted, up, starts>>

Hosts == [cluster : Clusters, node : Nodes]
Edits == {"post", "put", "remove"}

(***************************************************************************)
(* Instance ids.                                                           *)
(***************************************************************************)
Ids(c, nodes) ==
  LET id[k \in DOMAIN nodes] ==
        LET plain == <<"stable", c, Safe[nodes[k]]>> IN
        IF \E j \in 1..(k - 1) : id[j] = plain
          THEN <<"stable", c, <<Safe[nodes[k]], k>> >>
          ELSE plain
  IN id

IndexOf(n, k) == IF Number[n] = 0 THEN k ELSE Number[n]

Legacy(c, n, k) == [index |-> <<"index", c, IndexOf(n, k)>>, named |-> <<"named", c, n>>]

(***************************************************************************)
(* Tables.                                                                 *)
(***************************************************************************)
Known(d, id) == id \in DOMAIN d.rows

Delete(d, ids) ==
  [rows |-> [i \in DOMAIN d.rows \ ids |-> d.rows[i]],
   hist |-> {e \in d.hist : e.id \notin ids}]

Migrate(d, olds, new) ==
  [rows |-> [i \in DOMAIN d.rows \ (olds \ {new}) |-> d.rows[i]],
   hist |-> {[id |-> IF e.id \in olds THEN new ELSE e.id, host |-> e.host] : e \in d.hist}]

Upsert(d, c, nodes, ks) ==
  LET id == Ids(c, nodes)
      row(i) == [cluster |-> c,
                 node |-> nodes[CHOOSE k \in ks : id[k] = i /\ \A j \in ks : id[j] = i => j <= k]]
      new == {id[k] : k \in ks}
  IN [rows |-> [i \in DOMAIN d.rows \cup new |-> IF i \in new THEN row(i) ELSE d.rows[i]],
      hist |-> d.hist]

Record(d, c, nodes, ks) ==
  [rows |-> d.rows,
   hist |-> d.hist \cup
     {[id |-> Ids(c, nodes)[k], host |-> [cluster |-> c, node |-> nodes[k]]] : k \in ks}]

(***************************************************************************)
(* sync_instances_from_nodes.                                              *)
(***************************************************************************)
Older(d, c, n, k) ==
  IF Known(d, Legacy(c, n, k).index) THEN {Legacy(c, n, k).index}
  ELSE {i \in {Legacy(c, n, k).named} : Known(d, i)}

AdoptLegacy(d, c, nodes) ==
  LET after[k \in 0 .. Len(nodes)] ==
        IF k = 0 THEN d
        ELSE Migrate(after[k - 1], Older(after[k - 1], c, nodes[k], k), Ids(c, nodes)[k])
  IN after[Len(nodes)]

\* Mutant: rows of the same node id are adopted from other clusters too.
RowsOfAnyCluster(d, c, n) == {i \in DOMAIN d.rows : d.rows[i].node = n}

\* Mutant: only the two known older schemes are adopted.
RowsOfNone(d, c, n) == {}

RowsOf(d, c, n) == {i \in DOMAIN d.rows : d.rows[i] = [cluster |-> c, node |-> n]}

AdoptRows(d, c, nodes) ==
  LET after[k \in 0 .. Len(nodes)] ==
        IF k = 0 THEN d
        ELSE Migrate(after[k - 1], RowsOf(after[k - 1], c, nodes[k]), Ids(c, nodes)[k])
  IN after[Len(nodes)]

\* Mutant: hosts that the list no longer names are kept.
StaleNone(d, c, nodes) == {}

Stale(d, c, nodes) ==
  {i \in DOMAIN d.rows : /\ d.rows[i].cluster = c
                         /\ i \notin Range(Ids(c, nodes))
                         /\ d.rows[i].node \notin Range(nodes)}

\* Mutant: stale rows are deleted before older ids are adopted.
SyncDeletingFirst(d, c, nodes) ==
  Upsert(AdoptRows(AdoptLegacy(Delete(d, Stale(d, c, nodes)), c, nodes), c, nodes),
         c, nodes, DOMAIN nodes)

Sync(d, c, nodes) ==
  LET adopted == AdoptRows(AdoptLegacy(d, c, nodes), c, nodes)
  IN Upsert(Delete(adopted, Stale(adopted, c, nodes)), c, nodes, DOMAIN nodes)

SyncAll(d) ==
  LET order == SetToSeq(DOMAIN files)
      after[k \in 0 .. Len(order)] ==
        IF k = 0 THEN d ELSE Sync(after[k - 1], files[order[k]].cluster, files[order[k]].nodes)
  IN after[Len(order)]

(***************************************************************************)
(* An installation whose history was seeded under the older id schemes.    *)
(***************************************************************************)
Declared(c) == UNION {Range(files[f].nodes) : f \in {g \in DOMAIN files : files[g].cluster = c}}

OldId(h, form) ==
  LET k == CHOOSE j \in 1..Len(files[Slug[h.cluster]].nodes) : files[Slug[h.cluster]].nodes[j] = h.node
  IN CASE form = "moved" -> <<"moved", h.cluster, h.node>>
       [] form = "index" -> Legacy(h.cluster, h.node, k).index
       [] form = "named" -> Legacy(h.cluster, h.node, k).named

OldRow(h, form) == [cluster |-> h.cluster, node |-> IF form = "moved" THEN h.node ELSE NoNode]

Seeded(d) ==
  \E form \in [Hosts -> {"none", "index", "named", "moved"}] :
    LET kept == {h \in Hosts : h.node \in Declared(h.cluster) /\ form[h] # "none"}
        owner(i) == CHOOSE h \in kept : OldId(h, form[h]) = i
    IN d = [rows |-> [i \in {OldId(h, form[h]) : h \in kept} |-> OldRow(owner(i), form[owner(i)])],
            hist |-> {[id |-> OldId(h, form[h]), host |-> h] : h \in kept}]

Init ==
  /\ \E cs \in SUBSET Clusters : \E list \in [cs -> Lists] :
       files = [f \in {Slug[c] : c \in cs} |->
                  LET c == CHOOSE c \in cs : Slug[c] = f IN [cluster |-> c, nodes |-> list[c]]]
  /\ Seeded(db)
  /\ RUNNING = {} /\ ops = {} /\ uploads = {} /\ drifted = {}
  /\ up = FALSE /\ starts = 0

(***************************************************************************)
(* Operations in flight.  A cluster drifts when what is written is not the *)
(* list its file holds then, when it is written while the cluster is being *)
(* removed, and when an edit fails between its halves.  Whatever syncs the *)
(* file's list, a later edit, job or start, repairs it.                    *)
(***************************************************************************)
Op(kind, c, nodes, stage) == [kind |-> kind, cluster |-> c, nodes |-> nodes, stage |-> stage]
OpsOf(c) == {o \in ops : o.cluster = c}

Begin(o) ==
  /\ up /\ starts < MaxStarts /\ starts' = starts + 1
  /\ ops' = ops \cup {o}

Removing(c) == \E o \in OpsOf(c) : o.kind = "remove"
IsCurrent(o) == \E f \in DOMAIN files : files[f] = [cluster |-> o.cluster, nodes |-> o.nodes]

Drifts(c)  == drifted' = drifted \cup {c}
Settles(c) == drifted' = drifted \ {c}
Writes(o)  == IF IsCurrent(o) /\ ~ Removing(o.cluster) THEN Settles(o.cluster) ELSE Drifts(o.cluster)

Go(o, stage) == ops' = (ops \ {o}) \cup {[o EXCEPT !.stage = stage]}

(***************************************************************************)
(* Requests.  onboard_cluster runs on the event loop, alone among POSTs.   *)
(***************************************************************************)
PostFile(c, nodes, isEdit) ==
  /\ c \notin RUNNING
  /\ isEdit \/ Slug[c] \notin DOMAIN files
  /\ \A o \in ops : o.kind # "post"
  /\ Begin(Op("post", c, nodes, "sync"))
  /\ files' = [f \in DOMAIN files \cup {Slug[c]} |->
                 IF f = Slug[c] THEN [cluster |-> c, nodes |-> nodes] ELSE files[f]]
  /\ UNCHANGED <<db, RUNNING, uploads, drifted, up>>

PostSync(o) ==
  /\ o.kind = "post"
  /\ db' = Sync(db, o.cluster, o.nodes)
  /\ ops' = (ops \ {o}) \cup {Op("job", o.cluster, o.nodes, "queued")}
  /\ Writes(o)
  /\ UNCHANGED <<files, RUNNING, uploads, up, starts>>

PutFile(f, nodes) ==
  /\ f \in DOMAIN files
  /\ Begin(Op("put", files[f].cluster, nodes, "sync"))
  /\ files' = [files EXCEPT ![f].nodes = nodes]
  /\ UNCHANGED <<db, RUNNING, uploads, drifted, up>>

PutSync(o) ==
  /\ o.kind = "put"
  /\ db' = Sync(db, o.cluster, o.nodes)
  /\ ops' = ops \ {o}
  /\ Writes(o)
  /\ UNCHANGED <<files, RUNNING, uploads, up, starts>>

\* The transaction of a POST or PUT is rolled back, say because the database is
\* locked: the file has been written, and no job follows.
SyncFails(o) ==
  /\ o.kind \in {"post", "put"}
  /\ ops' = ops \ {o}
  /\ IF IsCurrent(o) THEN Drifts(o.cluster) ELSE UNCHANGED drifted
  /\ UNCHANGED <<files, db, RUNNING, uploads, up, starts>>

NamesOf(c) ==
  {c, Slug[c]} \cup {files[f].cluster : f \in DOMAIN files \cap {c, Slug[c]}}

RemoveRows(c) ==
  /\ Begin(Op("remove", c, << >>, "file"))
  /\ db' = Delete(db, {i \in DOMAIN db.rows : db.rows[i].cluster \in NamesOf(c)})
  /\ Settles(c)
  /\ UNCHANGED <<files, RUNNING, uploads, up>>

RemoveFile(o) ==
  /\ o.kind = "remove"
  /\ files' = [f \in DOMAIN files \ {Slug[o.cluster]} |-> files[f]]
  /\ ops' = ops \ {o}
  /\ UNCHANGED <<db, RUNNING, uploads, drifted, up, starts>>

\* os.remove fails: the rows are gone, the file is not.
RemoveFails(o) ==
  /\ o.kind = "remove"
  /\ Slug[o.cluster] \in DOMAIN files
  /\ ops' = ops \ {o}
  /\ Drifts(o.cluster)
  /\ UNCHANGED <<files, db, RUNNING, uploads, up, starts>>

UploadCheck(i) ==
  /\ up /\ Known(db, i) /\ db.rows[i] \in Hosts
  /\ starts < MaxStarts /\ starts' = starts + 1
  /\ uploads' = uploads \cup {[id |-> i, host |-> db.rows[i]]}
  /\ UNCHANGED <<files, db, RUNNING, ops, drifted, up>>

UploadWrite(u) ==
  /\ db' = [rows |-> db.rows, hist |-> db.hist \cup {u}]
  /\ uploads' = uploads \ {u}
  /\ UNCHANGED <<files, RUNNING, ops, drifted, up, starts>>

(***************************************************************************)
(* Jobs and ticks.  A pass records some of its nodes: the others had no    *)
(* log, or failed.                                                         *)
(***************************************************************************)
JobStart(o) ==
  /\ o.kind = "job" /\ o.stage = "queued"
  /\ Go(o, "collecting")
  /\ RUNNING' = RUNNING \cup {o.cluster}
  /\ UNCHANGED <<files, db, uploads, drifted, up, starts>>

JobCommit(o, ks) ==
  /\ o.kind = "job" /\ o.stage = "collecting"
  /\ db' = Record(Sync(db, o.cluster, o.nodes), o.cluster, o.nodes, ks)
  /\ Go(o, "hosts")
  /\ Writes(o)
  /\ UNCHANGED <<files, RUNNING, uploads, up, starts>>

TickLoad(f) ==
  /\ f \in DOMAIN files /\ files[f].cluster \notin RUNNING
  /\ \A o \in OpsOf(files[f].cluster) : o.kind # "tick"
  /\ Begin(Op("tick", files[f].cluster, files[f].nodes, "loaded"))
  /\ UNCHANGED <<files, db, RUNNING, uploads, drifted, up>>

\* Mutant: the key of the job entry is marked in place of the cluster.
TickStartMarksEntry(o) ==
  /\ o.kind = "tick" /\ o.stage = "loaded"
  /\ Go(o, "collecting")
  /\ RUNNING' = RUNNING \cup {<<"sched", o.cluster>>}
  /\ UNCHANGED <<files, db, uploads, drifted, up, starts>>

TickStart(o) ==
  /\ o.kind = "tick" /\ o.stage = "loaded"
  /\ Go(o, "collecting")
  /\ RUNNING' = RUNNING \cup {o.cluster}
  /\ UNCHANGED <<files, db, uploads, drifted, up, starts>>

TickCommit(o, ks) ==
  /\ o.kind = "tick" /\ o.stage = "collecting"
  /\ db' = Record(Upsert(db, o.cluster, o.nodes, ks), o.cluster, o.nodes, ks)
  /\ Go(o, "hosts")
  /\ RUNNING' = RUNNING \ {o.cluster}
  /\ IF IsCurrent(o) /\ ~ Removing(o.cluster) THEN UNCHANGED drifted ELSE Drifts(o.cluster)
  /\ UNCHANGED <<files, uploads, up, starts>>

\* The host and Kafka passes: one transaction per node, no row written.
HostWrite(o, k) ==
  /\ o.stage = "hosts" /\ k \in DOMAIN o.nodes
  /\ db' = Record(db, o.cluster, o.nodes, {k})
  /\ UNCHANGED <<files, RUNNING, ops, uploads, drifted, up, starts>>

PassEnd(o) ==
  /\ o.kind \in {"job", "tick"}
  /\ ops' = ops \ {o}
  /\ RUNNING' = IF o.kind = "job" /\ o.stage # "queued" THEN RUNNING \ {o.cluster} ELSE RUNNING
  /\ UNCHANGED <<files, db, uploads, drifted, up, starts>>

\* The process starts, for the first time or after a crash.
Restart ==
  /\ starts < MaxStarts /\ starts' = starts + 1
  /\ db' = SyncAll(db)
  /\ RUNNING' = {} /\ ops' = {} /\ uploads' = {}
  /\ drifted' = drifted \ {files[f].cluster : f \in DOMAIN files}
  /\ up' = TRUE
  /\ UNCHANGED files

Request ==
  \/ \E c \in Clusters, nodes \in Lists, isEdit \in BOOLEAN : PostFile(c, nodes, isEdit)
  \/ \E f \in DOMAIN files, nodes \in Lists : PutFile(f, nodes)
  \/ \E c \in Clusters : RemoveRows(c)
  \/ \E i \in DOMAIN db.rows : UploadCheck(i)
  \/ \E f \in DOMAIN files : TickLoad(f)

Step ==
  \/ \E o \in ops : PostSync(o) \/ PutSync(o) \/ RemoveFile(o) \/ JobStart(o) \/ TickStart(o)
  \/ \E o \in ops : SyncFails(o) \/ RemoveFails(o)
  \/ \E o \in ops : \E ks \in SUBSET DOMAIN o.nodes : JobCommit(o, ks) \/ TickCommit(o, ks)
  \/ \E o \in ops : \E k \in DOMAIN o.nodes : HostWrite(o, k)
  \/ \E o \in ops : PassEnd(o)
  \/ \E u \in uploads : UploadWrite(u)

Next == Request \/ Step \/ Restart

Spec == Init /\ [][Next]_vars

(***************************************************************************)
(* Properties.                                                             *)
(***************************************************************************)
TypeOK ==
  /\ DOMAIN files \subseteq Range(Slug)
  /\ \A f \in DOMAIN files : files[f] \in [cluster : Clusters, nodes : Lists]
  /\ \A i \in DOMAIN db.rows : db.rows[i] \in [cluster : Clusters, node : Nodes \cup {NoNode}]
  /\ \A e \in db.hist : e.host \in Hosts
  /\ RUNNING \subseteq Clusters /\ drifted \subseteq Clusters
  /\ \A o \in ops : o.cluster \in Clusters /\ o.nodes \in Lists \cup {<< >>}
  /\ starts \in 0..MaxStarts

(* What is stored under an instance was measured on the host the instance *)
(* stands for, whatever edits, removals, migrations of older ids, uploads *)
(* and passes with outdated lists came before (_instance_id_for,          *)
(* sync_instances_from_nodes, migrate_instance).                          *)
OwnHistory ==
  \A e \in db.hist : Known(db, e.id) /\ db.rows[e.id].node # NoNode => db.rows[e.id] = e.host

(* No host appears twice in the fleet: the older ids of a host are merged *)
(* into its present one, and no pass adds a second ("survives config      *)
(* edits without duplicating hosts", _instance_id_for).                   *)
OneRowPerHost ==
  up => \A i, j \in DOMAIN db.rows : db.rows[i] = db.rows[j] => i = j

(* While no edit of a cluster is in flight, whatever passes are, its      *)
(* instances are those of its file, or none once it was removed, unless   *)
(* the cluster drifted (README lists when) and nothing has repaired it.   *)
Edited(c) == \E o \in OpsOf(c) : o.kind \in Edits
FollowsFiles ==
  \A c \in Clusters : up /\ c \notin drifted /\ ~ Edited(c) =>
    {db.rows[i].node : i \in {j \in DOMAIN db.rows : db.rows[j].cluster = c}} = Declared(c)

(* The history of a host stays visible through every step that leaves the *)
(* host in its cluster's file, unless the cluster is being removed or the *)
(* step itself leaves it drifted: a sync that repairs a drift loses none. *)
Shown(h) == \E e \in db.hist : e.host = h /\ Known(db, e.id)
HistoryKept ==
  [][\A h \in Hosts :
       Shown(h) /\ h.node \in Declared(h.cluster) /\ h.node \in Declared(h.cluster)'
       /\ h.cluster \notin drifted' /\ ~ Removing(h.cluster) /\ ~ Removing(h.cluster)'
       => Shown(h)']_vars

===============================================================================
