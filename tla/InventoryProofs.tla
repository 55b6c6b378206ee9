-------------------------- MODULE InventoryProofs --------------------------
(***************************************************************************)
(* Proofs about Inventory for any clusters, node lists and numbers of      *)
(* requests, ticks and restarts.                                           *)
(*                                                                         *)
(* A host has four ids: the present one, the two older schemes, and one of *)
(* any other origin.  The invariant says that history and rows are under   *)
(* ids of their own hosts, that once the application has started every row *)
(* is under its host's present id, and that the rows of a cluster that has *)
(* not drifted are those of its file unless an edit will make them so.     *)
(***************************************************************************)
EXTENDS Inventory, FiniteSetTheorems, TLAPS

\* Names stay different when they become ids, and a list names a node once.
NamesDiffer ==
  /\ \A m, n \in Nodes : Safe[m] = Safe[n] => m = n
  /\ \A m, n \in Nodes : Number[m] # 0 /\ (Number[m] = Number[n] => m = n)
  /\ \A list \in Lists : \A j, k \in DOMAIN list : list[j] = list[k] => j = k

\* The file of a cluster is no other cluster's, by its name or by its slug.
SlugsDiffer == \A c, d \in Clusters : Slug[c] \in {d, Slug[d]} => c = d

-----------------------------------------------------------------------------
(* The invariant *)

Host(c, n) == [cluster |-> c, node |-> n]

Stable(c, n) == <<"stable", c, Safe[n]>>

IdsOf(h) ==
  {Stable(h.cluster, h.node), <<"index", h.cluster, Number[h.node]>>,
   <<"named", h.cluster, h.node>>, <<"moved", h.cluster, h.node>>}

\* Measurements and rows that are under an id of their own host.
Entries == UNION {[id : IdsOf(h), host : {h}] : h \in Hosts}
RowOwned(i, row) ==
  \E h \in Hosts : i \in IdsOf(h) /\ row \in [cluster : {h.cluster}, node : {h.node, NoNode}]

Own(d) == d.hist \subseteq Entries /\ \A i \in DOMAIN d.rows : RowOwned(i, d.rows[i])

\* Of the older ids of a host one at most is in use, and a row that is under
\* an id of another origin names its node.
Tame(d) ==
  \A h \in Hosts :
    /\ ~ (Known(d, <<"index", h.cluster, Number[h.node]>>) /\ Known(d, <<"named", h.cluster, h.node>>))
    /\ Known(d, <<"moved", h.cluster, h.node>>) => d.rows[<<"moved", h.cluster, h.node>>] = h

Settled(d) ==
  \A i \in DOMAIN d.rows : d.rows[i] \in Hosts /\ i = Stable(d.rows[i].cluster, d.rows[i].node)

Kinds  == {"post", "put", "remove", "job", "tick"}
Stages == {"sync", "file", "queued", "loaded", "collecting", "hosts"}
OpRecord == [kind : Kinds, cluster : Clusters, nodes : Lists \cup {<< >>}, stage : Stages]

TypeInv ==
  /\ TypeOK
  /\ ops \subseteq OpRecord
  /\ \A o \in ops : o.kind # "remove" => o.nodes \in Lists
  /\ \A u \in uploads : u.host \in Hosts
  /\ \A f \in DOMAIN files : f = Slug[files[f].cluster]

HistInv == Own(db) /\ Tame(db) /\ uploads \subseteq Entries

\* Before it starts nothing is in flight, and only declared clusters have rows.
StartInv ==
  /\ up => Settled(db)
  /\ ~ up => /\ ops = {} /\ uploads = {} /\ drifted = {}
             /\ \A i \in DOMAIN db.rows : \E f \in DOMAIN files : files[f].cluster = db.rows[i].cluster

NodesOf(d, c) == {d.rows[i].node : i \in {j \in DOMAIN d.rows : d.rows[j].cluster = c}}

\* An edit in flight will write the list that the file has.
Pending(c) == \E o \in OpsOf(c) : o.kind \in {"post", "put"} /\ IsCurrent(o)

\* Unless the cluster drifted, its rows are those of the file or about to become
\* so; a removal leaves none.
Follows(c) ==
  /\ Removing(c) => NodesOf(db, c) = {}
  /\ ~ Removing(c) /\ ~ Pending(c) => NodesOf(db, c) = Declared(c)

FollowInv == up => \A c \in Clusters \ drifted : Follows(c)

IInv == TypeInv /\ HistInv /\ StartInv /\ FollowInv

-----------------------------------------------------------------------------
(* Numbers *)

\* What holds of 0, and of every number up to n with the one before it, holds of
\* all of them: a least exception would be the least of a set of intervals.
LEMMA Induction ==
  ASSUME NEW n \in Nat, NEW S, 0 \in S, \A k \in 1 .. n : k - 1 \in S => k \in S
  PROVE  \A k \in 0 .. n : k \in S
<1> DEFINE Bad == {k \in 0 .. n : k \notin S}
           T == {0 .. k : k \in Bad}
<1> SUFFICES ASSUME Bad # {} PROVE FALSE
  OBVIOUS
<1>1. T \subseteq FiniteSubsetsOf(0 .. n) /\ T # {}
  <2>1. \A k \in Bad : 0 .. k \subseteq 0 .. n /\ IsFiniteSet(0 .. k)
    BY FS_Interval
  <2>2. \A t \in T : t \subseteq 0 .. n /\ IsFiniteSet(t)
    BY <2>1
  <2> HIDE DEF T
  <2>3. T \subseteq FiniteSubsetsOf(0 .. n)
    BY <2>2 DEF FiniteSubsetsOf
  <2>4. T # {}
    BY DEF T
  <2> QED
    BY <2>3, <2>4
<1>2. PICK t \in T : \A u \in T : <<u, t>> \notin StrictSubsetOrdering(0 .. n)
  <2>1. IsFiniteSet(0 .. n)
    BY FS_Interval
  <2> HIDE DEF T
  <2> QED
    BY <1>1, <2>1, FS_StrictSubsetOrderingWellFounded, WFMin
<1>3. PICK k \in Bad : t = 0 .. k
  OBVIOUS
<1>4. k \in 1 .. n /\ k - 1 \in Bad
  <2>1. k \in 1 .. n
    OBVIOUS
  <2> QED
    BY <2>1
<1>5. 0 .. (k - 1) \in T
  BY <1>4
<1>6. 0 .. (k - 1) \subseteq 0 .. k /\ k \notin 0 .. (k - 1) /\ k \in 0 .. k /\ k \in 0 .. n
  BY <1>4
<1>7. <<0 .. (k - 1), t>> \in StrictSubsetOrdering(0 .. n)
  <2>1. 0 .. (k - 1) \in SUBSET (0 .. n) /\ t \in SUBSET (0 .. n)
    BY <1>3, <1>4
  <2>2. 0 .. (k - 1) \subseteq t /\ 0 .. (k - 1) # t
    BY <1>3, <1>6
  <2> HIDE DEF T, Bad
  <2> QED
    BY <2>1, <2>2 DEF StrictSubsetOrdering
<1>8. <<0 .. (k - 1), t>> \notin StrictSubsetOrdering(0 .. n)
  BY <1>2, <1>5
<1> QED
  BY <1>7, <1>8

\* A set of positions has a greatest one: the row that Upsert chooses exists.
LEMMA Greatest ==
  ASSUME NEW n \in Nat, NEW K \in SUBSET (1 .. n), K # {}
  PROVE  \E k \in K : \A j \in K : j <= k
<1> DEFINE S == {m \in Nat : \A L \in SUBSET (1 .. m) : L # {} => \E k \in L : \A j \in L : j <= k}
<1>1. 0 \in S
  <2>1. 1 .. 0 = {}
    OBVIOUS
  <2> QED
    BY <2>1
<1>2. ASSUME NEW m \in 1 .. n, m - 1 \in S PROVE m \in S
  <2> SUFFICES ASSUME NEW L \in SUBSET (1 .. m), L # {} PROVE \E k \in L : \A j \in L : j <= k
    OBVIOUS
  <2>1. CASE m \in L
    BY <2>1
  <2>2. CASE m \notin L
    <3>1. L \in SUBSET (1 .. (m - 1))
      BY <2>2
    <3> QED
      BY <1>2, <3>1
  <2> QED
    BY <2>1, <2>2
<1>3. n \in S
  <2> HIDE DEF S
  <2>1. \A k \in 0 .. n : k \in S
    BY <1>1, <1>2, Induction
  <2> QED
    BY <2>1
<1> QED
  BY <1>3

-----------------------------------------------------------------------------
(* What the operators do, step by step *)

\* The states of the tables while the nodes are adopted one after the other.
LegacySteps(f, d, c, nodes, m) ==
  /\ f[0] = d
  /\ \A k \in 1 .. m : f[k] = Migrate(f[k - 1], Older(f[k - 1], c, nodes[k], k), Ids(c, nodes)[k])

RowSteps(f, d, c, nodes, m) ==
  /\ f[0] = d
  /\ \A k \in 1 .. m : f[k] = Migrate(f[k - 1], RowsOf(f[k - 1], c, nodes[k]), Ids(c, nodes)[k])

AllSteps(f, d, order, m) ==
  /\ f[0] = d
  /\ \A k \in 1 .. m : f[k] = Sync(f[k - 1], files[order[k]].cluster, files[order[k]].nodes)

LEMMA LegacyUnfolds ==
  ASSUME NEW d, NEW c, NEW nodes, Len(nodes) \in Nat
  PROVE  \E f : LegacySteps(f, d, c, nodes, Len(nodes)) /\ AdoptLegacy(d, c, nodes) = f[Len(nodes)]
<1> DEFINE n == Len(nodes)
           Next1(x, k) == Migrate(x, Older(x, c, nodes[k], k), Ids(c, nodes)[k])
           Is(f, m) == f = [k \in 0 .. m |-> IF k = 0 THEN d ELSE Next1(f[k - 1], k)]
           S == {m \in Nat : \E f : Is(f, m)}
<1> HIDE DEF Next1
<1>1. 0 \in S
  <2>1. Is([k \in 0 .. 0 |-> d], 0)
    OBVIOUS
  <2> QED
    BY <2>1
<1>2. ASSUME NEW m \in 1 .. n, m - 1 \in S PROVE m \in S
  <2>1. PICK f : Is(f, m - 1)
    BY <1>2
  <2>2. PICK g : g = [k \in 0 .. m |-> IF k = m THEN Next1(f[m - 1], m) ELSE f[k]]
    OBVIOUS
  <2>3. \A k \in 0 .. m : g[k] = IF k = 0 THEN d ELSE Next1(g[k - 1], k)
    <3> TAKE k \in 0 .. m
    <3>1. CASE k = m
      <4>1. g[k - 1] = f[m - 1] /\ g[k] = Next1(f[m - 1], m)
        BY <2>2, <3>1
      <4> QED
        BY <3>1, <4>1
    <3>2. CASE k = 0
      BY <2>1, <2>2, <3>2
    <3>3. CASE k # m /\ k # 0
      <4>1. k - 1 \in 0 .. m /\ k - 1 # m /\ k \in 0 .. (m - 1)
        BY <3>3
      <4>2. g[k] = f[k] /\ g[k - 1] = f[k - 1]
        BY <2>2, <3>3, <4>1
      <4>3. f[k] = Next1(f[k - 1], k)
        BY <2>1, <3>3, <4>1
      <4> QED
        BY <3>3, <4>2, <4>3
    <3> QED
      BY <3>1, <3>2, <3>3
  <2>4. g = [k \in 0 .. m |-> g[k]]
    BY <2>2
  <2>5. Is(g, m)
    BY <2>3, <2>4
  <2> QED
    BY <2>5
<1>3. PICK f : Is(f, n)
  <2> HIDE DEF S
  <2>1. \A k \in 0 .. n : k \in S
    BY <1>1, <1>2, Induction
  <2>2. n \in S
    BY <2>1
  <2> QED
    BY <2>2 DEF S
<1>4. PICK g : g = CHOOSE f1 : Is(f1, n)
  OBVIOUS
<1>5. Is(g, n)
  <2> HIDE DEF Is
  <2> QED
    BY <1>3, <1>4, Zenon
<1>6. AdoptLegacy(d, c, nodes) = g[n]
  BY <1>4 DEF AdoptLegacy, Next1
<1>7. LegacySteps(g, d, c, nodes, n)
  BY <1>5 DEF LegacySteps, Next1
<1> QED
  BY <1>6, <1>7

LEMMA RowsUnfold ==
  ASSUME NEW d, NEW c, NEW nodes, Len(nodes) \in Nat
  PROVE  \E f : RowSteps(f, d, c, nodes, Len(nodes)) /\ AdoptRows(d, c, nodes) = f[Len(nodes)]
<1> DEFINE n == Len(nodes)
           Next1(x, k) == Migrate(x, RowsOf(x, c, nodes[k]), Ids(c, nodes)[k])
           Is(f, m) == f = [k \in 0 .. m |-> IF k = 0 THEN d ELSE Next1(f[k - 1], k)]
           S == {m \in Nat : \E f : Is(f, m)}
<1> HIDE DEF Next1
<1>1. 0 \in S
  <2>1. Is([k \in 0 .. 0 |-> d], 0)
    OBVIOUS
  <2> QED
    BY <2>1
<1>2. ASSUME NEW m \in 1 .. n, m - 1 \in S PROVE m \in S
  <2>1. PICK f : Is(f, m - 1)
    BY <1>2
  <2>2. PICK g : g = [k \in 0 .. m |-> IF k = m THEN Next1(f[m - 1], m) ELSE f[k]]
    OBVIOUS
  <2>3. \A k \in 0 .. m : g[k] = IF k = 0 THEN d ELSE Next1(g[k - 1], k)
    <3> TAKE k \in 0 .. m
    <3>1. CASE k = m
      <4>1. g[k - 1] = f[m - 1] /\ g[k] = Next1(f[m - 1], m)
        BY <2>2, <3>1
      <4> QED
        BY <3>1, <4>1
    <3>2. CASE k = 0
      BY <2>1, <2>2, <3>2
    <3>3. CASE k # m /\ k # 0
      <4>1. k - 1 \in 0 .. m /\ k - 1 # m /\ k \in 0 .. (m - 1)
        BY <3>3
      <4>2. g[k] = f[k] /\ g[k - 1] = f[k - 1]
        BY <2>2, <3>3, <4>1
      <4>3. f[k] = Next1(f[k - 1], k)
        BY <2>1, <3>3, <4>1
      <4> QED
        BY <3>3, <4>2, <4>3
    <3> QED
      BY <3>1, <3>2, <3>3
  <2>4. g = [k \in 0 .. m |-> g[k]]
    BY <2>2
  <2>5. Is(g, m)
    BY <2>3, <2>4
  <2> QED
    BY <2>5
<1>3. PICK f : Is(f, n)
  <2> HIDE DEF S
  <2>1. \A k \in 0 .. n : k \in S
    BY <1>1, <1>2, Induction
  <2>2. n \in S
    BY <2>1
  <2> QED
    BY <2>2 DEF S
<1>4. PICK g : g = CHOOSE f1 : Is(f1, n)
  OBVIOUS
<1>5. Is(g, n)
  <2> HIDE DEF Is
  <2> QED
    BY <1>3, <1>4, Zenon
<1>6. AdoptRows(d, c, nodes) = g[n]
  BY <1>4 DEF AdoptRows, Next1
<1>7. RowSteps(g, d, c, nodes, n)
  BY <1>5 DEF RowSteps, Next1
<1> QED
  BY <1>6, <1>7

LEMMA AllUnfolds ==
  ASSUME NEW d, NEW order, order = SetToSeq(DOMAIN files), Len(order) \in Nat
  PROVE  \E f : AllSteps(f, d, order, Len(order)) /\ SyncAll(d) = f[Len(order)]
<1> DEFINE n == Len(order)
           Next1(x, k) == Sync(x, files[order[k]].cluster, files[order[k]].nodes)
           Is(f, m) == f = [k \in 0 .. m |-> IF k = 0 THEN d ELSE Next1(f[k - 1], k)]
           S == {m \in Nat : \E f : Is(f, m)}
<1> HIDE DEF Next1
<1>1. 0 \in S
  <2>1. Is([k \in 0 .. 0 |-> d], 0)
    OBVIOUS
  <2> QED
    BY <2>1
<1>2. ASSUME NEW m \in 1 .. n, m - 1 \in S PROVE m \in S
  <2>1. PICK f : Is(f, m - 1)
    BY <1>2
  <2>2. PICK g : g = [k \in 0 .. m |-> IF k = m THEN Next1(f[m - 1], m) ELSE f[k]]
    OBVIOUS
  <2>3. \A k \in 0 .. m : g[k] = IF k = 0 THEN d ELSE Next1(g[k - 1], k)
    <3> TAKE k \in 0 .. m
    <3>1. CASE k = m
      <4>1. g[k - 1] = f[m - 1] /\ g[k] = Next1(f[m - 1], m)
        BY <2>2, <3>1
      <4> QED
        BY <3>1, <4>1
    <3>2. CASE k = 0
      BY <2>1, <2>2, <3>2
    <3>3. CASE k # m /\ k # 0
      <4>1. k - 1 \in 0 .. m /\ k - 1 # m /\ k \in 0 .. (m - 1)
        BY <3>3
      <4>2. g[k] = f[k] /\ g[k - 1] = f[k - 1]
        BY <2>2, <3>3, <4>1
      <4>3. f[k] = Next1(f[k - 1], k)
        BY <2>1, <3>3, <4>1
      <4> QED
        BY <3>3, <4>2, <4>3
    <3> QED
      BY <3>1, <3>2, <3>3
  <2>4. g = [k \in 0 .. m |-> g[k]]
    BY <2>2
  <2>5. Is(g, m)
    BY <2>3, <2>4
  <2> QED
    BY <2>5
<1>3. PICK f : Is(f, n)
  <2> HIDE DEF S
  <2>1. \A k \in 0 .. n : k \in S
    BY <1>1, <1>2, Induction
  <2>2. n \in S
    BY <2>1
  <2> QED
    BY <2>2 DEF S
<1>4. PICK g : g = CHOOSE f1 : Is(f1, n)
  OBVIOUS
<1>5. Is(g, n)
  <2> HIDE DEF Is
  <2> QED
    BY <1>3, <1>4, Zenon
<1>6. SyncAll(d) = g[n]
  BY <1>4 DEF SyncAll, Next1
<1>7. AllSteps(g, d, order, n)
  BY <1>5 DEF AllSteps, Next1
<1> QED
  BY <1>6, <1>7

\* The order in which the files are read names every one of them once.
LEMMA OrderIs ==
  ASSUME NEW S, IsFiniteSet(S), NEW order, order = SetToSeq(S)
  PROVE  /\ Len(order) \in Nat
         /\ \A k \in 1 .. Len(order) : order[k] \in S
         /\ \A x \in S : \E k \in 1 .. Len(order) : order[k] = x
<1> DEFINE n == Cardinality(S)
<1>1. n \in Nat
  BY FS_CardinalityType
<1>2. PICK g : g \in Bijection(1 .. n, S)
  <2>1. Bijection(1 .. n, S) # {}
    BY Zenon, FS_CardinalityType DEF ExistsBijection
  <2> QED
    BY <2>1
<1>3. order \in [1 .. n -> S] /\ IsInjective(order)
  <2>1. g \in [1 .. n -> S] /\ IsInjective(g)
    BY <1>2 DEF Bijection, Injection, Surjection, IsInjective
  <2> QED
    BY <2>1, Zenon DEF SetToSeq
<1>4. Len(order) = n
  BY <1>1, <1>3
<1>5. order \in Surjection(1 .. n, S)
  <2>1. order \in Injection(1 .. n, S)
    BY <1>3 DEF Injection, IsInjective
  <2>2. Cardinality(1 .. n) = n
    BY <1>1, FS_Interval
  <2> QED
    BY ONLY <2>1, <2>2, FS_Injection, IsFiniteSet(S)
<1> QED
  BY <1>1, <1>3, <1>4, <1>5 DEF Surjection

LEMMA ListIs ==
  ASSUME NEW list \in Lists
  PROVE  /\ Len(list) \in Nat \ {0} /\ DOMAIN list = 1 .. Len(list)
         /\ \A k \in 1 .. Len(list) : list[k] \in Nodes
  BY ListsDeclareNodes

\* Where names stay different every node gets its plain id.
LEMMA IdsAre ==
  ASSUME NamesDiffer, NEW c, NEW nodes \in Lists
  PROVE  /\ DOMAIN Ids(c, nodes) = 1 .. Len(nodes)
         /\ \A k \in 1 .. Len(nodes) : Ids(c, nodes)[k] = Stable(c, nodes[k])
<1> DEFINE n == Len(nodes)
           Next1(f, k) == IF \E j \in 1 .. (k - 1) : f[j] = Stable(c, nodes[k])
                            THEN <<"stable", c, <<Safe[nodes[k]], k>> >> ELSE Stable(c, nodes[k])
           Is(f) == f = [k \in 1 .. n |-> Next1(f, k)]
<1>1. n \in Nat /\ DOMAIN nodes = 1 .. n /\ \A k \in 1 .. n : nodes[k] \in Nodes
  BY ListIs
<1>2. \A j, k \in 1 .. n : Stable(c, nodes[j]) = Stable(c, nodes[k]) => j = k
  <2> TAKE j, k \in 1 .. n
  <2>1. Stable(c, nodes[j]) = Stable(c, nodes[k]) => Safe[nodes[j]] = Safe[nodes[k]]
    BY DEF Stable
  <2> QED
    BY <1>1, <2>1 DEF NamesDiffer
<1>3. Is([k \in 1 .. n |-> Stable(c, nodes[k])])
  <2>1. PICK g : g = [k \in 1 .. n |-> Stable(c, nodes[k])]
    OBVIOUS
  <2>2. \A k \in 1 .. n : Next1(g, k) = Stable(c, nodes[k])
    <3> TAKE k \in 1 .. n
    <3>1. \A j \in 1 .. (k - 1) : j \in 1 .. n /\ j # k
      BY <1>1
    <3>2. \A j \in 1 .. (k - 1) : g[j] # Stable(c, nodes[k])
      BY <1>2, <2>1, <3>1
    <3> QED
      BY <3>2
  <2> HIDE DEF Next1
  <2> QED
    BY <2>1, <2>2
<1>4. PICK f : f = CHOOSE g : Is(g)
  OBVIOUS
<1>5. Is(f)
  <2> HIDE DEF Is
  <2> QED
    BY <1>3, <1>4, Zenon
<1>6. Ids(c, nodes) = f
  BY <1>1, <1>4 DEF Ids, Stable
<1> DEFINE S == {m \in Nat : \A k \in 1 .. m : k <= n => f[k] = Stable(c, nodes[k])}
<1>7. 0 \in S
  <2>1. 1 .. 0 = {}
    OBVIOUS
  <2> QED
    BY <2>1
<1>8. ASSUME NEW m \in 1 .. n, m - 1 \in S PROVE m \in S
  <2>1. \A j \in 1 .. (m - 1) : j \in 1 .. n /\ j # m /\ f[j] = Stable(c, nodes[j])
    BY <1>1, <1>8
  <2>2. \A j \in 1 .. (m - 1) : f[j] # Stable(c, nodes[m])
    BY <1>2, <2>1
  <2>3. f[m] = Stable(c, nodes[m])
    BY <1>5, <2>2
  <2> QED
    BY <1>1, <2>1, <2>3
<1>9. n \in S
  <2> HIDE DEF S
  <2>1. \A k \in 0 .. n : k \in S
    BY <1>1, <1>7, <1>8, Induction
  <2> QED
    BY <1>1, <2>1
<1> QED
  BY <1>1, <1>5, <1>6, <1>9

-----------------------------------------------------------------------------
(* The rows and measurements of every state are typed *)

DbOK(d) ==
  /\ \A i \in DOMAIN d.rows : d.rows[i] \in [cluster : Clusters, node : Nodes \cup {NoNode}]
  /\ \A e \in d.hist : e.host \in Hosts

LEMMA MigrateOK ==
  ASSUME NEW d, DbOK(d), NEW olds, NEW new
  PROVE  DbOK(Migrate(d, olds, new))
  BY DEF DbOK, Migrate

LEMMA DeleteOK ==
  ASSUME NEW d, DbOK(d), NEW ids
  PROVE  DbOK(Delete(d, ids))
  BY DEF DbOK, Delete

\* What an upsert leaves: every id of a listed node has the row of such a node.
Upserted(s, d, c, nodes, ks) ==
  /\ \A i : i \in DOMAIN s.rows <=> i \in DOMAIN d.rows \/ \E k \in ks : i = Ids(c, nodes)[k]
  /\ \A k \in ks : \E j \in ks : Ids(c, nodes)[k] = Ids(c, nodes)[j]
                                 /\ s.rows[Ids(c, nodes)[k]] = Host(c, nodes[j])
  /\ \A i \in DOMAIN d.rows : (\A k \in ks : i # Ids(c, nodes)[k]) => s.rows[i] = d.rows[i]
  /\ s.hist = d.hist

LEMMA UpsertIs ==
  ASSUME NEW d, NEW c, NEW nodes \in Lists, NEW ks \in SUBSET DOMAIN nodes
  PROVE  Upserted(Upsert(d, c, nodes, ks), d, c, nodes, ks)
<1> DEFINE row(i) == Host(c, nodes[CHOOSE k \in ks : Ids(c, nodes)[k] = i
                                          /\ \A j \in ks : Ids(c, nodes)[j] = i => j <= k])
           new == {Ids(c, nodes)[k] : k \in ks}
<1>1. PICK s : s = Upsert(d, c, nodes, ks)
  OBVIOUS
<1>2. /\ s.rows = [i \in DOMAIN d.rows \cup new |-> IF i \in new THEN row(i) ELSE d.rows[i]]
      /\ s.hist = d.hist
  BY <1>1 DEF Upsert, Host
<1>3. ASSUME NEW i \in new
      PROVE  \E k \in ks : i = Ids(c, nodes)[k] /\ row(i) = Host(c, nodes[k])
  <2>1. PICK n \in Nat : DOMAIN nodes = 1 .. n
    BY ListIs
  <2>2. PICK K \in SUBSET (1 .. n) : K = {k \in ks : Ids(c, nodes)[k] = i}
    BY <2>1
  <2>3. K # {}
    BY <2>2
  <2>4. PICK k \in K : \A j \in K : j <= k
    BY <2>3, Greatest
  <2>5. PICK m : m = CHOOSE q \in ks : Ids(c, nodes)[q] = i
                                       /\ \A j \in ks : Ids(c, nodes)[j] = i => j <= q
    OBVIOUS
  <2>6. m \in ks /\ Ids(c, nodes)[m] = i
    BY <2>2, <2>4, <2>5
  <2>7. row(i) = Host(c, nodes[m])
    BY <2>5
  <2> QED
    BY <2>6, <2>7
<1> HIDE DEF row
<1>4. Upserted(s, d, c, nodes, ks)
  BY <1>2, <1>3 DEF Upserted
<1> QED
  BY <1>1, <1>4

LEMMA UpsertOK ==
  ASSUME NEW d, DbOK(d), NEW c \in Clusters, NEW nodes \in Lists, NEW ks \in SUBSET DOMAIN nodes
  PROVE  DbOK(Upsert(d, c, nodes, ks))
<1>1. PICK s : s = Upsert(d, c, nodes, ks)
  OBVIOUS
<1>2. \A k \in ks : nodes[k] \in Nodes
  BY ListIs
<1>3. Upserted(s, d, c, nodes, ks)
  BY <1>1, UpsertIs
<1>4. ASSUME NEW i \in DOMAIN s.rows
      PROVE  s.rows[i] \in [cluster : Clusters, node : Nodes \cup {NoNode}]
  <2>1. CASE \E k \in ks : i = Ids(c, nodes)[k]
    <3>1. \E k \in ks : s.rows[i] = Host(c, nodes[k])
      BY <1>3, <2>1 DEF Upserted
    <3> QED
      BY <1>2, <3>1 DEF Host
  <2>2. CASE \A k \in ks : i # Ids(c, nodes)[k]
    <3>1. i \in DOMAIN d.rows /\ s.rows[i] = d.rows[i]
      BY <1>3, <1>4, <2>2 DEF Upserted
    <3> QED
      BY <3>1 DEF DbOK
  <2> QED
    BY <2>1, <2>2
<1>5. DbOK(s)
  BY <1>3, <1>4 DEF DbOK, Upserted
<1> QED
  BY <1>1, <1>5

LEMMA RecordOK ==
  ASSUME NEW d, DbOK(d), NEW c \in Clusters, NEW nodes \in Lists, NEW ks \in SUBSET DOMAIN nodes
  PROVE  DbOK(Record(d, c, nodes, ks))
  BY ListIs DEF DbOK, Record, Hosts

LEMMA AdoptOK ==
  ASSUME NEW d, DbOK(d), NEW c, NEW nodes \in Lists
  PROVE  DbOK(AdoptLegacy(d, c, nodes)) /\ DbOK(AdoptRows(d, c, nodes))
<1> DEFINE n == Len(nodes)
<1>1. n \in Nat
  BY ListIs
<1>2. ASSUME NEW f, f[0] = d, \A k \in 1 .. n : DbOK(f[k - 1]) => DbOK(f[k]) PROVE DbOK(f[n])
  <2> DEFINE S == {k \in Nat : DbOK(f[k])}
  <2>1. 0 \in S
    BY <1>2
  <2>2. \A k \in 1 .. n : k - 1 \in S => k \in S
    BY <1>2
  <2> HIDE DEF S
  <2>3. \A k \in 0 .. n : k \in S
    BY <1>1, <2>1, <2>2, Induction
  <2>4. n \in S
    BY <1>1, <2>3
  <2> QED
    BY <2>4 DEF S
<1>3. DbOK(AdoptLegacy(d, c, nodes))
  <2>1. PICK f : LegacySteps(f, d, c, nodes, n) /\ AdoptLegacy(d, c, nodes) = f[n]
    BY <1>1, LegacyUnfolds
  <2>2. f[0] = d /\ \A k \in 1 .. n : DbOK(f[k - 1]) => DbOK(f[k])
    BY <2>1, MigrateOK DEF LegacySteps
  <2> QED
    BY <1>2, <2>1, <2>2
<1>4. DbOK(AdoptRows(d, c, nodes))
  <2>1. PICK f : RowSteps(f, d, c, nodes, n) /\ AdoptRows(d, c, nodes) = f[n]
    BY <1>1, RowsUnfold
  <2>2. f[0] = d /\ \A k \in 1 .. n : DbOK(f[k - 1]) => DbOK(f[k])
    BY <2>1, MigrateOK DEF RowSteps
  <2> QED
    BY <1>2, <2>1, <2>2
<1> QED
  BY <1>3, <1>4

LEMMA SyncOK ==
  ASSUME NEW d, DbOK(d), NEW c \in Clusters, NEW nodes \in Lists
  PROVE  DbOK(Sync(d, c, nodes))
<1>1. PICK b : b = AdoptLegacy(d, c, nodes) /\ DbOK(b)
  BY AdoptOK
<1>2. PICK a : a = AdoptRows(b, c, nodes) /\ DbOK(a)
  BY <1>1, AdoptOK
<1>3. PICK x : x = Delete(a, Stale(a, c, nodes)) /\ DbOK(x)
  BY <1>2, DeleteOK
<1>4. DbOK(Upsert(x, c, nodes, DOMAIN nodes))
  BY <1>3, UpsertOK
<1> QED
  BY <1>1, <1>2, <1>3, <1>4 DEF Sync

FilesOK ==
  /\ DOMAIN files \subseteq Range(Slug)
  /\ \A f \in DOMAIN files : files[f].cluster \in Clusters /\ files[f].nodes \in Lists

LEMMA FilesAreFinite ==
  ASSUME FilesOK
  PROVE  IsFiniteSet(DOMAIN files)
<1>1. PICK g : g = [c \in Clusters |-> Slug[c]]
  OBVIOUS
<1>2. g \in Surjection(Clusters, Range(Slug))
  BY <1>1, ClustersHaveSlugs DEF Surjection, Range
<1>3. IsFiniteSet(Range(Slug))
  BY <1>2, FS_Surjection, ClustersAreFinite
<1> QED
  BY <1>3, FS_Subset DEF FilesOK

\* The synchronisation of all clusters goes through the files one by one.
AllSynced(f, n, order, d) ==
  /\ f[0] = d
  /\ \A k \in 1 .. n : order[k] \in DOMAIN files
                       /\ f[k] = Sync(f[k - 1], files[order[k]].cluster, files[order[k]].nodes)
  /\ \A x \in DOMAIN files : \E k \in 1 .. n : order[k] = x

LEMMA SyncAllIs ==
  ASSUME NEW d, FilesOK
  PROVE  \E n, f, order : n \in Nat /\ AllSynced(f, n, order, d) /\ SyncAll(d) = f[n]
<1>1. PICK order : order = SetToSeq(DOMAIN files)
  OBVIOUS
<1>2. /\ Len(order) \in Nat
      /\ \A k \in 1 .. Len(order) : order[k] \in DOMAIN files
      /\ \A x \in DOMAIN files : \E k \in 1 .. Len(order) : order[k] = x
  <2>1. PICK S : S = DOMAIN files
    OBVIOUS
  <2> QED
    BY <1>1, <2>1, OrderIs, FilesAreFinite
<1>3. PICK f : AllSteps(f, d, order, Len(order)) /\ SyncAll(d) = f[Len(order)]
  BY <1>1, <1>2, AllUnfolds
<1>4. AllSynced(f, Len(order), order, d)
  BY <1>2, <1>3 DEF AllSteps, AllSynced
<1> QED
  BY <1>2, <1>3, <1>4

LEMMA SyncAllOK ==
  ASSUME NEW d, DbOK(d), FilesOK
  PROVE  DbOK(SyncAll(d))
<1>1. PICK n, f, order : n \in Nat /\ AllSynced(f, n, order, d) /\ SyncAll(d) = f[n]
  BY SyncAllIs
<1> DEFINE S == {k \in Nat : DbOK(f[k])}
<1>2. 0 \in S
  BY <1>1 DEF AllSynced
<1>3. ASSUME NEW k \in 1 .. n, k - 1 \in S PROVE k \in S
  <2>1. PICK c \in Clusters, nodes \in Lists : f[k] = Sync(f[k - 1], c, nodes)
    BY <1>1 DEF AllSynced, FilesOK
  <2> QED
    BY <1>3, <2>1, SyncOK
<1> HIDE DEF S
<1>4. n \in S
  <2>1. \A k \in 0 .. n : k \in S
    BY <1>1, <1>2, <1>3, Induction
  <2> QED
    BY <1>1, <2>1
<1> QED
  BY <1>1, <1>4 DEF S

-----------------------------------------------------------------------------
(* Type correctness *)

LEMMA FilesOfTypeInv == ASSUME TypeInv PROVE FilesOK /\ DbOK(db)
  BY DEF TypeInv, TypeOK, FilesOK, DbOK

LEMMA OpsOfTypeInv ==
  ASSUME TypeInv, NEW o \in ops
  PROVE  /\ o = [kind |-> o.kind, cluster |-> o.cluster, nodes |-> o.nodes, stage |-> o.stage]
         /\ o.kind \in Kinds /\ o.cluster \in Clusters /\ o.nodes \in Lists \cup {<< >>} /\ o.stage \in Stages
  BY DEF TypeInv, OpRecord

\* Where an index into the list of an operation exists, the list is declared.
LEMMA ListOfOp ==
  ASSUME TypeInv, NEW o \in ops
  PROVE  o.nodes \in Lists \/ DOMAIN o.nodes = {}
<1>1. o.nodes \in Lists \/ o.nodes = << >>
  BY OpsOfTypeInv
<1> QED
  BY <1>1

LEMMA UpdateOK ==
  ASSUME NEW d, DbOK(d), NEW c \in Clusters, NEW nodes, nodes \in Lists \/ DOMAIN nodes = {},
         NEW ks \in SUBSET DOMAIN nodes
  PROVE  DbOK(Record(d, c, nodes, ks)) /\ DbOK(Record(Upsert(d, c, nodes, ks), c, nodes, ks))
<1>1. CASE nodes \in Lists
  BY <1>1, RecordOK, UpsertOK
<1>2. CASE DOMAIN nodes = {}
  <2>1. ks = {}
    BY <1>2
  <2>2. ASSUME NEW x, DbOK(x) PROVE DbOK(Record(x, c, nodes, ks))
    BY <2>1, <2>2 DEF DbOK, Record
  <2>3. DbOK(Upsert(d, c, nodes, ks))
    BY <2>1 DEF DbOK, Upsert
  <2> QED
    BY <2>2, <2>3
<1> QED
  BY <1>1, <1>2

\* What an earlier version left: each host at most under the one older id that
\* `form' says.
LeftBy(d, form) ==
  /\ \A e \in d.hist : \E h \in Hosts : /\ h.node \in Declared(h.cluster)
                                        /\ form[h] \in {"index", "named", "moved"}
                                        /\ e = [id |-> OldId(h, form[h]), host |-> h]
  /\ \A i \in DOMAIN d.rows : \E h \in Hosts : /\ h.node \in Declared(h.cluster)
                                               /\ form[h] \in {"index", "named", "moved"}
                                               /\ i = OldId(h, form[h])
                                               /\ d.rows[i] = OldRow(h, form[h])

LEMMA SeededIs == ASSUME NEW d, Seeded(d) PROVE \E form : LeftBy(d, form)
<1>1. PICK form \in [Hosts -> {"none", "index", "named", "moved"}] :
        LET kept == {h \in Hosts : h.node \in Declared(h.cluster) /\ form[h] # "none"}
            owner(i) == CHOOSE h \in kept : OldId(h, form[h]) = i
        IN d = [rows |-> [i \in {OldId(h, form[h]) : h \in kept} |-> OldRow(owner(i), form[owner(i)])],
                hist |-> {[id |-> OldId(h, form[h]), host |-> h] : h \in kept}]
  BY DEF Seeded
<1> DEFINE kept == {h \in Hosts : h.node \in Declared(h.cluster) /\ form[h] # "none"}
           owner(i) == CHOOSE h \in kept : OldId(h, form[h]) = i
<1>2. \A h \in kept : h \in Hosts /\ h.node \in Declared(h.cluster) /\ form[h] \in {"index", "named", "moved"}
  OBVIOUS
<1>3. /\ d.rows = [i \in {OldId(h, form[h]) : h \in kept} |-> OldRow(owner(i), form[owner(i)])]
      /\ d.hist = {[id |-> OldId(h, form[h]), host |-> h] : h \in kept}
  BY <1>1
<1> HIDE DEF kept
<1>4. ASSUME NEW i \in DOMAIN d.rows
      PROVE  \E h \in kept : i = OldId(h, form[h]) /\ d.rows[i] = OldRow(h, form[h])
  <2>1. PICK h : h = owner(i)
    OBVIOUS
  <2>2. \E g \in kept : OldId(g, form[g]) = i
    BY <1>3
  <2>3. h \in kept /\ OldId(h, form[h]) = i
    BY <2>1, <2>2
  <2>4. d.rows[i] = OldRow(h, form[h])
    BY <1>3, <2>1
  <2> QED
    BY <2>3, <2>4
<1>5. \A e \in d.hist : \E h \in kept : e = [id |-> OldId(h, form[h]), host |-> h]
  BY <1>3
<1> QED
  BY <1>2, <1>4, <1>5, Zenon DEF LeftBy

LEMMA InitTyped == ASSUME Init PROVE TypeInv
<1>1. PICK cs \in SUBSET Clusters : \E list \in [cs -> Lists] :
        files = [f \in {Slug[c] : c \in cs} |->
                   LET c == CHOOSE c \in cs : Slug[c] = f IN [cluster |-> c, nodes |-> list[c]]]
  BY DEF Init
<1>2. PICK list \in [cs -> Lists] :
        files = [f \in {Slug[c] : c \in cs} |->
                   LET c == CHOOSE c \in cs : Slug[c] = f IN [cluster |-> c, nodes |-> list[c]]]
  BY <1>1
<1>3. ASSUME NEW f \in DOMAIN files
      PROVE  files[f] \in [cluster : Clusters, nodes : Lists] /\ f = Slug[files[f].cluster]
  <2>1. PICK c : c = CHOOSE x \in cs : Slug[x] = f
    OBVIOUS
  <2>2. \E x \in cs : Slug[x] = f
    BY <1>2
  <2>3. c \in cs /\ Slug[c] = f
    BY <2>1, <2>2
  <2>4. files[f] = [cluster |-> c, nodes |-> list[c]]
    BY <1>2, <2>1
  <2> QED
    BY <2>3, <2>4
<1>4. DOMAIN files \subseteq Range(Slug)
  BY <1>2, ClustersHaveSlugs DEF Range
<1>5. DbOK(db)
  <2>1. PICK form : LeftBy(db, form)
    BY SeededIs DEF Init
  <2>2. \A h \in Hosts : \A w : OldRow(h, w) \in [cluster : Clusters, node : Nodes \cup {NoNode}]
    BY DEF OldRow, Hosts
  <2> QED
    BY <2>1, <2>2 DEF LeftBy, DbOK
<1> QED
  BY <1>3, <1>4, <1>5, StartsAreCounted DEF Init, TypeInv, TypeOK, DbOK

\* The parts of the type invariant.
FilesTyped ==
  /\ DOMAIN files \subseteq Range(Slug)
  /\ \A f \in DOMAIN files : /\ files[f] \in [cluster : Clusters, nodes : Lists]
                             /\ f = Slug[files[f].cluster]
OpsTyped == \A o \in ops : o \in OpRecord /\ (o.kind # "remove" => o.nodes \in Lists)
CountsTyped == drifted \subseteq Clusters /\ starts \in 0 .. MaxStarts
UploadsTyped == \A u \in uploads : u.host \in Hosts
RunningTyped == RUNNING \subseteq Clusters

LEMMA TypeParts ==
  /\ TypeInv <=> FilesTyped /\ DbOK(db) /\ OpsTyped /\ CountsTyped /\ UploadsTyped /\ RunningTyped
  /\ TypeInv' <=> FilesTyped' /\ DbOK(db') /\ OpsTyped' /\ CountsTyped' /\ UploadsTyped' /\ RunningTyped'
  BY DEF TypeInv, TypeOK, DbOK, OpRecord, FilesTyped, OpsTyped, CountsTyped, UploadsTyped, RunningTyped

LEMMA BeginTyped ==
  ASSUME OpsTyped, CountsTyped, NEW o \in OpRecord, o.kind # "remove" => o.nodes \in Lists, Begin(o),
         drifted' \subseteq drifted
  PROVE  OpsTyped' /\ CountsTyped'
<1>1. OpsTyped'
  BY DEF Begin, OpsTyped
<1>2. starts' \in 0 .. MaxStarts
  BY StartsAreCounted DEF Begin, CountsTyped
<1> QED
  BY <1>1, <1>2 DEF CountsTyped

\* Only clusters drift.
LEMMA DriftTyped ==
  ASSUME CountsTyped, NEW c \in Clusters, UNCHANGED starts,
         UNCHANGED drifted \/ Drifts(c) \/ Settles(c)
  PROVE  CountsTyped'
  BY DEF CountsTyped, Drifts, Settles

LEMMA GoTyped ==
  ASSUME OpsTyped, NEW o \in ops, NEW stage \in Stages, Go(o, stage)
  PROVE  OpsTyped'
<1>1. PICK p : p = [o EXCEPT !.stage = stage]
  OBVIOUS
<1>2. p \in OpRecord /\ (p.kind # "remove" => p.nodes \in Lists)
  BY <1>1 DEF OpsTyped, OpRecord
<1> QED
  BY <1>1, <1>2 DEF Go, OpsTyped

\* Every operation that synchronises or records has a declared list.
LEMMA OpTyped ==
  ASSUME OpsTyped, NEW o \in ops
  PROVE  /\ o.cluster \in Clusters
         /\ o.kind # "remove" => o.nodes \in Lists
         /\ o.nodes \in Lists \/ DOMAIN o.nodes = {}
<1>1. o.nodes \in Lists \/ o.nodes = << >>
  BY DEF OpsTyped, OpRecord
<1> QED
  BY <1>1 DEF OpsTyped, OpRecord

LEMMA RequestTyped == ASSUME TypeInv, Request PROVE TypeInv'
<1>1. FilesTyped /\ DbOK(db) /\ OpsTyped /\ CountsTyped /\ UploadsTyped /\ RunningTyped
  BY TypeParts
<1>2. ASSUME NEW c \in Clusters, NEW nodes \in Lists, NEW isEdit \in BOOLEAN, PostFile(c, nodes, isEdit)
      PROVE  TypeInv'
  <2>1. PICK o : o = Op("post", c, nodes, "sync")
    OBVIOUS
  <2>2. o \in OpRecord /\ o.nodes \in Lists
    BY <2>1 DEF Op, OpRecord, Kinds, Stages
  <2>3. OpsTyped' /\ CountsTyped'
    BY <1>1, <1>2, <2>1, <2>2, BeginTyped DEF PostFile
  <2>4. FilesTyped'
    BY <1>1, <1>2, ClustersHaveSlugs DEF PostFile, FilesTyped, Range
  <2>5. UNCHANGED <<db, RUNNING, uploads>>
    BY <1>2 DEF PostFile
  <2> QED
    BY <1>1, <2>3, <2>4, <2>5, TypeParts DEF DbOK, UploadsTyped, RunningTyped
<1>3. ASSUME NEW f \in DOMAIN files, NEW nodes \in Lists, PutFile(f, nodes) PROVE TypeInv'
  <2>1. PICK o : o = Op("put", files[f].cluster, nodes, "sync")
    OBVIOUS
  <2>2. o \in OpRecord /\ o.nodes \in Lists
    BY <1>1, <2>1 DEF Op, OpRecord, Kinds, Stages, FilesTyped
  <2>3. OpsTyped' /\ CountsTyped'
    BY <1>1, <1>3, <2>1, <2>2, BeginTyped DEF PutFile
  <2>4. FilesTyped'
    BY <1>1, <1>3 DEF PutFile, FilesTyped
  <2>5. UNCHANGED <<db, RUNNING, uploads>>
    BY <1>3 DEF PutFile
  <2> QED
    BY <1>1, <2>3, <2>4, <2>5, TypeParts DEF DbOK, UploadsTyped, RunningTyped
<1>4. ASSUME NEW c \in Clusters, RemoveRows(c) PROVE TypeInv'
  <2>1. PICK o : o = Op("remove", c, << >>, "file")
    OBVIOUS
  <2>2. o \in OpRecord /\ o.kind = "remove"
    BY <2>1 DEF Op, OpRecord, Kinds, Stages
  <2>3. OpsTyped' /\ CountsTyped'
    BY <1>1, <1>4, <2>1, <2>2, BeginTyped DEF RemoveRows, Settles
  <2>4. DbOK(db')
    <3>1. PICK d, ids : d = db /\ ids = {i \in DOMAIN db.rows : db.rows[i].cluster \in NamesOf(c)}
      OBVIOUS
    <3>2. db' = Delete(d, ids)
      BY <1>4, <3>1 DEF RemoveRows
    <3> QED
      BY <1>1, <3>1, <3>2, DeleteOK
  <2>5. UNCHANGED <<files, RUNNING, uploads>>
    BY <1>4 DEF RemoveRows
  <2> QED
    BY <1>1, <2>3, <2>4, <2>5, TypeParts DEF DbOK, UploadsTyped, RunningTyped, FilesTyped
<1>5. ASSUME NEW i \in DOMAIN db.rows, UploadCheck(i) PROVE TypeInv'
  <2>1. CountsTyped'
    BY <1>1, <1>5, StartsAreCounted DEF UploadCheck, CountsTyped
  <2>2. UploadsTyped'
    BY <1>1, <1>5 DEF UploadCheck, UploadsTyped
  <2> QED
    BY <1>1, <1>5, <2>1, <2>2, TypeParts DEF UploadCheck, DbOK, RunningTyped, FilesTyped, OpsTyped
<1>6. ASSUME NEW f \in DOMAIN files, TickLoad(f) PROVE TypeInv'
  <2>1. PICK o : o = Op("tick", files[f].cluster, files[f].nodes, "loaded")
    OBVIOUS
  <2>2. o \in OpRecord /\ o.nodes \in Lists
    BY <1>1, <2>1 DEF Op, OpRecord, Kinds, Stages, FilesTyped
  <2>3. OpsTyped' /\ CountsTyped'
    BY <1>1, <1>6, <2>1, <2>2, BeginTyped DEF TickLoad
  <2>4. UNCHANGED <<files, db, RUNNING, uploads>>
    BY <1>6 DEF TickLoad
  <2> QED
    BY <1>1, <2>3, <2>4, TypeParts DEF DbOK, UploadsTyped, RunningTyped, FilesTyped
<1> QED
  BY <1>2, <1>3, <1>4, <1>5, <1>6 DEF Request

LEMMA StepTyped == ASSUME TypeInv, Step PROVE TypeInv'
<1>1. FilesTyped /\ DbOK(db) /\ OpsTyped /\ CountsTyped /\ UploadsTyped /\ RunningTyped /\ FilesOK
  BY TypeParts, FilesOfTypeInv
<1>2. ASSUME NEW o \in ops, NEW ks \in SUBSET DOMAIN o.nodes
      PROVE  /\ o.kind # "remove" => DbOK(Sync(db, o.cluster, o.nodes))
             /\ o.kind # "remove" => DbOK(Record(Sync(db, o.cluster, o.nodes), o.cluster, o.nodes, ks))
             /\ DbOK(Record(Upsert(db, o.cluster, o.nodes, ks), o.cluster, o.nodes, ks))
             /\ DbOK(Record(db, o.cluster, o.nodes, ks))
  <2>1. PICK d, c, nodes : d = db /\ c = o.cluster /\ nodes = o.nodes
    OBVIOUS
  <2>2. DbOK(d) /\ c \in Clusters /\ (o.kind # "remove" => nodes \in Lists) /\ (nodes \in Lists \/ DOMAIN nodes = {})
    BY <1>1, <2>1, OpTyped
  <2>3. ks \in SUBSET DOMAIN nodes
    BY <2>1
  <2>4. o.kind # "remove" => DbOK(Sync(d, c, nodes)) /\ DbOK(Record(Sync(d, c, nodes), c, nodes, ks))
    BY <2>2, <2>3, SyncOK, RecordOK
  <2>5. DbOK(Record(Upsert(d, c, nodes, ks), c, nodes, ks)) /\ DbOK(Record(d, c, nodes, ks))
    BY <2>2, <2>3, UpdateOK
  <2> QED
    BY <2>1, <2>4, <2>5
<1>3. ASSUME NEW o \in ops, PostSync(o) \/ PutSync(o) \/ RemoveFile(o) \/ JobStart(o) \/ TickStart(o)
      PROVE  TypeInv'
  <2>0. o.kind # "remove" => DbOK(Sync(db, o.cluster, o.nodes))
    BY <1>2
  <2>1. CASE PostSync(o)
    <3>1. PICK p : p = Op("job", o.cluster, o.nodes, "queued")
      OBVIOUS
    <3>2. p \in OpRecord /\ p.nodes \in Lists
      BY <1>1, <2>1, <3>1, OpTyped DEF PostSync, Op, OpRecord, Kinds, Stages
    <3>3. OpsTyped'
      BY <1>1, <2>1, <3>1, <3>2 DEF PostSync, OpsTyped
    <3>4. DbOK(db') /\ UNCHANGED <<files, RUNNING, uploads>>
      BY <2>0, <2>1 DEF PostSync
    <3>5. CountsTyped'
      BY <1>1, <2>1, OpTyped, DriftTyped DEF PostSync, Writes
    <3> QED
      BY <1>1, <3>3, <3>4, <3>5, TypeParts DEF FilesTyped, UploadsTyped, RunningTyped
  <2>2. CASE PutSync(o)
    <3>1. OpsTyped'
      BY <1>1, <2>2 DEF PutSync, OpsTyped
    <3>2. DbOK(db') /\ UNCHANGED <<files, RUNNING, uploads>>
      BY <2>0, <2>2 DEF PutSync
    <3>3. CountsTyped'
      BY <1>1, <2>2, OpTyped, DriftTyped DEF PutSync, Writes
    <3> QED
      BY <1>1, <3>1, <3>2, <3>3, TypeParts DEF FilesTyped, UploadsTyped, RunningTyped
  <2>3. CASE RemoveFile(o)
    <3>1. OpsTyped' /\ FilesTyped'
      BY <1>1, <2>3 DEF RemoveFile, OpsTyped, FilesTyped
    <3>2. UNCHANGED <<db, RUNNING, uploads, drifted, starts>>
      BY <2>3 DEF RemoveFile
    <3> QED
      BY <1>1, <3>1, <3>2, TypeParts DEF CountsTyped, UploadsTyped, RunningTyped
  <2>4. CASE JobStart(o) \/ TickStart(o)
    <3>1. Go(o, "collecting") /\ RUNNING' = RUNNING \cup {o.cluster}
      BY <2>4 DEF JobStart, TickStart
    <3>2. OpsTyped'
      BY <1>1, <3>1, GoTyped DEF Stages
    <3>3. RunningTyped'
      BY <1>1, <3>1, OpTyped DEF RunningTyped
    <3>4. UNCHANGED <<files, db, uploads, drifted, starts>>
      BY <2>4 DEF JobStart, TickStart
    <3> QED
      BY <1>1, <3>2, <3>3, <3>4, TypeParts DEF FilesTyped, CountsTyped, UploadsTyped
  <2> QED
    BY <1>3, <2>1, <2>2, <2>3, <2>4
<1>4. ASSUME NEW o \in ops, NEW ks \in SUBSET DOMAIN o.nodes, JobCommit(o, ks) \/ TickCommit(o, ks)
      PROVE  TypeInv'
  <2>1. Go(o, "hosts") /\ RUNNING' \subseteq RUNNING /\ UNCHANGED <<files, uploads>>
    BY <1>4 DEF JobCommit, TickCommit
  <2>2. OpsTyped' /\ RunningTyped'
    BY <1>1, <2>1, GoTyped DEF Stages, RunningTyped
  <2>3. DbOK(db')
    BY <1>2, <1>4 DEF JobCommit, TickCommit
  <2>4. CountsTyped'
    BY <1>1, <1>4, OpTyped, DriftTyped DEF JobCommit, TickCommit, Writes
  <2> QED
    BY <1>1, <2>1, <2>2, <2>3, <2>4, TypeParts DEF FilesTyped, UploadsTyped
<1>5. ASSUME NEW o \in ops, NEW k \in DOMAIN o.nodes, HostWrite(o, k) PROVE TypeInv'
  <2>1. DbOK(Record(db, o.cluster, o.nodes, {k}))
    BY <1>2
  <2> QED
    BY <1>1, <1>5, <2>1, TypeParts
      DEF HostWrite, FilesTyped, OpsTyped, CountsTyped, UploadsTyped, RunningTyped
<1>6. ASSUME NEW o \in ops, PassEnd(o) PROVE TypeInv'
  <2>1. OpsTyped' /\ RunningTyped'
    BY <1>1, <1>6 DEF PassEnd, OpsTyped, RunningTyped
  <2> QED
    BY <1>1, <1>6, <2>1, TypeParts DEF PassEnd, DbOK, FilesTyped, CountsTyped, UploadsTyped
<1>7. ASSUME NEW u \in uploads, UploadWrite(u) PROVE TypeInv'
  <2>1. DbOK(db') /\ UploadsTyped'
    BY <1>1, <1>7 DEF UploadWrite, UploadsTyped, DbOK
  <2> QED
    BY <1>1, <1>7, <2>1, TypeParts DEF UploadWrite, FilesTyped, OpsTyped, CountsTyped, RunningTyped
<1>8. ASSUME NEW o \in ops, SyncFails(o) \/ RemoveFails(o) PROVE TypeInv'
  <2>1. OpsTyped' /\ UNCHANGED <<files, db, RUNNING, uploads>>
    BY <1>1, <1>8 DEF SyncFails, RemoveFails, OpsTyped
  <2>2. CountsTyped'
    BY <1>1, <1>8, OpTyped, DriftTyped DEF SyncFails, RemoveFails
  <2> QED
    BY <1>1, <2>1, <2>2, TypeParts DEF DbOK, FilesTyped, UploadsTyped, RunningTyped
<1> QED
  BY <1>3, <1>4, <1>5, <1>6, <1>7, <1>8 DEF Step

LEMMA RestartTyped == ASSUME TypeInv, Restart PROVE TypeInv'
<1>1. FilesTyped /\ DbOK(db) /\ CountsTyped /\ FilesOK
  BY TypeParts, FilesOfTypeInv
<1>2. DbOK(db')
  <2>1. PICK d : d = db
    OBVIOUS
  <2>2. DbOK(SyncAll(d))
    BY <1>1, <2>1, SyncAllOK
  <2> QED
    BY <2>1, <2>2 DEF Restart
<1>3. OpsTyped' /\ UploadsTyped' /\ RunningTyped'
  BY DEF Restart, OpsTyped, UploadsTyped, RunningTyped
<1>4. CountsTyped' /\ FilesTyped'
  BY <1>1, StartsAreCounted DEF Restart, CountsTyped, FilesTyped
<1> QED
  BY <1>2, <1>3, <1>4, TypeParts

LEMMA StutterTyped == ASSUME TypeInv, UNCHANGED vars PROVE TypeInv'
  BY TypeParts DEF vars, FilesTyped, DbOK, OpsTyped, CountsTyped, UploadsTyped, RunningTyped

LEMMA TypePreserved == ASSUME TypeInv, [Next]_vars PROVE TypeInv'
  BY RequestTyped, StepTyped, RestartTyped, StutterTyped DEF Next

\* The tables, files and operations in flight stay typed, and the clusters marked
\* as being collected are clusters, whatever the names of the nodes are.
THEOREM TypeCorrect == Spec => []TypeOK
<1>1. TypeInv => TypeOK
  BY DEF TypeInv
<1> QED
  BY <1>1, InitTyped, TypePreserved, PTL DEF Spec

-----------------------------------------------------------------------------
(* Ids where names stay different *)

LEMMA HostParts ==
  /\ \A h \in Hosts : h.cluster \in Clusters /\ h.node \in Nodes /\ h = Host(h.cluster, h.node)
  /\ \A c \in Clusters, n \in Nodes : /\ Host(c, n) \in Hosts
                                      /\ Host(c, n).cluster = c /\ Host(c, n).node = n
  BY DEF Hosts, Host

LEMMA IdParts ==
  ASSUME NEW h \in Hosts, NEW i \in IdsOf(h)
  PROVE  /\ i[2] = h.cluster
         /\ \/ i[1] = "stable" /\ i[3] = Safe[h.node] /\ i = Stable(h.cluster, h.node)
            \/ i[1] = "index" /\ i[3] = Number[h.node] /\ i = <<"index", h.cluster, Number[h.node]>>
            \/ i[1] = "named" /\ i[3] = h.node /\ i = <<"named", h.cluster, h.node>>
            \/ i[1] = "moved" /\ i[3] = h.node /\ i = <<"moved", h.cluster, h.node>>
<1>1. CASE i = Stable(h.cluster, h.node)
  BY <1>1 DEF Stable
<1>2. CASE i = <<"index", h.cluster, Number[h.node]>>
  BY <1>2
<1>3. CASE i = <<"named", h.cluster, h.node>>
  BY <1>3
<1>4. CASE i = <<"moved", h.cluster, h.node>>
  BY <1>4
<1> QED
  BY <1>1, <1>2, <1>3, <1>4 DEF IdsOf

\* No two hosts share an id.
LEMMA IdsApart ==
  ASSUME NamesDiffer, NEW g \in Hosts, NEW h \in Hosts, NEW i, i \in IdsOf(g), i \in IdsOf(h)
  PROVE  g = h
<1>1. g.cluster = i[2] /\ h.cluster = i[2]
  BY IdParts
<1>2. g.node \in Nodes /\ h.node \in Nodes
  BY HostParts
<1>3. g.node = h.node
  <2>1. /\ \/ i[1] = "stable" /\ i[3] = Safe[g.node]
           \/ i[1] = "index" /\ i[3] = Number[g.node]
           \/ i[1] = "named" /\ i[3] = g.node
           \/ i[1] = "moved" /\ i[3] = g.node
        /\ \/ i[1] = "stable" /\ i[3] = Safe[h.node]
           \/ i[1] = "index" /\ i[3] = Number[h.node]
           \/ i[1] = "named" /\ i[3] = h.node
           \/ i[1] = "moved" /\ i[3] = h.node
    BY IdParts
  <2>2. Safe[g.node] = Safe[h.node] => g.node = h.node
    BY <1>2 DEF NamesDiffer
  <2>3. Number[g.node] = Number[h.node] => g.node = h.node
    BY <1>2 DEF NamesDiffer
  <2> QED
    BY <2>1, <2>2, <2>3
<1> QED
  BY <1>1, <1>3, HostParts

LEMMA StableIs ==
  ASSUME NEW h \in Hosts
  PROVE  Stable(h.cluster, h.node) \in IdsOf(h)
  BY DEF IdsOf

\* The present id of a host, with what was measured on it.
StableEntry(h) == [id |-> Stable(h.cluster, h.node), host |-> h]

LEMMA EntryIs ==
  ASSUME NEW e
  PROVE  e \in Entries <=> e.host \in Hosts /\ e.id \in IdsOf(e.host) /\ e = [id |-> e.id, host |-> e.host]
<1>1. e \in Entries <=> \E h \in Hosts : e \in [id : IdsOf(h), host : {h}]
  BY DEF Entries
<1>2. ASSUME NEW h \in Hosts, e \in [id : IdsOf(h), host : {h}]
      PROVE  e.host \in Hosts /\ e.id \in IdsOf(e.host) /\ e = [id |-> e.id, host |-> e.host]
  BY <1>2
<1>3. ASSUME e.host \in Hosts, e.id \in IdsOf(e.host), e = [id |-> e.id, host |-> e.host]
      PROVE  e \in [id : IdsOf(e.host), host : {e.host}]
  BY <1>3
<1> QED
  BY <1>1, <1>2, <1>3

-----------------------------------------------------------------------------
(* Adopting older ids *)

\* A step that moves what some of the ids of a node's host hold.
Merge(x, y, c, n) ==
  \E olds \in SUBSET IdsOf(Host(c, n)) : y = Migrate(x, olds, Stable(c, n))

Shrinks(x, y) == \A i \in DOMAIN y.rows : i \in DOMAIN x.rows /\ y.rows[i] = x.rows[i]

\* For one host nothing is lost, neither measurements nor rows.
Same(x, y, h) ==
  /\ \A e \in x.hist : e.host = h => e \in y.hist
  /\ \A i \in IdsOf(h) : Known(x, i) <=> Known(y, i)

\* The rows that are gone were under older ids of listed hosts; measurements are
\* where they were or under the present id.
Adopted(x, y, c, nodes) ==
  /\ Shrinks(x, y)
  /\ \A i \in DOMAIN x.rows \ DOMAIN y.rows :
       \E n \in Range(nodes) : i \in IdsOf(Host(c, n)) /\ i # Stable(c, n)
  /\ \A e \in x.hist : e \in y.hist \/ (e.host.cluster = c /\ StableEntry(e.host) \in y.hist)

LEMMA MergeIs ==
  ASSUME NamesDiffer, NEW c \in Clusters, NEW n \in Nodes, NEW x, Own(x), NEW y, Merge(x, y, c, n)
  PROVE  /\ Own(y)
         /\ Shrinks(x, y)
         /\ \A i \in DOMAIN x.rows \ DOMAIN y.rows : i \in IdsOf(Host(c, n)) /\ i # Stable(c, n)
         /\ \A e \in x.hist : e \in y.hist \/ (e.host = Host(c, n) /\ StableEntry(e.host) \in y.hist)
         /\ \A h \in Hosts : h # Host(c, n) => Same(x, y, h)
<1>1. PICK h : h = Host(c, n) /\ h \in Hosts /\ Stable(c, n) = Stable(h.cluster, h.node)
  BY HostParts
<1>2. PICK olds \in SUBSET IdsOf(h) : y = Migrate(x, olds, Stable(c, n))
  BY <1>1 DEF Merge
<1>3. /\ y.rows = [i \in DOMAIN x.rows \ (olds \ {Stable(c, n)}) |-> x.rows[i]]
      /\ y.hist = {[id |-> IF e.id \in olds THEN Stable(c, n) ELSE e.id, host |-> e.host] : e \in x.hist}
  BY <1>2 DEF Migrate
<1>4. ASSUME NEW e \in x.hist
      PROVE  e.host \in Hosts /\ e.id \in IdsOf(e.host) /\ e = [id |-> e.id, host |-> e.host]
  BY EntryIs DEF Own
<1>5. ASSUME NEW e \in x.hist, e.id \in olds PROVE e.host = h /\ StableEntry(h) \in y.hist
  <2>1. e.host = h
    BY <1>1, <1>2, <1>4, <1>5, IdsApart
  <2> QED
    BY <1>1, <1>3, <1>5, <2>1 DEF StableEntry
<1>6. ASSUME NEW e \in x.hist, e.id \notin olds PROVE e \in y.hist
  BY <1>3, <1>4, <1>6
<1>7. Shrinks(x, y) /\ \A i \in DOMAIN x.rows \ DOMAIN y.rows : i \in IdsOf(h) /\ i # Stable(c, n)
  BY <1>2, <1>3 DEF Shrinks
<1>8. y.hist \subseteq Entries
  <2> SUFFICES ASSUME NEW g \in y.hist PROVE g \in Entries
    OBVIOUS
  <2>1. PICK e \in x.hist : g = [id |-> IF e.id \in olds THEN Stable(c, n) ELSE e.id, host |-> e.host]
    BY <1>3
  <2>2. CASE e.id \in olds
    <3>1. g = StableEntry(h)
      BY <1>1, <1>5, <2>1, <2>2 DEF StableEntry
    <3>2. g.host = h /\ g.id = Stable(h.cluster, h.node) /\ g = [id |-> g.id, host |-> g.host]
      BY <3>1 DEF StableEntry
    <3> QED
      BY <1>1, <3>2, EntryIs, StableIs
  <2>3. CASE e.id \notin olds
    <3>1. g = e
      BY <1>4, <2>1, <2>3
    <3> QED
      BY <3>1 DEF Own
  <2> QED
    BY <2>2, <2>3
<1>9. Own(y)
  BY <1>7, <1>8 DEF Own, Shrinks
<1>10. ASSUME NEW g \in Hosts, g # h PROVE Same(x, y, g)
  <2>1. \A e \in x.hist : e.host = g => e \in y.hist
    BY <1>5, <1>6, <1>10
  <2>2. \A i \in IdsOf(g) : i \notin olds
    BY <1>1, <1>2, <1>10, IdsApart
  <2>3. \A i \in IdsOf(g) : i \in DOMAIN x.rows <=> i \in DOMAIN y.rows
    BY <1>3, <2>2
  <2> QED
    BY <2>1, <2>3 DEF Same, Known
<1> QED
  BY <1>1, <1>5, <1>6, <1>7, <1>9, <1>10

\* A pass that adopts the nodes of a list one after the other.
Merges(f, c, nodes) ==
  Own(f[0]) /\ \A k \in 1 .. Len(nodes) : Merge(f[k - 1], f[k], c, nodes[k])

LEMMA SameTwice ==
  ASSUME NEW x, NEW y, NEW z, NEW h, Same(x, y, h), Same(y, z, h)
  PROVE  Same(x, z, h)
  BY DEF Same

LEMMA SameSelf == ASSUME NEW x, NEW h PROVE Same(x, x, h)
  BY DEF Same

LEMMA ShrinksTwice ==
  ASSUME NEW x, NEW y, NEW z, Shrinks(x, y), Shrinks(y, z)
  PROVE  Shrinks(x, z)
  BY DEF Shrinks

LEMMA HostOfList ==
  ASSUME NEW c \in Clusters, NEW nodes \in Lists, NEW k \in 1 .. Len(nodes)
  PROVE  nodes[k] \in Nodes /\ nodes[k] \in Range(nodes) /\ Host(c, nodes[k]) \in Hosts
  BY ListIs, HostParts DEF Range

LEMMA AllAdopted ==
  ASSUME NamesDiffer, NEW c \in Clusters, NEW nodes \in Lists, NEW f, Merges(f, c, nodes)
  PROVE  \A k \in 0 .. Len(nodes) : Own(f[k]) /\ Adopted(f[0], f[k], c, nodes)
<1> DEFINE S == {k \in Nat : Own(f[k]) /\ Adopted(f[0], f[k], c, nodes)}
           n == Len(nodes)
<1>1. n \in Nat
  BY ListIs
<1>2. 0 \in S
  BY DEF Merges, Adopted, Shrinks
<1>3. ASSUME NEW k \in 1 .. n, k - 1 \in S PROVE k \in S
  <2>1. Own(f[k - 1]) /\ Adopted(f[0], f[k - 1], c, nodes)
    BY <1>3
  <2>2. Merge(f[k - 1], f[k], c, nodes[k]) /\ nodes[k] \in Nodes /\ nodes[k] \in Range(nodes)
    BY <1>3, HostOfList DEF Merges
  <2>3. PICK x, y, z, m : x = f[0] /\ y = f[k - 1] /\ z = f[k] /\ m = nodes[k]
    OBVIOUS
  <2>4. /\ Own(z)
        /\ Shrinks(y, z)
        /\ \A i \in DOMAIN y.rows \ DOMAIN z.rows : i \in IdsOf(Host(c, m)) /\ i # Stable(c, m)
        /\ \A e \in y.hist : e \in z.hist \/ (e.host = Host(c, m) /\ StableEntry(e.host) \in z.hist)
    BY <2>1, <2>2, <2>3, MergeIs
  <2>5. Adopted(x, y, c, nodes)
    BY <2>1, <2>3
  <2>6. Shrinks(x, z)
    BY <2>4, <2>5, ShrinksTwice DEF Adopted
  <2>7. ASSUME NEW i \in DOMAIN x.rows \ DOMAIN z.rows
        PROVE  \E l \in Range(nodes) : i \in IdsOf(Host(c, l)) /\ i # Stable(c, l)
    BY <2>2, <2>3, <2>4, <2>5 DEF Adopted
  <2>8. ASSUME NEW e \in x.hist
        PROVE  e \in z.hist \/ (e.host.cluster = c /\ StableEntry(e.host) \in z.hist)
    <3>1. Host(c, m).cluster = c
      BY DEF Host
    <3>2. StableEntry(e.host).host = e.host
      BY DEF StableEntry
    <3>3. CASE e \in y.hist
      BY <2>4, <3>1, <3>3
    <3>4. CASE e.host.cluster = c /\ StableEntry(e.host) \in y.hist
      BY <2>4, <3>2, <3>4
    <3> QED
      BY <2>5, <3>3, <3>4 DEF Adopted
  <2>9. Adopted(x, z, c, nodes)
    BY <2>6, <2>7, <2>8 DEF Adopted
  <2> QED
    BY <2>3, <2>4, <2>9
<1> HIDE DEF S
<1>4. \A k \in 0 .. n : k \in S
  BY <1>1, <1>2, <1>3, Induction
<1> QED
  BY <1>4 DEF S

\* A host is touched only when its own node's turn comes.
LEMMA Untouched ==
  ASSUME NamesDiffer, NEW c \in Clusters, NEW nodes \in Lists, NEW f, Merges(f, c, nodes),
         NEW p \in 1 .. Len(nodes)
  PROVE  /\ Same(f[0], f[p - 1], Host(c, nodes[p]))
         /\ Same(f[p], f[Len(nodes)], Host(c, nodes[p])) /\ Shrinks(f[p], f[Len(nodes)])
<1> DEFINE n == Len(nodes)
           h == Host(c, nodes[p])
           S == {k \in Nat : /\ k < p => Same(f[0], f[k], h)
                             /\ k >= p => Same(f[p], f[k], h) /\ Shrinks(f[p], f[k])}
<1>1. n \in Nat /\ p \in 1 .. n
  BY ListIs
<1>2. 0 \in S
  BY <1>1, SameSelf
<1>3. ASSUME NEW k \in 1 .. n, k # p PROVE Same(f[k - 1], f[k], h) /\ Shrinks(f[k - 1], f[k])
  <2>1. Merge(f[k - 1], f[k], c, nodes[k]) /\ nodes[k] \in Nodes
    BY HostOfList DEF Merges
  <2>2. Own(f[k - 1])
    BY <1>1, AllAdopted
  <2>3. h # Host(c, nodes[k])
    <3>1. nodes[k] # nodes[p]
      BY <1>1, <1>3, ListIs DEF NamesDiffer
    <3> QED
      BY <3>1, HostOfList, HostParts
  <2>4. h \in Hosts
    BY <1>1, HostOfList
  <2>5. PICK x, y, m : x = f[k - 1] /\ y = f[k] /\ m = nodes[k]
    OBVIOUS
  <2> HIDE DEF h
  <2>6. Same(x, y, h) /\ Shrinks(x, y)
    BY <2>1, <2>2, <2>3, <2>4, <2>5, MergeIs
  <2> QED
    BY <2>5, <2>6
<1>4. ASSUME NEW k \in 1 .. n, k - 1 \in S PROVE k \in S
  <2>1. CASE k < p
    <3>1. Same(f[0], f[k - 1], h) /\ Same(f[k - 1], f[k], h)
      BY <1>1, <1>3, <1>4, <2>1
    <3> HIDE DEF h
    <3>2. Same(f[0], f[k], h)
      BY <3>1, SameTwice
    <3> QED
      BY <1>1, <2>1, <3>2
  <2>2. CASE k = p
    <3>1. Same(f[p], f[k], h) /\ Shrinks(f[p], f[k])
      BY <2>2, SameSelf DEF Shrinks
    <3> QED
      BY <1>1, <2>2, <3>1
  <2>3. CASE k > p
    <3>1. /\ Same(f[p], f[k - 1], h) /\ Same(f[k - 1], f[k], h)
          /\ Shrinks(f[p], f[k - 1]) /\ Shrinks(f[k - 1], f[k])
      BY <1>1, <1>3, <1>4, <2>3
    <3> HIDE DEF h
    <3>2. Same(f[p], f[k], h) /\ Shrinks(f[p], f[k])
      BY <3>1, SameTwice, ShrinksTwice
    <3> QED
      BY <1>1, <2>3, <3>2
  <2> QED
    BY <1>1, <2>1, <2>2, <2>3
<1>5. p - 1 \in S /\ n \in S
  <2> HIDE DEF S
  <2>1. \A k \in 0 .. n : k \in S
    BY <1>1, <1>2, <1>4, Induction
  <2> QED
    BY <1>1, <2>1
<1> QED
  BY <1>1, <1>5

LEMMA OlderIs ==
  ASSUME NamesDiffer, NEW d, NEW c, NEW n \in Nodes, NEW k
  PROVE  /\ Legacy(c, n, k).index = <<"index", c, Number[n]>> /\ Legacy(c, n, k).named = <<"named", c, n>>
         /\ Older(d, c, n, k) = IF Known(d, <<"index", c, Number[n]>>) THEN {<<"index", c, Number[n]>>}
                                ELSE {i \in {<<"named", c, n>>} : Known(d, i)}
         /\ Older(d, c, n, k) \subseteq IdsOf(Host(c, n))
<1>1. Legacy(c, n, k).index = <<"index", c, Number[n]>> /\ Legacy(c, n, k).named = <<"named", c, n>>
  BY DEF Legacy, IndexOf, NamesDiffer
<1>2. Older(d, c, n, k) = IF Known(d, <<"index", c, Number[n]>>) THEN {<<"index", c, Number[n]>>}
                          ELSE {i \in {<<"named", c, n>>} : Known(d, i)}
  BY <1>1, Zenon DEF Older
<1>3. <<"index", c, Number[n]>> \in IdsOf(Host(c, n)) /\ <<"named", c, n>> \in IdsOf(Host(c, n))
  BY DEF IdsOf, Host
<1> QED
  BY <1>1, <1>2, <1>3

\* A row that names its node is under an id of that node's host.
LEMMA OwnerIs ==
  ASSUME NEW d, Own(d), NEW i \in DOMAIN d.rows, d.rows[i].node # NoNode
  PROVE  d.rows[i] \in Hosts /\ i \in IdsOf(d.rows[i])
<1>1. PICK h \in Hosts : i \in IdsOf(h) /\ d.rows[i] \in [cluster : {h.cluster}, node : {h.node, NoNode}]
  BY DEF Own, RowOwned
<1>2. d.rows[i] = Host(h.cluster, h.node)
  BY <1>1 DEF Host
<1> QED
  BY <1>1, <1>2, HostParts

LEMMA RowsOfIs ==
  ASSUME NEW d, Own(d), NEW c \in Clusters, NEW n \in Nodes
  PROVE  RowsOf(d, c, n) \subseteq IdsOf(Host(c, n))
<1> SUFFICES ASSUME NEW i \in RowsOf(d, c, n) PROVE i \in IdsOf(Host(c, n))
  OBVIOUS
<1>1. i \in DOMAIN d.rows /\ d.rows[i] = Host(c, n)
  BY DEF RowsOf, Host
<1>2. d.rows[i].node # NoNode
  BY <1>1, HostParts, NodesAreNamed
<1> QED
  BY <1>1, <1>2, OwnerIs

LEMMA LegacyMerges ==
  ASSUME NamesDiffer, NEW c \in Clusters, NEW nodes \in Lists, NEW d, Own(d), NEW f,
         LegacySteps(f, d, c, nodes, Len(nodes))
  PROVE  Merges(f, c, nodes)
<1> SUFFICES ASSUME NEW k \in 1 .. Len(nodes) PROVE Merge(f[k - 1], f[k], c, nodes[k])
  BY DEF Merges, LegacySteps
<1>1. f[k] = Migrate(f[k - 1], Older(f[k - 1], c, nodes[k], k), Stable(c, nodes[k]))
  BY IdsAre DEF LegacySteps
<1>2. PICK x, n : x = f[k - 1] /\ n = nodes[k]
  OBVIOUS
<1>3. Older(x, c, n, k) \subseteq IdsOf(Host(c, n))
  BY <1>2, HostOfList, OlderIs
<1> QED
  BY <1>1, <1>2, <1>3 DEF Merge

LEMMA RowMerges ==
  ASSUME NamesDiffer, NEW c \in Clusters, NEW nodes \in Lists, NEW d, Own(d), NEW f,
         RowSteps(f, d, c, nodes, Len(nodes))
  PROVE  Merges(f, c, nodes)
<1> DEFINE n == Len(nodes)
           S == {k \in Nat : Own(f[k])}
<1>1. n \in Nat
  BY ListIs
<1>2. ASSUME NEW k \in 1 .. n, Own(f[k - 1]) PROVE Merge(f[k - 1], f[k], c, nodes[k])
  <2>1. f[k] = Migrate(f[k - 1], RowsOf(f[k - 1], c, nodes[k]), Stable(c, nodes[k]))
    BY IdsAre DEF RowSteps
  <2>2. PICK x, m : x = f[k - 1] /\ m = nodes[k]
    OBVIOUS
  <2>3. RowsOf(x, c, m) \subseteq IdsOf(Host(c, m))
    BY <1>2, <2>2, HostOfList, RowsOfIs
  <2> QED
    BY <2>1, <2>2, <2>3 DEF Merge
<1>3. 0 \in S
  BY DEF RowSteps
<1>4. ASSUME NEW k \in 1 .. n, k - 1 \in S PROVE k \in S
  <2>1. PICK x, y, m : x = f[k - 1] /\ y = f[k] /\ m = nodes[k]
    OBVIOUS
  <2>2. Own(x) /\ Merge(x, y, c, m) /\ m \in Nodes
    BY <1>2, <1>4, <2>1, HostOfList
  <2>3. Own(y)
    BY <2>2, MergeIs
  <2> QED
    BY <2>1, <2>3
<1> HIDE DEF S
<1>5. \A k \in 0 .. n : k \in S
  BY <1>1, <1>3, <1>4, Induction
<1>6. \A k \in 1 .. n : k - 1 \in 0 .. n
  BY <1>1
<1> QED
  BY <1>2, <1>5, <1>6 DEF S, Merges, RowSteps

\* What is stored under the present id stays there.
LEMMA MigrateKeeps ==
  ASSUME NEW x, NEW olds, NEW id, NEW e \in x.hist, e = [id |-> e.id, host |-> e.host]
  PROVE  /\ e.id \in olds \/ e.id = id => [id |-> id, host |-> e.host] \in Migrate(x, olds, id).hist
         /\ e.id \notin olds => e \in Migrate(x, olds, id).hist
<1>1. [id |-> IF e.id \in olds THEN id ELSE e.id, host |-> e.host] \in Migrate(x, olds, id).hist
  BY DEF Migrate
<1> QED
  BY <1>1

LEMMA LegacyAdopts ==
  ASSUME NamesDiffer, NEW c \in Clusters, NEW nodes \in Lists, NEW d, Own(d), NEW b, b = AdoptLegacy(d, c, nodes)
  PROVE  /\ Own(b) /\ Adopted(d, b, c, nodes)
         /\ Tame(d) =>
              \A e \in d.hist :
                e.host.cluster = c /\ e.host.node \in Range(nodes) /\ Known(d, e.id)
                => \/ StableEntry(e.host) \in b.hist
                   \/ e \in b.hist /\ Known(b, e.id) /\ e.id = <<"moved", c, e.host.node>>
<1> DEFINE n == Len(nodes)
<1>1. n \in Nat /\ DOMAIN nodes = 1 .. n
  BY ListIs
<1>2. PICK f : LegacySteps(f, d, c, nodes, n) /\ b = f[n]
  BY <1>1, LegacyUnfolds
<1>3. Merges(f, c, nodes) /\ f[0] = d
  BY <1>2, LegacyMerges DEF LegacySteps
<1>4. Own(b) /\ Adopted(d, b, c, nodes)
  BY <1>1, <1>2, <1>3, AllAdopted
<1>5. ASSUME Tame(d), NEW e \in d.hist, e.host.cluster = c, e.host.node \in Range(nodes), Known(d, e.id)
      PROVE  \/ StableEntry(e.host) \in b.hist
             \/ e \in b.hist /\ Known(b, e.id) /\ e.id = <<"moved", c, e.host.node>>
  <2>1. PICK p \in 1 .. n : e.host.node = nodes[p]
    BY <1>1, <1>5 DEF Range
  <2>2. PICK h, m : h = e.host /\ m = nodes[p]
    OBVIOUS
  <2>3. h \in Hosts /\ e.id \in IdsOf(h) /\ e = [id |-> e.id, host |-> h]
    BY <2>2, EntryIs DEF Own
  <2>4. h = Host(c, m) /\ h.cluster = c /\ h.node = m /\ m \in Nodes
    BY <1>5, <2>1, <2>2, <2>3, HostParts
  <2>5. PICK x, y : x = f[p - 1] /\ y = f[p]
    OBVIOUS
  <2>6. Same(d, x, h) /\ Same(y, b, h)
    BY <1>2, <1>3, <2>2, <2>4, <2>5, Untouched
  <2>7. PICK olds : olds = Older(x, c, m, p)
    OBVIOUS
  <2>8. y = Migrate(x, olds, Stable(c, m))
    <3>1. Ids(c, nodes)[p] = Stable(c, m)
      BY <2>2, IdsAre
    <3> QED
      BY <1>2, <2>2, <2>5, <2>7, <3>1 DEF LegacySteps
  <2>9. olds = IF Known(x, <<"index", c, Number[m]>>) THEN {<<"index", c, Number[m]>>}
               ELSE {i \in {<<"named", c, m>>} : Known(x, i)}
    BY <2>4, <2>7, OlderIs
  <2>10. e \in x.hist /\ Known(x, e.id)
    BY <1>5, <2>2, <2>3, <2>6 DEF Same
  <2>11. /\ e.id \in olds \/ e.id = Stable(c, m) => StableEntry(h) \in y.hist
         /\ e.id \notin olds => e \in y.hist
    BY <2>2, <2>3, <2>4, <2>8, <2>10, MigrateKeeps DEF StableEntry
  <2>12. StableEntry(h) \in y.hist => StableEntry(h) \in b.hist
    BY <2>6 DEF StableEntry, Same
  <2>13. CASE e.id = Stable(c, m)
    BY <2>2, <2>11, <2>12, <2>13
  <2>14. CASE e.id = <<"index", c, Number[m]>>
    BY <2>2, <2>9, <2>10, <2>11, <2>12, <2>14
  <2>15. CASE e.id = <<"named", c, m>>
    <3>1. ~ Known(d, <<"index", c, Number[m]>>)
      BY <1>5, <2>3, <2>4, <2>15 DEF Tame
    <3>2. <<"index", c, Number[m]>> \in IdsOf(h)
      BY <2>4 DEF IdsOf
    <3>3. ~ Known(x, <<"index", c, Number[m]>>)
      BY <2>6, <3>1, <3>2 DEF Same
    <3>4. e.id \in olds
      BY <2>9, <2>10, <2>15, <3>3
    <3> QED
      BY <2>2, <2>11, <2>12, <3>4
  <2>16. CASE e.id = <<"moved", c, m>>
    <3>1. e.id \notin olds
      BY <2>9, <2>16
    <3>2. e \in y.hist /\ Known(y, e.id)
      BY <2>8, <2>10, <2>11, <3>1 DEF Known, Migrate
    <3>3. e \in b.hist /\ Known(b, e.id)
      BY <2>2, <2>3, <2>6, <3>2 DEF Same
    <3> QED
      BY <2>2, <2>4, <2>16, <3>3
  <2> QED
    BY <2>3, <2>4, <2>13, <2>14, <2>15, <2>16 DEF IdsOf
<1> QED
  BY <1>4, <1>5

\* Afterwards no row names a listed node under another id, and what was under
\* such a row is under the present id.
LEMMA RowsAdopts ==
  ASSUME NamesDiffer, NEW c \in Clusters, NEW nodes \in Lists, NEW b, Own(b), NEW a, a = AdoptRows(b, c, nodes)
  PROVE  /\ Own(a) /\ Adopted(b, a, c, nodes)
         /\ \A i \in DOMAIN a.rows :
              a.rows[i].cluster = c /\ a.rows[i].node \in Range(nodes) => i = Stable(c, a.rows[i].node)
         /\ \A e \in b.hist :
              e.host.cluster = c /\ e.host.node \in Range(nodes)
              /\ (e = StableEntry(e.host) \/ (Known(b, e.id) /\ b.rows[e.id] = e.host))
              => StableEntry(e.host) \in a.hist
<1> DEFINE n == Len(nodes)
<1>1. n \in Nat /\ DOMAIN nodes = 1 .. n
  BY ListIs
<1>2. PICK f : RowSteps(f, b, c, nodes, n) /\ a = f[n]
  BY <1>1, RowsUnfold
<1>3. Merges(f, c, nodes) /\ f[0] = b
  BY <1>2, RowMerges DEF RowSteps
<1>4. Own(a) /\ Adopted(b, a, c, nodes)
  BY <1>1, <1>2, <1>3, AllAdopted
<1>5. ASSUME NEW p \in 1 .. n
      PROVE  /\ f[p] = Migrate(f[p - 1], RowsOf(f[p - 1], c, nodes[p]), Stable(c, nodes[p]))
             /\ Shrinks(b, f[p - 1]) /\ Same(b, f[p - 1], Host(c, nodes[p]))
             /\ Shrinks(f[p], a) /\ Same(f[p], a, Host(c, nodes[p]))
  <2>1. Ids(c, nodes)[p] = Stable(c, nodes[p])
    BY IdsAre
  <2>2. p - 1 \in 0 .. n
    BY <1>1
  <2> QED
    BY <1>2, <1>3, <2>1, <2>2, Untouched, AllAdopted DEF RowSteps, Adopted
<1>6. ASSUME NEW i \in DOMAIN a.rows, a.rows[i].cluster = c, a.rows[i].node \in Range(nodes)
      PROVE  i = Stable(c, a.rows[i].node)
  <2>1. PICK p \in 1 .. n : a.rows[i].node = nodes[p]
    BY <1>1, <1>6 DEF Range
  <2>2. PICK x, y, m : x = f[p - 1] /\ y = f[p] /\ m = nodes[p]
    OBVIOUS
  <2>3. m # NoNode
    BY <2>2, HostOfList, NodesAreNamed
  <2>4. a.rows[i] = Host(c, m)
    BY <1>4, <1>6, <2>1, <2>2, <2>3, OwnerIs, HostParts
  <2>5. /\ y = Migrate(x, RowsOf(x, c, m), Stable(c, m))
        /\ i \in DOMAIN y.rows /\ y.rows[i] = Host(c, m)
    BY <1>5, <2>2, <2>4 DEF Shrinks
  <2>6. i \in RowsOf(x, c, m)
    BY <2>5 DEF Migrate, RowsOf, Host
  <2> QED
    BY <2>1, <2>2, <2>5, <2>6 DEF Migrate
<1>7. ASSUME NEW e \in b.hist, e.host.cluster = c, e.host.node \in Range(nodes),
             e = StableEntry(e.host) \/ (Known(b, e.id) /\ b.rows[e.id] = e.host)
      PROVE  StableEntry(e.host) \in a.hist
  <2>1. PICK p \in 1 .. n : e.host.node = nodes[p]
    BY <1>1, <1>7 DEF Range
  <2>2. PICK h, m, x, y : h = e.host /\ m = nodes[p] /\ x = f[p - 1] /\ y = f[p]
    OBVIOUS
  <2>3. h \in Hosts /\ e.id \in IdsOf(h) /\ e = [id |-> e.id, host |-> h]
    BY <2>2, EntryIs DEF Own
  <2>4. h = Host(c, m) /\ h.cluster = c /\ h.node = m /\ m \in Nodes
    BY <1>7, <2>1, <2>2, <2>3, HostParts
  <2>5. /\ y = Migrate(x, RowsOf(x, c, m), Stable(c, m))
        /\ Shrinks(b, x) /\ Same(b, x, h) /\ Same(y, a, h)
    BY <1>5, <2>2, <2>4
  <2>6. e \in x.hist
    BY <2>2, <2>5 DEF Same
  <2>7. e.id \in RowsOf(x, c, m) \/ e.id = Stable(c, m)
    <3>1. CASE e = StableEntry(h)
      BY <2>4, <3>1 DEF StableEntry
    <3>2. CASE Known(b, e.id) /\ b.rows[e.id] = h
      <4>1. e.id \in DOMAIN x.rows
        BY <2>3, <2>5, <3>2 DEF Same, Known
      <4>2. x.rows[e.id] = h
        BY <2>5, <3>2, <4>1 DEF Shrinks
      <4> QED
        BY <2>4, <4>1, <4>2 DEF RowsOf, Host
    <3> QED
      BY <1>7, <2>2, <3>1, <3>2
  <2>8. StableEntry(h) \in y.hist
    BY <2>2, <2>3, <2>4, <2>5, <2>6, <2>7, MigrateKeeps DEF StableEntry
  <2>9. StableEntry(h) \in a.hist
    BY <2>5, <2>8 DEF Same, StableEntry
  <2> QED
    BY <2>2, <2>9
<1> QED
  BY <1>4, <1>6, <1>7

-----------------------------------------------------------------------------
(* Synchronising a cluster *)

\* After it the rows of the cluster are those of the list, each under its present
\* id, with what was stored under older ids; other clusters are as they were.
Synced(d, s, c, nodes) ==
  /\ Own(s)
  /\ \A i \in DOMAIN s.rows : s.rows[i].cluster = c
       => s.rows[i].node \in Range(nodes) /\ i = Stable(c, s.rows[i].node)
  /\ \A n \in Range(nodes) : Known(s, Stable(c, n)) /\ s.rows[Stable(c, n)] = Host(c, n)
  /\ \A i \in DOMAIN s.rows : s.rows[i].cluster # c => i \in DOMAIN d.rows /\ s.rows[i] = d.rows[i]
  /\ \A i \in DOMAIN d.rows : d.rows[i].cluster # c => i \in DOMAIN s.rows /\ s.rows[i] = d.rows[i]
  /\ \A e \in d.hist : e.host.cluster # c => e \in s.hist
  /\ Tame(d) => \A e \in d.hist :
       e.host.cluster = c /\ e.host.node \in Range(nodes) /\ Known(d, e.id) => StableEntry(e.host) \in s.hist

LEMMA RowClusterIs ==
  ASSUME NEW d, Own(d), NEW i \in DOMAIN d.rows
  PROVE  i[2] = d.rows[i].cluster
<1>1. PICK h \in Hosts : i \in IdsOf(h) /\ d.rows[i] \in [cluster : {h.cluster}, node : {h.node, NoNode}]
  BY DEF Own, RowOwned
<1> QED
  BY <1>1, IdParts

LEMMA StableApart ==
  ASSUME NamesDiffer, NEW c, NEW m \in Nodes, NEW n \in Nodes, Stable(c, m) = Stable(c, n)
  PROVE  m = n
<1>1. Safe[m] = Safe[n]
  BY DEF Stable
<1> QED
  BY <1>1 DEF NamesDiffer

LEMMA SyncIs ==
  ASSUME NamesDiffer, NEW c \in Clusters, NEW nodes \in Lists, NEW d, Own(d)
  PROVE  Synced(d, Sync(d, c, nodes), c, nodes)
<1>1. PICK b : b = AdoptLegacy(d, c, nodes)
  OBVIOUS
<1>2. PICK a : a = AdoptRows(b, c, nodes)
  OBVIOUS
<1>3. PICK x : x = Delete(a, Stale(a, c, nodes))
  OBVIOUS
<1>4. PICK s : s = Upsert(x, c, nodes, DOMAIN nodes)
  OBVIOUS
<1>5. s = Sync(d, c, nodes)
  BY <1>1, <1>2, <1>3, <1>4 DEF Sync
<1>6. Own(b) /\ Adopted(d, b, c, nodes)
  BY <1>1, LegacyAdopts
<1>7. /\ Own(a) /\ Adopted(b, a, c, nodes)
      /\ \A i \in DOMAIN a.rows :
           a.rows[i].cluster = c /\ a.rows[i].node \in Range(nodes) => i = Stable(c, a.rows[i].node)
  BY <1>2, <1>6, RowsAdopts
<1>8. /\ DOMAIN nodes = 1 .. Len(nodes) /\ \A k \in DOMAIN nodes : nodes[k] \in Nodes /\ nodes[k] \in Range(nodes)
      /\ \A n \in Range(nodes) : n \in Nodes /\ \E k \in DOMAIN nodes : n = nodes[k]
  BY ListIs DEF Range
<1>9. /\ \A k \in DOMAIN nodes : Ids(c, nodes)[k] = Stable(c, nodes[k])
      /\ \A i : i \in Range(Ids(c, nodes)) <=> \E n \in Range(nodes) : i = Stable(c, n)
  <2>1. DOMAIN Ids(c, nodes) = DOMAIN nodes /\ \A k \in DOMAIN nodes : Ids(c, nodes)[k] = Stable(c, nodes[k])
    BY <1>8, IdsAre
  <2>2. \A i : i \in Range(Ids(c, nodes)) <=> \E k \in DOMAIN nodes : i = Ids(c, nodes)[k]
    BY <2>1 DEF Range
  <2>3. \A i : (\E k \in DOMAIN nodes : i = Ids(c, nodes)[k]) <=> \E n \in Range(nodes) : i = Stable(c, n)
    BY <1>8, <2>1
  <2> QED
    BY <2>1, <2>2, <2>3
<1>10. /\ \A i : i \in DOMAIN x.rows <=> i \in DOMAIN a.rows /\ i \notin Stale(a, c, nodes)
       /\ \A i \in DOMAIN x.rows : x.rows[i] = a.rows[i]
       /\ \A e : e \in x.hist <=> e \in a.hist /\ e.id \notin Stale(a, c, nodes)
  BY <1>3 DEF Delete
<1>11. \A i : i \in Stale(a, c, nodes) <=>
         /\ i \in DOMAIN a.rows /\ a.rows[i].cluster = c
         /\ (\A n \in Range(nodes) : i # Stable(c, n)) /\ a.rows[i].node \notin Range(nodes)
  BY <1>9 DEF Stale
<1>12. /\ \A i : i \in DOMAIN s.rows <=> i \in DOMAIN x.rows \/ \E n \in Range(nodes) : i = Stable(c, n)
       /\ \A n \in Range(nodes) : s.rows[Stable(c, n)] = Host(c, n)
       /\ \A i \in DOMAIN x.rows : (\A n \in Range(nodes) : i # Stable(c, n)) => s.rows[i] = x.rows[i]
       /\ s.hist = x.hist
  <2>1. Upserted(s, x, c, nodes, DOMAIN nodes)
    BY <1>4, UpsertIs
  <2>2. \A i : (\E k \in DOMAIN nodes : i = Ids(c, nodes)[k]) <=> \E n \in Range(nodes) : i = Stable(c, n)
    BY <1>8, <1>9
  <2>3. ASSUME NEW n \in Range(nodes) PROVE s.rows[Stable(c, n)] = Host(c, n)
    <3>1. PICK k \in DOMAIN nodes : n = nodes[k]
      BY <1>8
    <3>2. PICK j \in DOMAIN nodes : Stable(c, n) = Stable(c, nodes[j]) /\ s.rows[Stable(c, n)] = Host(c, nodes[j])
      BY <1>9, <2>1, <3>1 DEF Upserted
    <3> QED
      BY <1>8, <3>2, StableApart
  <2>4. \A i : i \in DOMAIN s.rows <=> i \in DOMAIN x.rows \/ \E n \in Range(nodes) : i = Stable(c, n)
    BY <2>1, <2>2 DEF Upserted
  <2>5. ASSUME NEW i \in DOMAIN x.rows, \A n \in Range(nodes) : i # Stable(c, n)
        PROVE  s.rows[i] = x.rows[i]
    <3>1. \A k \in DOMAIN nodes : i # Ids(c, nodes)[k]
      BY <2>2, <2>5
    <3> QED
      BY <2>1, <3>1 DEF Upserted
  <2> QED
    BY <2>1, <2>3, <2>4, <2>5 DEF Upserted
<1>13. \A n : Stable(c, n)[2] = c
  BY DEF Stable
<1>14. \A n : Host(c, n).cluster = c /\ Host(c, n).node = n
  BY DEF Host
<1>15. ASSUME NEW i \in DOMAIN s.rows
       PROVE  \/ \E n \in Range(nodes) : i = Stable(c, n) /\ s.rows[i] = Host(c, n)
              \/ /\ i \in DOMAIN a.rows /\ i \in DOMAIN d.rows
                 /\ s.rows[i] = a.rows[i] /\ s.rows[i] = d.rows[i] /\ s.rows[i].cluster # c
  <2>1. CASE \E n \in Range(nodes) : i = Stable(c, n)
    BY <1>12, <2>1
  <2>2. CASE \A n \in Range(nodes) : i # Stable(c, n)
    <3>1. i \in DOMAIN x.rows /\ s.rows[i] = x.rows[i]
      BY <1>12, <1>15, <2>2
    <3>2. i \in DOMAIN a.rows /\ s.rows[i] = a.rows[i] /\ i \notin Stale(a, c, nodes)
      BY <1>10, <3>1
    <3>3. i \in DOMAIN d.rows /\ s.rows[i] = d.rows[i]
      BY <1>6, <1>7, <3>2 DEF Adopted, Shrinks
    <3>4. a.rows[i].cluster # c
      BY <1>7, <1>11, <2>2, <3>2
    <3> QED
      BY <3>2, <3>3, <3>4
  <2> QED
    BY <2>1, <2>2
<1>16. Own(s)
  <2>1. s.hist \subseteq Entries
    BY <1>7, <1>10, <1>12 DEF Own
  <2>2. ASSUME NEW i \in DOMAIN s.rows PROVE RowOwned(i, s.rows[i])
    <3>1. CASE \E n \in Range(nodes) : i = Stable(c, n) /\ s.rows[i] = Host(c, n)
      <4>1. PICK n \in Range(nodes) : i = Stable(c, n) /\ s.rows[i] = Host(c, n)
        BY <3>1
      <4>2. PICK h : h = Host(c, n) /\ h \in Hosts /\ h.cluster = c /\ h.node = n
        BY <1>8, HostParts
      <4>3. i \in IdsOf(h) /\ s.rows[i] \in [cluster : {h.cluster}, node : {h.node, NoNode}]
        BY <4>1, <4>2, StableIs DEF Host
      <4> QED
        BY <4>2, <4>3 DEF RowOwned
    <3>2. CASE i \in DOMAIN a.rows /\ s.rows[i] = a.rows[i]
      BY <1>7, <3>2 DEF Own
    <3> QED
      BY <1>15, <3>1, <3>2
  <2> QED
    BY <2>1, <2>2 DEF Own
<1>17. ASSUME NEW i \in DOMAIN s.rows, s.rows[i].cluster = c
       PROVE  s.rows[i].node \in Range(nodes) /\ i = Stable(c, s.rows[i].node)
  BY <1>14, <1>15, <1>17
<1>18. ASSUME NEW n \in Range(nodes) PROVE Known(s, Stable(c, n)) /\ s.rows[Stable(c, n)] = Host(c, n)
  BY <1>12 DEF Known
<1>19. ASSUME NEW i \in DOMAIN s.rows, s.rows[i].cluster # c
       PROVE  i \in DOMAIN d.rows /\ s.rows[i] = d.rows[i]
  BY <1>14, <1>15, <1>19
<1>20. ASSUME NEW i \in DOMAIN d.rows, d.rows[i].cluster # c
       PROVE  i \in DOMAIN s.rows /\ s.rows[i] = d.rows[i]
  <2>1. \A n \in Range(nodes) : i \notin IdsOf(Host(c, n))
    BY <1>8, <1>20, HostParts, IdParts, RowClusterIs
  <2>2. i \in DOMAIN b.rows /\ b.rows[i] = d.rows[i]
    BY <1>6, <2>1 DEF Adopted, Shrinks
  <2>3. i \in DOMAIN a.rows /\ a.rows[i] = d.rows[i]
    BY <1>7, <2>1, <2>2 DEF Adopted, Shrinks
  <2>4. \A n \in Range(nodes) : i # Stable(c, n)
    BY <1>13, <1>20, RowClusterIs
  <2> QED
    BY <1>10, <1>11, <1>12, <1>20, <2>3, <2>4
<1>21. ASSUME NEW e \in d.hist, e.host.cluster # c PROVE e \in s.hist
  <2>1. e \in a.hist
    BY <1>6, <1>7, <1>21 DEF Adopted
  <2>2. e.id[2] = e.host.cluster
    BY EntryIs, IdParts DEF Own
  <2>3. e.id \notin Stale(a, c, nodes)
    BY <1>7, <1>11, <1>21, <2>2, RowClusterIs
  <2> QED
    BY <1>10, <1>12, <2>1, <2>3
<1>22. ASSUME Tame(d), NEW e \in d.hist, e.host.cluster = c, e.host.node \in Range(nodes), Known(d, e.id)
       PROVE  StableEntry(e.host) \in s.hist
  <2>1. PICK h, g : h = e.host /\ g = StableEntry(h)
    OBVIOUS
  <2>2. h \in Hosts /\ g.id = Stable(c, h.node) /\ g.host = h /\ g = StableEntry(g.host)
    BY <1>22, <2>1, EntryIs DEF Own, StableEntry
  <2>3. g \in b.hist \/ (e \in b.hist /\ Known(b, e.id) /\ e.id = <<"moved", c, h.node>>)
    BY <1>1, <1>22, <2>1, LegacyAdopts
  <2>4. g \in a.hist
    <3>1. CASE g \in b.hist
      BY <1>2, <1>6, <1>22, <2>1, <2>2, <3>1, RowsAdopts
    <3>2. CASE e \in b.hist /\ Known(b, e.id) /\ e.id = <<"moved", c, h.node>>
      <4>1. d.rows[e.id] = h
        BY <1>22, <2>1, <2>2, <3>2 DEF Tame
      <4>2. b.rows[e.id] = h
        BY <1>6, <3>2, <4>1 DEF Adopted, Shrinks, Known
      <4> QED
        BY <1>2, <1>6, <1>22, <2>1, <3>2, <4>2, RowsAdopts
    <3> QED
      BY <2>3, <3>1, <3>2
  <2>5. g.id \notin Stale(a, c, nodes)
    BY <1>11, <1>22, <2>1, <2>2
  <2> QED
    BY <1>10, <1>12, <2>1, <2>4, <2>5
<1>23. Synced(d, s, c, nodes)
  BY <1>16, <1>17, <1>18, <1>19, <1>20, <1>21, <1>22 DEF Synced
<1> QED
  BY <1>5, <1>23

\* The rows of a cluster are those of a list, under present ids.
Clean(d, c, nodes) ==
  /\ \A i \in DOMAIN d.rows : d.rows[i].cluster = c
       => d.rows[i].node \in Range(nodes) /\ i = Stable(c, d.rows[i].node)
  /\ \A n \in Range(nodes) : Known(d, Stable(c, n)) /\ d.rows[Stable(c, n)] = Host(c, n)

Show(d, h) == \E e \in d.hist : e.host = h /\ Known(d, e.id)

LEMMA SyncedClean == ASSUME NEW d, NEW s, NEW c, NEW nodes, Synced(d, s, c, nodes) PROVE Clean(s, c, nodes)
  BY DEF Synced, Clean

LEMMA CleanElsewhere ==
  ASSUME NEW d, NEW s, NEW c, NEW nodes, Synced(d, s, c, nodes), NEW b, b # c, NEW list, Clean(d, b, list)
  PROVE  Clean(s, b, list)
<1>1. ASSUME NEW i \in DOMAIN s.rows, s.rows[i].cluster = b
      PROVE  s.rows[i].node \in Range(list) /\ i = Stable(b, s.rows[i].node)
  BY <1>1 DEF Synced, Clean
<1>2. ASSUME NEW n \in Range(list) PROVE Known(s, Stable(b, n)) /\ s.rows[Stable(b, n)] = Host(b, n)
  <2>1. /\ Stable(b, n) \in DOMAIN d.rows /\ d.rows[Stable(b, n)] = Host(b, n)
        /\ d.rows[Stable(b, n)].cluster # c
    BY DEF Clean, Known, Host
  <2> QED
    BY <2>1 DEF Synced, Known
<1> QED
  BY <1>1, <1>2 DEF Clean

LEMMA CleanRow ==
  ASSUME NEW d, NEW c \in Clusters, NEW nodes \in Lists, Clean(d, c, nodes),
         NEW i \in DOMAIN d.rows, d.rows[i].cluster = c
  PROVE  d.rows[i] \in Hosts /\ i = Stable(c, d.rows[i].node)
<1>1. d.rows[i].node \in Range(nodes) /\ i = Stable(c, d.rows[i].node)
  BY DEF Clean
<1>2. d.rows[i] = Host(c, d.rows[i].node)
  BY <1>1 DEF Clean
<1>3. d.rows[i].node \in Nodes
  BY <1>1, ListIs DEF Range
<1> QED
  BY <1>1, <1>2, <1>3, HostParts

LEMMA SyncedSettled ==
  ASSUME NEW d, NEW s, NEW c \in Clusters, NEW nodes \in Lists, Synced(d, s, c, nodes), Settled(d)
  PROVE  Settled(s)
<1> SUFFICES ASSUME NEW i \in DOMAIN s.rows
             PROVE  s.rows[i] \in Hosts /\ i = Stable(s.rows[i].cluster, s.rows[i].node)
  BY DEF Settled
<1>1. CASE s.rows[i].cluster = c
  BY <1>1, SyncedClean, CleanRow
<1>2. CASE s.rows[i].cluster # c
  BY <1>2 DEF Synced, Settled
<1> QED
  BY <1>1, <1>2

\* The ids of the other schemes than the present one.
OldIds(h) ==
  {<<"index", h.cluster, Number[h.node]>>, <<"named", h.cluster, h.node>>, <<"moved", h.cluster, h.node>>}

LEMMA OldIdIs ==
  ASSUME NEW h \in Hosts, NEW i \in OldIds(h)
  PROVE  /\ i \in IdsOf(h) /\ i[2] = h.cluster /\ \A c, n : i # Stable(c, n)
<1>1. i[1] # "stable" /\ i[2] = h.cluster
  BY DEF OldIds
<1>2. \A c, n : Stable(c, n)[1] = "stable"
  BY DEF Stable
<1> QED
  BY <1>1, <1>2 DEF IdsOf, OldIds

\* Tables stay tame while no row appears or changes under an older id.
LEMMA TameFrom ==
  ASSUME NEW d, NEW s, Tame(d),
         \A h \in Hosts : \A i \in OldIds(h) : Known(s, i) => Known(d, i) /\ s.rows[i] = d.rows[i]
  PROVE  Tame(s)
<1> SUFFICES ASSUME NEW h \in Hosts
    PROVE  /\ ~ (Known(s, <<"index", h.cluster, Number[h.node]>>) /\ Known(s, <<"named", h.cluster, h.node>>))
           /\ Known(s, <<"moved", h.cluster, h.node>>) => s.rows[<<"moved", h.cluster, h.node>>] = h
  BY DEF Tame
<1>1. PICK i1, i2, i3 : /\ i1 = <<"index", h.cluster, Number[h.node]>>
                        /\ i2 = <<"named", h.cluster, h.node>> /\ i3 = <<"moved", h.cluster, h.node>>
  OBVIOUS
<1>2. \A i \in {i1, i2, i3} : Known(s, i) => Known(d, i) /\ s.rows[i] = d.rows[i]
  BY <1>1 DEF OldIds
<1>3. ~ (Known(d, i1) /\ Known(d, i2)) /\ (Known(d, i3) => d.rows[i3] = h)
  BY <1>1 DEF Tame
<1>4. ~ (Known(s, i1) /\ Known(s, i2)) /\ (Known(s, i3) => s.rows[i3] = h)
  BY <1>2, <1>3
<1> QED
  BY <1>1, <1>4

LEMMA SyncedTame ==
  ASSUME NEW d, NEW s, NEW c, NEW nodes, Synced(d, s, c, nodes), Tame(d)
  PROVE  Tame(s)
<1>1. ASSUME NEW h \in Hosts, NEW i \in OldIds(h), Known(s, i)
      PROVE  Known(d, i) /\ s.rows[i] = d.rows[i]
  <2>1. i \in DOMAIN s.rows /\ s.rows[i].cluster = i[2] /\ Own(s)
    BY <1>1, RowClusterIs DEF Known, Synced
  <2>2. \A m, n : i # Stable(m, n)
    BY OldIdIs
  <2>3. s.rows[i].cluster # c
    BY <2>1, <2>2 DEF Synced
  <2> QED
    BY <2>1, <2>3 DEF Synced, Known
<1> QED
  BY <1>1, TameFrom

\* A host that the list keeps stays visible.
LEMMA SyncedShows ==
  ASSUME NEW d, NEW s, NEW c, NEW nodes, Own(d), Tame(d), Synced(d, s, c, nodes), NEW h \in Hosts, Show(d, h),
         h.cluster = c => h.node \in Range(nodes)
  PROVE  Show(s, h)
<1>1. PICK e \in d.hist : e.host = h /\ Known(d, e.id)
  BY DEF Show
<1>2. CASE h.cluster = c
  <2>1. StableEntry(h) \in s.hist /\ Known(s, Stable(c, h.node))
    BY <1>1, <1>2 DEF Synced
  <2>2. StableEntry(h).host = h /\ StableEntry(h).id = Stable(c, h.node)
    BY <1>2 DEF StableEntry
  <2> QED
    BY <2>1, <2>2 DEF Show
<1>3. CASE h.cluster # c
  <2>1. e.id \in DOMAIN d.rows /\ d.rows[e.id].cluster = e.id[2]
    BY <1>1, RowClusterIs DEF Known
  <2>2. e.id[2] = h.cluster
    BY <1>1, EntryIs, IdParts DEF Own
  <2> QED
    BY <1>1, <1>3, <2>1, <2>2 DEF Synced, Show, Known
<1> QED
  BY <1>2, <1>3

-----------------------------------------------------------------------------
(* The other changes of the tables *)

\* What holds of the tables at every step: Own and Tame, and Settled once started.
LEMMA DeleteKeeps ==
  ASSUME NEW d, NEW ids, NEW s, s = Delete(d, ids)
  PROVE  /\ Own(d) => Own(s)
         /\ Tame(d) => Tame(s)
         /\ Settled(d) => Settled(s)
         /\ \A i : i \in DOMAIN s.rows <=> i \in DOMAIN d.rows /\ i \notin ids
         /\ \A i \in DOMAIN s.rows : s.rows[i] = d.rows[i]
<1>1. /\ \A i : i \in DOMAIN s.rows <=> i \in DOMAIN d.rows /\ i \notin ids
      /\ \A i \in DOMAIN s.rows : s.rows[i] = d.rows[i]
      /\ s.hist \subseteq d.hist
  BY DEF Delete
<1>2. Own(d) => Own(s)
  BY <1>1 DEF Own
<1>3. Tame(d) => Tame(s)
  BY <1>1 DEF Tame, Known
<1>4. Settled(d) => Settled(s)
  BY <1>1 DEF Settled
<1> QED
  BY <1>1, <1>2, <1>3, <1>4

LEMMA RecordKeeps ==
  ASSUME NamesDiffer, NEW c \in Clusters, NEW nodes \in Lists, NEW ks \in SUBSET DOMAIN nodes,
         NEW d, NEW s, s = Record(d, c, nodes, ks)
  PROVE  /\ Own(d) => Own(s)
         /\ s.rows = d.rows /\ d.hist \subseteq s.hist
<1>1. s.rows = d.rows /\ s.hist = d.hist \cup
        {[id |-> Ids(c, nodes)[k], host |-> [cluster |-> c, node |-> nodes[k]]] : k \in ks}
  BY DEF Record
<1>2. ASSUME NEW k \in ks
      PROVE  [id |-> Ids(c, nodes)[k], host |-> [cluster |-> c, node |-> nodes[k]]] \in Entries
  <2>1. PICK h : h = Host(c, nodes[k])
    OBVIOUS
  <2>2. k \in 1 .. Len(nodes)
    BY ListIs
  <2>3. h \in Hosts /\ h.cluster = c /\ h.node = nodes[k]
    BY <2>1, <2>2, HostOfList, HostParts
  <2>4. Ids(c, nodes)[k] = Stable(h.cluster, h.node)
    BY <2>2, <2>3, IdsAre
  <2>5. PICK e : e = [id |-> Stable(h.cluster, h.node), host |-> h]
    OBVIOUS
  <2>6. e \in Entries
    BY <2>3, <2>5, EntryIs, StableIs
  <2> QED
    BY <2>1, <2>4, <2>5, <2>6 DEF Host
<1>3. Own(d) => Own(s)
  BY <1>1, <1>2 DEF Own
<1> QED
  BY <1>1, <1>3

\* An upsert adds the rows of some of the listed nodes under their present ids.
Extended(d, s, c, nodes) ==
  /\ DOMAIN d.rows \subseteq DOMAIN s.rows
  /\ \A i \in DOMAIN s.rows :
       \/ \E n \in Range(nodes) : i = Stable(c, n) /\ s.rows[i] = Host(c, n)
       \/ i \in DOMAIN d.rows /\ s.rows[i] = d.rows[i]

LEMMA UpsertKeeps ==
  ASSUME NamesDiffer, NEW c \in Clusters, NEW nodes \in Lists, NEW ks \in SUBSET DOMAIN nodes,
         NEW d, NEW s, s = Upsert(d, c, nodes, ks)
  PROVE  /\ Own(d) => Own(s)
         /\ Tame(d) => Tame(s)
         /\ Settled(d) => Settled(s)
         /\ s.hist = d.hist
         /\ Extended(d, s, c, nodes)
<1>1. Upserted(s, d, c, nodes, ks)
  BY UpsertIs
<1>2. \A k \in ks : Ids(c, nodes)[k] = Stable(c, nodes[k]) /\ nodes[k] \in Nodes /\ nodes[k] \in Range(nodes)
  BY ListIs, IdsAre, HostOfList
<1>3. ASSUME NEW i \in DOMAIN s.rows
      PROVE  \/ \E n \in Range(nodes) \cap Nodes : i = Stable(c, n) /\ s.rows[i] = Host(c, n)
             \/ i \in DOMAIN d.rows /\ s.rows[i] = d.rows[i]
  <2>1. CASE \E k \in ks : i = Ids(c, nodes)[k]
    <3>1. PICK j \in ks : i = Ids(c, nodes)[j] /\ s.rows[i] = Host(c, nodes[j])
      BY <1>1, <2>1 DEF Upserted
    <3> QED
      BY <1>2, <3>1
  <2>2. CASE \A k \in ks : i # Ids(c, nodes)[k]
    BY <1>1, <1>3, <2>2 DEF Upserted
  <2> QED
    BY <2>1, <2>2
<1>4. \A n \in Nodes : /\ Host(c, n) \in Hosts /\ Host(c, n).cluster = c /\ Host(c, n).node = n
                       /\ Stable(c, n) \in IdsOf(Host(c, n))
  BY HostParts, StableIs
<1>5. Own(d) => Own(s)
  <2> SUFFICES ASSUME Own(d), NEW i \in DOMAIN s.rows PROVE RowOwned(i, s.rows[i])
    BY <1>1 DEF Own, Upserted
  <2>1. CASE i \in DOMAIN d.rows /\ s.rows[i] = d.rows[i]
    BY <2>1 DEF Own
  <2>2. ASSUME NEW n \in Range(nodes) \cap Nodes, i = Stable(c, n) /\ s.rows[i] = Host(c, n)
        PROVE  RowOwned(i, s.rows[i])
    <3>1. s.rows[i] \in [cluster : {Host(c, n).cluster}, node : {Host(c, n).node, NoNode}]
      BY <1>4, <2>2 DEF Host
    <3> QED
      BY <1>4, <2>2, <3>1 DEF RowOwned
  <2> QED
    BY <1>3, <2>1, <2>2
<1>6. ASSUME NEW h \in Hosts, NEW i \in OldIds(h), Known(s, i)
      PROVE  Known(d, i) /\ s.rows[i] = d.rows[i]
  <2>1. \A m, n : i # Stable(m, n)
    BY OldIdIs
  <2> QED
    BY <1>3, <1>6, <2>1 DEF Known
<1>7. Tame(d) => Tame(s)
  BY <1>6, TameFrom
<1>8. Settled(d) => Settled(s)
  BY <1>3, <1>4 DEF Settled
<1> QED
  BY <1>1, <1>3, <1>5, <1>7, <1>8 DEF Upserted, Extended

-----------------------------------------------------------------------------
(* Synchronising all clusters *)

\* Every cluster with a file has the rows of the file, the others are as they were,
\* and the hosts that the files name stay visible.
AllClean(d, s) ==
  /\ Own(s) /\ Tame(s) /\ (Settled(d) => Settled(s))
  /\ \A f \in DOMAIN files : Clean(s, files[f].cluster, files[f].nodes)
  /\ \A i \in DOMAIN s.rows : (\A f \in DOMAIN files : files[f].cluster # s.rows[i].cluster)
       => i \in DOMAIN d.rows /\ s.rows[i] = d.rows[i]
  /\ \A i \in DOMAIN d.rows : (\A f \in DOMAIN files : files[f].cluster # d.rows[i].cluster)
       => i \in DOMAIN s.rows /\ s.rows[i] = d.rows[i]
  /\ \A h \in Hosts : Show(d, h)
       /\ (\A f \in DOMAIN files : files[f].cluster = h.cluster => h.node \in Range(files[f].nodes)) => Show(s, h)

LEMMA AllCleanIs ==
  ASSUME NamesDiffer, FilesOK, \A f \in DOMAIN files : f = Slug[files[f].cluster],
         NEW d, Own(d), Tame(d)
  PROVE  AllClean(d, SyncAll(d))
<1>1. PICK n, f, order : n \in Nat /\ AllSynced(f, n, order, d) /\ SyncAll(d) = f[n]
  BY SyncAllIs
<1> DEFINE Untold(x) == \A g \in DOMAIN files : files[g].cluster # x
           Reached(k) == {g \in DOMAIN files : \E j \in 1 .. k : order[j] = g}
           S == {k \in Nat :
                   /\ Own(f[k]) /\ Tame(f[k]) /\ (Settled(d) => Settled(f[k]))
                   /\ \A g \in Reached(k) : Clean(f[k], files[g].cluster, files[g].nodes)
                   /\ \A i \in DOMAIN f[k].rows : Untold(f[k].rows[i].cluster)
                        => i \in DOMAIN d.rows /\ f[k].rows[i] = d.rows[i]
                   /\ \A i \in DOMAIN d.rows : Untold(d.rows[i].cluster)
                        => i \in DOMAIN f[k].rows /\ f[k].rows[i] = d.rows[i]
                   /\ \A h \in Hosts : Show(d, h)
                        /\ (\A g \in DOMAIN files : files[g].cluster = h.cluster => h.node \in Range(files[g].nodes))
                        => Show(f[k], h)}
<1>2. 0 \in S
  <2>1. f[0] = d
    BY <1>1 DEF AllSynced
  <2>2. Reached(0) = {}
    <3>1. 1 .. 0 = {}
      OBVIOUS
    <3> QED
      BY <3>1
  <2> HIDE DEF Reached
  <2> QED
    BY <2>1, <2>2
<1>3. ASSUME NEW k \in 1 .. n, k - 1 \in S PROVE k \in S
  <2>1. PICK x, y, g : x = f[k - 1] /\ y = f[k] /\ g = order[k]
    OBVIOUS
  <2>2. PICK c, nodes : c = files[g].cluster /\ nodes = files[g].nodes
    OBVIOUS
  <2>3. g \in DOMAIN files /\ y = Sync(x, c, nodes) /\ c \in Clusters /\ nodes \in Lists
    BY <1>1, <2>1, <2>2 DEF AllSynced, FilesOK
  <2>4. /\ Own(x) /\ Tame(x) /\ (Settled(d) => Settled(x))
        /\ \A e \in Reached(k - 1) : Clean(x, files[e].cluster, files[e].nodes)
        /\ \A i \in DOMAIN x.rows : Untold(x.rows[i].cluster) => i \in DOMAIN d.rows /\ x.rows[i] = d.rows[i]
        /\ \A i \in DOMAIN d.rows : Untold(d.rows[i].cluster) => i \in DOMAIN x.rows /\ x.rows[i] = d.rows[i]
        /\ \A h \in Hosts : Show(d, h)
             /\ (\A e \in DOMAIN files : files[e].cluster = h.cluster => h.node \in Range(files[e].nodes))
             => Show(x, h)
    BY <1>3, <2>1
  <2>5. Synced(x, y, c, nodes)
    BY <2>3, <2>4, SyncIs
  <2>6. Own(y) /\ Tame(y) /\ (Settled(d) => Settled(y))
    <3>1. Own(y)
      BY <2>5 DEF Synced
    <3>2. Tame(y)
      BY <2>4, <2>5, SyncedTame
    <3>3. Settled(x) => Settled(y)
      BY <2>3, <2>5, SyncedSettled
    <3> QED
      BY <2>4, <3>1, <3>2, <3>3
  <2>7. ASSUME NEW e \in Reached(k) PROVE Clean(y, files[e].cluster, files[e].nodes)
    <3>1. CASE e = g
      BY <2>2, <2>5, <3>1, SyncedClean
    <3>2. CASE e # g
      <4>1. PICK j \in 1 .. k : order[j] = e
        BY <2>7
      <4>2. j \in 1 .. (k - 1)
        BY <2>1, <3>2, <4>1
      <4>3. e \in Reached(k - 1)
        BY <2>7, <4>1, <4>2
      <4>4. files[e].cluster # c
        BY <2>2, <2>3, <2>7, <3>2
      <4> QED
        BY <2>4, <2>5, <4>3, <4>4, CleanElsewhere
    <3> QED
      BY <3>1, <3>2
  <2>8. ASSUME NEW i \in DOMAIN y.rows, Untold(y.rows[i].cluster)
        PROVE  i \in DOMAIN d.rows /\ y.rows[i] = d.rows[i]
    <3>1. y.rows[i].cluster # c
      BY <2>2, <2>3, <2>8
    <3> QED
      BY <2>4, <2>5, <2>8, <3>1 DEF Synced
  <2>9. ASSUME NEW i \in DOMAIN d.rows, Untold(d.rows[i].cluster)
        PROVE  i \in DOMAIN y.rows /\ y.rows[i] = d.rows[i]
    <3>1. d.rows[i].cluster # c
      BY <2>2, <2>3, <2>9
    <3> QED
      BY <2>4, <2>5, <2>9, <3>1 DEF Synced
  <2>10. ASSUME NEW h \in Hosts, Show(d, h),
                \A e \in DOMAIN files : files[e].cluster = h.cluster => h.node \in Range(files[e].nodes)
         PROVE  Show(y, h)
    <3>1. Show(x, h) /\ (h.cluster = c => h.node \in Range(nodes))
      BY <2>2, <2>3, <2>4, <2>10
    <3> QED
      BY <2>4, <2>5, <3>1, SyncedShows
  <2> HIDE DEF Reached, Untold
  <2> QED
    BY <2>1, <2>6, <2>7, <2>8, <2>9, <2>10
<1>4. n \in S
  <2> HIDE DEF S
  <2>1. \A k \in 0 .. n : k \in S
    BY <1>1, <1>2, <1>3, Induction
  <2> QED
    BY <1>1, <2>1
<1>5. Reached(n) = DOMAIN files
  BY <1>1 DEF AllSynced
<1>6. AllClean(d, f[n])
  <2> HIDE DEF Reached
  <2> QED
    BY <1>4, <1>5 DEF AllClean
<1> QED
  BY <1>1, <1>6

-----------------------------------------------------------------------------
(* Whose history is under which id *)

LEMMA InitHist == ASSUME NamesDiffer, Init PROVE HistInv
<1>1. PICK form : LeftBy(db, form)
  BY SeededIs DEF Init
<1>2. \A h \in Hosts : /\ form[h] = "moved" => OldId(h, form[h]) = <<"moved", h.cluster, h.node>>
                       /\ form[h] = "index" => OldId(h, form[h]) = <<"index", h.cluster, Number[h.node]>>
                       /\ form[h] = "named" => OldId(h, form[h]) = <<"named", h.cluster, h.node>>
  <2> TAKE h \in Hosts
  <2>1. PICK k : k = CHOOSE j \in 1..Len(files[Slug[h.cluster]].nodes) : files[Slug[h.cluster]].nodes[j] = h.node
    OBVIOUS
  <2>2. h.node \in Nodes
    BY HostParts
  <2>3. /\ Legacy(h.cluster, h.node, k).index = <<"index", h.cluster, Number[h.node]>>
        /\ Legacy(h.cluster, h.node, k).named = <<"named", h.cluster, h.node>>
    BY <2>2 DEF Legacy, IndexOf, NamesDiffer
  <2>4. form[h] = "moved" => OldId(h, form[h]) = <<"moved", h.cluster, h.node>>
    BY DEF OldId
  <2>5. form[h] = "index" => OldId(h, form[h]) = Legacy(h.cluster, h.node, k).index
    BY <2>1 DEF OldId
  <2>6. form[h] = "named" => OldId(h, form[h]) = Legacy(h.cluster, h.node, k).named
    BY <2>1 DEF OldId
  <2> QED
    BY <2>3, <2>4, <2>5, <2>6
<1>3. ASSUME NEW h \in Hosts, form[h] \in {"index", "named", "moved"}
      PROVE  OldId(h, form[h]) \in OldIds(h) /\ OldId(h, form[h]) \in IdsOf(h)
  BY <1>2, <1>3, OldIdIs DEF OldIds
<1>4. db.hist \subseteq Entries
  <2> SUFFICES ASSUME NEW e \in db.hist PROVE e \in Entries
    OBVIOUS
  <2>1. PICK h \in Hosts : form[h] \in {"index", "named", "moved"} /\ e = [id |-> OldId(h, form[h]), host |-> h]
    BY <1>1 DEF LeftBy
  <2> QED
    BY <1>3, <2>1, EntryIs
<1>5. ASSUME NEW i \in DOMAIN db.rows
      PROVE  \E h \in Hosts : /\ form[h] \in {"index", "named", "moved"} /\ i = OldId(h, form[h])
                              /\ i \in OldIds(h) /\ i \in IdsOf(h) /\ db.rows[i] = OldRow(h, form[h])
  BY <1>1, <1>3 DEF LeftBy
<1>6. Own(db)
  <2> SUFFICES ASSUME NEW i \in DOMAIN db.rows PROVE RowOwned(i, db.rows[i])
    BY <1>4 DEF Own
  <2>1. PICK h \in Hosts : i \in IdsOf(h) /\ db.rows[i] = OldRow(h, form[h])
    BY <1>5
  <2>2. db.rows[i] \in [cluster : {h.cluster}, node : {h.node, NoNode}]
    BY <2>1 DEF OldRow
  <2> QED
    BY <2>1, <2>2 DEF RowOwned
<1>7. ASSUME NEW h \in Hosts, NEW i \in OldIds(h), Known(db, i)
      PROVE  i = OldId(h, form[h]) /\ db.rows[i] = OldRow(h, form[h]) /\ form[h] \in {"index", "named", "moved"}
  <2>1. PICK g \in Hosts : /\ form[g] \in {"index", "named", "moved"} /\ i = OldId(g, form[g])
                           /\ i \in IdsOf(g) /\ db.rows[i] = OldRow(g, form[g])
    BY <1>5, <1>7 DEF Known
  <2>2. g = h
    BY <2>1, OldIdIs, IdsApart
  <2> QED
    BY <2>1, <2>2
<1>8. Tame(db)
  <2> SUFFICES ASSUME NEW h \in Hosts
      PROVE  /\ ~ (Known(db, <<"index", h.cluster, Number[h.node]>>) /\ Known(db, <<"named", h.cluster, h.node>>))
             /\ Known(db, <<"moved", h.cluster, h.node>>) => db.rows[<<"moved", h.cluster, h.node>>] = h
    BY DEF Tame
  <2>1. ~ (Known(db, <<"index", h.cluster, Number[h.node]>>) /\ Known(db, <<"named", h.cluster, h.node>>))
    <3>1. <<"index", h.cluster, Number[h.node]>> # <<"named", h.cluster, h.node>>
      OBVIOUS
    <3> QED
      BY <1>7, <3>1 DEF OldIds
  <2>2. ASSUME Known(db, <<"moved", h.cluster, h.node>>)
        PROVE  db.rows[<<"moved", h.cluster, h.node>>] = h
    <3>1. PICK i : i = <<"moved", h.cluster, h.node>>
      OBVIOUS
    <3>2. i = OldId(h, form[h]) /\ db.rows[i] = OldRow(h, form[h]) /\ form[h] \in {"index", "named", "moved"}
      BY <1>7, <2>2, <3>1 DEF OldIds
    <3>3. form[h] = "moved"
      BY <1>2, <3>1, <3>2
    <3>4. OldRow(h, form[h]) = Host(h.cluster, h.node)
      BY <3>3 DEF OldRow, Host
    <3> QED
      BY <3>1, <3>2, <3>4, HostParts
  <2> QED
    BY <2>1, <2>2
<1> QED
  BY <1>6, <1>8 DEF HistInv, Init

LEMMA SettledFrom ==
  ASSUME NEW d, NEW s, Settled(d), s.rows = d.rows
  PROVE  Settled(s)
  BY DEF Settled

LEMMA TameRows ==
  ASSUME NEW d, NEW s, Tame(d), s.rows = d.rows
  PROVE  Tame(s)
  BY TameFrom DEF Known

\* What a synchronisation, a recording and an upsert with a recording do to the
\* tables of a typed operation.
LEMMA PassKeeps ==
  ASSUME NamesDiffer, NEW c \in Clusters, NEW nodes, nodes \in Lists \/ DOMAIN nodes = {},
         NEW ks \in SUBSET DOMAIN nodes, NEW d, Own(d), Tame(d),
         NEW s, \/ nodes \in Lists /\ s = Sync(d, c, nodes)
                \/ nodes \in Lists /\ s = Record(Sync(d, c, nodes), c, nodes, ks)
                \/ nodes \in Lists /\ s = Record(Upsert(d, c, nodes, ks), c, nodes, ks)
                \/ s = Record(d, c, nodes, ks)
  PROVE  Own(s) /\ Tame(s) /\ (Settled(d) => Settled(s))
<1>1. ASSUME NEW x, nodes \in Lists, x = Sync(d, c, nodes)
      PROVE  Own(x) /\ Tame(x) /\ (Settled(d) => Settled(x))
  <2>1. Synced(d, x, c, nodes)
    BY <1>1, SyncIs
  <2>2. Own(x)
    BY <2>1 DEF Synced
  <2>3. Tame(x)
    BY <2>1, SyncedTame
  <2>4. Settled(d) => Settled(x)
    BY <1>1, <2>1, SyncedSettled
  <2> QED
    BY <2>2, <2>3, <2>4
<1>2. ASSUME NEW x, Own(x), Tame(x), NEW y, y = Record(x, c, nodes, ks)
      PROVE  Own(y) /\ Tame(y) /\ (Settled(x) => Settled(y))
  <2>1. y.rows = x.rows
    BY <1>2 DEF Record
  <2>2. Own(y)
    <3>1. CASE nodes \in Lists
      BY <1>2, <3>1, RecordKeeps
    <3>2. CASE DOMAIN nodes = {}
      BY <1>2, <3>2 DEF Record, Own
    <3> QED
      BY <3>1, <3>2
  <2> QED
    BY <1>2, <2>1, <2>2, SettledFrom, TameRows
<1>3. ASSUME NEW x, nodes \in Lists, x = Upsert(d, c, nodes, ks)
      PROVE  Own(x) /\ Tame(x) /\ (Settled(d) => Settled(x))
  BY <1>3, UpsertKeeps
<1>4. CASE nodes \in Lists /\ s = Sync(d, c, nodes)
  BY <1>1, <1>4
<1>5. CASE nodes \in Lists /\ s = Record(Sync(d, c, nodes), c, nodes, ks)
  <2>1. PICK x : x = Sync(d, c, nodes)
    OBVIOUS
  <2> QED
    BY <1>1, <1>2, <1>5, <2>1
<1>6. CASE nodes \in Lists /\ s = Record(Upsert(d, c, nodes, ks), c, nodes, ks)
  <2>1. PICK x : x = Upsert(d, c, nodes, ks)
    OBVIOUS
  <2> QED
    BY <1>2, <1>3, <1>6, <2>1
<1>7. CASE s = Record(d, c, nodes, ks)
  BY <1>2, <1>7
<1> QED
  BY <1>4, <1>5, <1>6, <1>7

\* One step of the program, as far as the tables are concerned.
TablesKept == Own(db') /\ Tame(db') /\ (Settled(db) => Settled(db')) /\ uploads' \subseteq Entries

LEMMA RequestKeeps ==
  ASSUME NamesDiffer, TypeInv, HistInv, Request
  PROVE  TablesKept
<1> USE DEF HistInv
<1>1. ASSUME NEW c \in Clusters, NEW nodes \in Lists, NEW isEdit \in BOOLEAN, PostFile(c, nodes, isEdit)
      PROVE  TablesKept
  BY <1>1 DEF PostFile, TablesKept
<1>2. ASSUME NEW f \in DOMAIN files, NEW nodes \in Lists, PutFile(f, nodes) PROVE TablesKept
  BY <1>2 DEF PutFile, TablesKept
<1>3. ASSUME NEW c \in Clusters, RemoveRows(c) PROVE TablesKept
  <2>1. PICK d, ids, s : /\ d = db /\ s = db'
                         /\ ids = {i \in DOMAIN db.rows : db.rows[i].cluster \in NamesOf(c)}
    OBVIOUS
  <2>2. s = Delete(d, ids) /\ uploads' = uploads
    BY <1>3, <2>1 DEF RemoveRows
  <2>3. Own(s) /\ Tame(s) /\ (Settled(d) => Settled(s))
    BY <2>1, <2>2, DeleteKeeps
  <2> QED
    BY <2>1, <2>2, <2>3 DEF TablesKept
<1>4. ASSUME NEW i \in DOMAIN db.rows, UploadCheck(i) PROVE TablesKept
  <2>1. PICK d, h, u : d = db /\ h = db.rows[i] /\ u = [id |-> i, host |-> h]
    OBVIOUS
  <2>2. h \in Hosts /\ db' = db /\ uploads' = uploads \cup {u}
    BY <1>4, <2>1 DEF UploadCheck
  <2>3. h.node # NoNode
    BY <2>2, HostParts, NodesAreNamed
  <2>4. i \in IdsOf(h)
    BY <2>1, <2>3, OwnerIs
  <2>5. u \in Entries
    BY <2>1, <2>2, <2>4, EntryIs
  <2> QED
    BY <2>2, <2>5 DEF TablesKept
<1>5. ASSUME NEW f \in DOMAIN files, TickLoad(f) PROVE TablesKept
  BY <1>5 DEF TickLoad, TablesKept
<1> QED
  BY <1>1, <1>2, <1>3, <1>4, <1>5 DEF Request

LEMMA StepKeeps ==
  ASSUME NamesDiffer, TypeInv, HistInv, Step
  PROVE  TablesKept
<1> USE DEF HistInv
<1>1. OpsTyped
  BY TypeParts
<1>2. ASSUME NEW o \in ops, NEW ks \in SUBSET DOMAIN o.nodes,
             \/ o.kind # "remove" /\ db' = Sync(db, o.cluster, o.nodes)
             \/ o.kind # "remove" /\ db' = Record(Sync(db, o.cluster, o.nodes), o.cluster, o.nodes, ks)
             \/ o.kind # "remove" /\ db' = Record(Upsert(db, o.cluster, o.nodes, ks), o.cluster, o.nodes, ks)
             \/ db' = Record(db, o.cluster, o.nodes, ks)
      PROVE  Own(db') /\ Tame(db') /\ (Settled(db) => Settled(db'))
  <2>1. PICK d, s, c, nodes : d = db /\ s = db' /\ c = o.cluster /\ nodes = o.nodes
    OBVIOUS
  <2>2. c \in Clusters /\ (nodes \in Lists \/ DOMAIN nodes = {}) /\ (o.kind # "remove" => nodes \in Lists)
    BY <1>1, <2>1, OpTyped
  <2>3. /\ ks \in SUBSET DOMAIN nodes /\ Own(d) /\ Tame(d)
        /\ \/ nodes \in Lists /\ s = Sync(d, c, nodes)
           \/ nodes \in Lists /\ s = Record(Sync(d, c, nodes), c, nodes, ks)
           \/ nodes \in Lists /\ s = Record(Upsert(d, c, nodes, ks), c, nodes, ks)
           \/ s = Record(d, c, nodes, ks)
    BY <1>2, <2>1, <2>2
  <2>4. Own(s) /\ Tame(s) /\ (Settled(d) => Settled(s))
    BY <2>2, <2>3, PassKeeps
  <2> QED
    BY <2>1, <2>4
<1>3. ASSUME NEW o \in ops, PostSync(o) \/ PutSync(o) \/ RemoveFile(o) \/ JobStart(o) \/ TickStart(o)
      PROVE  TablesKept
  <2>1. CASE PostSync(o) \/ PutSync(o)
    <3>1. o.kind # "remove" /\ db' = Sync(db, o.cluster, o.nodes) /\ uploads' = uploads
      BY <2>1 DEF PostSync, PutSync
    <3>2. {} \in SUBSET DOMAIN o.nodes
      OBVIOUS
    <3> QED
      BY <1>2, <3>1, <3>2 DEF TablesKept
  <2>2. CASE RemoveFile(o) \/ JobStart(o) \/ TickStart(o)
    BY <2>2 DEF RemoveFile, JobStart, TickStart, TablesKept
  <2> QED
    BY <1>3, <2>1, <2>2
<1>4. ASSUME NEW o \in ops, NEW ks \in SUBSET DOMAIN o.nodes, JobCommit(o, ks) \/ TickCommit(o, ks)
      PROVE  TablesKept
  <2>1. uploads' = uploads
    BY <1>4 DEF JobCommit, TickCommit
  <2>2. \/ o.kind # "remove" /\ db' = Record(Sync(db, o.cluster, o.nodes), o.cluster, o.nodes, ks)
        \/ o.kind # "remove" /\ db' = Record(Upsert(db, o.cluster, o.nodes, ks), o.cluster, o.nodes, ks)
    BY <1>4 DEF JobCommit, TickCommit
  <2> QED
    BY <1>2, <2>1, <2>2 DEF TablesKept
<1>5. ASSUME NEW o \in ops, NEW k \in DOMAIN o.nodes, HostWrite(o, k) PROVE TablesKept
  <2>1. db' = Record(db, o.cluster, o.nodes, {k}) /\ uploads' = uploads
    BY <1>5 DEF HostWrite
  <2> QED
    BY <1>2, <2>1 DEF TablesKept
<1>6. ASSUME NEW o \in ops, PassEnd(o) PROVE TablesKept
  BY <1>6 DEF PassEnd, TablesKept
<1>7. ASSUME NEW u \in uploads, UploadWrite(u) PROVE TablesKept
  <2>1. db'.rows = db.rows /\ db'.hist = db.hist \cup {u} /\ uploads' = uploads \ {u}
    BY <1>7 DEF UploadWrite
  <2>2. Own(db')
    BY <2>1 DEF Own
  <2>3. PICK d, s : d = db /\ s = db'
    OBVIOUS
  <2>4. Tame(s) /\ (Settled(d) => Settled(s))
    BY <2>1, <2>3, TameRows, SettledFrom
  <2> QED
    BY <2>1, <2>2, <2>3, <2>4 DEF TablesKept
<1>8. ASSUME NEW o \in ops, SyncFails(o) \/ RemoveFails(o) PROVE TablesKept
  BY <1>8 DEF SyncFails, RemoveFails, TablesKept
<1> QED
  BY <1>3, <1>4, <1>5, <1>6, <1>7, <1>8 DEF Step

\* A restart synchronises every cluster that has a file.
LEMMA RestartCleans ==
  ASSUME NamesDiffer, TypeInv, HistInv, Restart
  PROVE  AllClean(db, db')
<1>1. PICK d, s : d = db /\ s = db'
  OBVIOUS
<1>2. s = SyncAll(d)
  BY <1>1 DEF Restart
<1>3. FilesOK /\ \A f \in DOMAIN files : f = Slug[files[f].cluster]
  BY FilesOfTypeInv DEF TypeInv
<1>4. Own(d) /\ Tame(d)
  BY <1>1 DEF HistInv
<1>5. AllClean(d, s)
  BY <1>2, <1>3, <1>4, AllCleanIs
<1> QED
  BY <1>1, <1>5

LEMMA RestartKeeps ==
  ASSUME NamesDiffer, TypeInv, HistInv, Restart
  PROVE  TablesKept
<1>1. AllClean(db, db') /\ uploads' = {}
  BY RestartCleans DEF Restart
<1> QED
  BY <1>1 DEF AllClean, TablesKept

LEMMA NextKeeps ==
  ASSUME NamesDiffer, TypeInv, HistInv, [Next]_vars
  PROVE  TablesKept
<1>1. CASE UNCHANGED vars
  BY <1>1 DEF vars, TablesKept, HistInv
<1> QED
  BY <1>1, RequestKeeps, StepKeeps, RestartKeeps DEF Next

LEMMA HistPreserved ==
  ASSUME NamesDiffer, TypeInv, HistInv, [Next]_vars
  PROVE  HistInv'
  BY NextKeeps DEF TablesKept, HistInv

LEMMA InitStart == ASSUME Init PROVE StartInv
<1> SUFFICES ASSUME NEW i \in DOMAIN db.rows
             PROVE  \E f \in DOMAIN files : files[f].cluster = db.rows[i].cluster
  BY DEF StartInv, Init
<1>1. PICK form : LeftBy(db, form)
  BY SeededIs DEF Init
<1>2. PICK h \in Hosts : h.node \in Declared(h.cluster) /\ db.rows[i] = OldRow(h, form[h])
  BY <1>1 DEF LeftBy
<1>3. \E f \in DOMAIN files : files[f].cluster = h.cluster
  BY <1>2 DEF Declared
<1> QED
  BY <1>2, <1>3 DEF OldRow

\* Nothing but a restart happens before the application has started.
LEMMA OnlyUp ==
  ASSUME StartInv, Request \/ Step
  PROVE  up /\ up' = up
<1>1. CASE Request
  BY <1>1 DEF Request, PostFile, PutFile, RemoveRows, UploadCheck, TickLoad, Begin
<1>2. CASE Step
  <2>1. ops # {} \/ uploads # {}
    BY <1>2 DEF Step
  <2>2. up' = up
    BY <1>2 DEF Step, PostSync, PutSync, SyncFails, RemoveFile, RemoveFails, JobStart, TickStart,
                JobCommit, TickCommit, HostWrite, PassEnd, UploadWrite
  <2> QED
    BY <2>1, <2>2 DEF StartInv
<1> QED
  BY <1>1, <1>2

LEMMA RestartSettles ==
  ASSUME NamesDiffer, TypeInv, HistInv, StartInv, Restart
  PROVE  Settled(db')
<1>1. PICK d, s : d = db /\ s = db'
  OBVIOUS
<1>2. AllClean(d, s)
  BY <1>1, RestartCleans
<1>3. CASE up
  BY <1>1, <1>2, <1>3 DEF StartInv, AllClean
<1>4. CASE ~ up
  <2> SUFFICES ASSUME NEW i \in DOMAIN s.rows
               PROVE  s.rows[i] \in Hosts /\ i = Stable(s.rows[i].cluster, s.rows[i].node)
    BY <1>1 DEF Settled
  <2>1. \E f \in DOMAIN files : files[f].cluster = s.rows[i].cluster
    <3> SUFFICES ASSUME \A f \in DOMAIN files : files[f].cluster # s.rows[i].cluster PROVE FALSE
      OBVIOUS
    <3>1. i \in DOMAIN d.rows /\ s.rows[i] = d.rows[i]
      BY <1>2 DEF AllClean
    <3> QED
      BY <1>1, <1>4, <3>1 DEF StartInv
  <2>2. PICK f \in DOMAIN files : files[f].cluster = s.rows[i].cluster
    BY <2>1
  <2>3. PICK c, nodes : c = files[f].cluster /\ nodes = files[f].nodes
    OBVIOUS
  <2>4. c \in Clusters /\ nodes \in Lists
    BY <2>3, FilesOfTypeInv DEF FilesOK
  <2>5. Clean(s, c, nodes)
    BY <1>2, <2>3 DEF AllClean
  <2> QED
    BY <2>2, <2>3, <2>4, <2>5, CleanRow
<1> QED
  BY <1>3, <1>4

LEMMA StartPreserved ==
  ASSUME NamesDiffer, TypeInv, HistInv, StartInv, [Next]_vars
  PROVE  StartInv'
<1>1. CASE UNCHANGED vars
  BY <1>1 DEF vars, StartInv, Settled
<1>2. CASE Request \/ Step
  BY <1>2, OnlyUp, NextKeeps DEF TablesKept, StartInv
<1>3. CASE Restart
  BY <1>3, RestartSettles DEF Restart, StartInv
<1> QED
  BY <1>1, <1>2, <1>3 DEF Next

TableInv == TypeInv /\ HistInv /\ StartInv

LEMMA TablesInvariant == NamesDiffer => (Spec => []TableInv)
<1> SUFFICES ASSUME NamesDiffer PROVE Spec => []TableInv
  OBVIOUS
<1>1. Init => TableInv
  BY InitTyped, InitHist, InitStart DEF TableInv
<1>2. TableInv /\ [Next]_vars => TableInv'
  BY TypePreserved, HistPreserved, StartPreserved DEF TableInv
<1> QED
  BY <1>1, <1>2, PTL DEF Spec

\* What is stored under a row that names its node was measured on that host, where
\* the names of nodes stay different as ids, whatever edits, removals, migrations,
\* uploads and passes with older lists came before.
THEOREM HistoryIsOwn == NamesDiffer => (Spec => []OwnHistory)
<1>1. ASSUME NamesDiffer, TableInv PROVE OwnHistory
  <2> SUFFICES ASSUME NEW e \in db.hist, Known(db, e.id), db.rows[e.id].node # NoNode
               PROVE  db.rows[e.id] = e.host
    BY DEF OwnHistory
  <2>1. e.host \in Hosts /\ e.id \in IdsOf(e.host)
    BY <1>1, EntryIs DEF TableInv, HistInv, Own
  <2>2. PICK d, i : d = db /\ i = e.id
    OBVIOUS
  <2>3. Own(d) /\ i \in DOMAIN d.rows /\ d.rows[i].node # NoNode
    BY <1>1, <2>2 DEF TableInv, HistInv, Known
  <2>4. d.rows[i] \in Hosts /\ i \in IdsOf(d.rows[i])
    BY <2>3, OwnerIs
  <2> QED
    BY <1>1, <2>1, <2>2, <2>4, IdsApart
<1> SUFFICES ASSUME NamesDiffer PROVE Spec => []OwnHistory
  OBVIOUS
<1>2. TableInv => OwnHistory
  BY <1>1
<1> QED
  BY <1>2, TablesInvariant, PTL

\* No host has two rows once the application has started, where the names of nodes
\* stay different as ids: every older row was merged and no pass adds another.
THEOREM HostsAppearOnce == NamesDiffer => (Spec => []OneRowPerHost)
<1> SUFFICES ASSUME NamesDiffer PROVE Spec => []OneRowPerHost
  OBVIOUS
<1>1. TableInv => OneRowPerHost
  BY DEF TableInv, StartInv, Settled, OneRowPerHost
<1> QED
  BY <1>1, TablesInvariant, PTL

-----------------------------------------------------------------------------
(* Which hosts a cluster has *)

\* Each cluster has at most the one file of its slug.
OwnFiles(fs) == \A f \in DOMAIN fs : fs[f].cluster \in Clusters /\ f = Slug[fs[f].cluster]

DeclaredBy(fs, c) == UNION {Range(fs[f].nodes) : f \in {g \in DOMAIN fs : fs[g].cluster = c}}

LEMMA FilesAreOwn == ASSUME TypeInv PROVE OwnFiles(files)
  BY DEF TypeInv, TypeOK, OwnFiles

LEMMA DeclaredIs ==
  ASSUME SlugsDiffer, NEW fs, OwnFiles(fs), NEW c \in Clusters
  PROVE  /\ Slug[c] \in DOMAIN fs => fs[Slug[c]].cluster = c /\ DeclaredBy(fs, c) = Range(fs[Slug[c]].nodes)
         /\ Slug[c] \notin DOMAIN fs => DeclaredBy(fs, c) = {} /\ \A f \in DOMAIN fs : fs[f].cluster # c
<1>1. \A f \in DOMAIN fs : fs[f].cluster = c => f = Slug[c]
  BY DEF OwnFiles
<1>2. CASE Slug[c] \in DOMAIN fs
  <2>1. fs[Slug[c]].cluster \in Clusters /\ Slug[c] = Slug[fs[Slug[c]].cluster]
    BY <1>2 DEF OwnFiles
  <2>2. fs[Slug[c]].cluster = c
    BY <2>1 DEF SlugsDiffer
  <2>3. {g \in DOMAIN fs : fs[g].cluster = c} = {Slug[c]}
    BY <1>1, <1>2, <2>2
  <2>4. DeclaredBy(fs, c) = UNION {Range(fs[f].nodes) : f \in {Slug[c]}}
    BY <2>3 DEF DeclaredBy
  <2>5. DeclaredBy(fs, c) = Range(fs[Slug[c]].nodes)
    BY <2>4
  <2> QED
    BY <1>2, <2>2, <2>5
<1>3. CASE Slug[c] \notin DOMAIN fs
  <2>1. {g \in DOMAIN fs : fs[g].cluster = c} = {}
    BY <1>1, <1>3
  <2>2. DeclaredBy(fs, c) = UNION {Range(fs[f].nodes) : f \in {}}
    BY <2>1 DEF DeclaredBy
  <2> QED
    BY <1>1, <1>3, <2>2
<1> QED
  BY <1>2, <1>3

\* Nothing a cluster's own view depends on changes.
FileSame(c) ==
  /\ Slug[c] \in DOMAIN files <=> Slug[c] \in DOMAIN files'
  /\ Slug[c] \in DOMAIN files => files'[Slug[c]] = files[Slug[c]]

EditsSame(c) == \A o : o.kind \in Edits => (o \in OpsOf(c)' <=> o \in OpsOf(c))

Unaffected(c) == EditsSame(c) /\ FileSame(c) /\ NodesOf(db', c) = NodesOf(db, c)

LEMMA DeclaredNow == ASSUME NEW c PROVE Declared(c) = DeclaredBy(files, c) /\ Declared(c)' = DeclaredBy(files', c)
  BY DEF Declared, DeclaredBy

LEMMA DeclaredSame ==
  ASSUME SlugsDiffer, OwnFiles(files), OwnFiles(files'), NEW c \in Clusters, FileSame(c)
  PROVE  Declared(c)' = Declared(c)
<1>1. PICK fs, gs : fs = files /\ gs = files'
  OBVIOUS
<1>2. /\ Slug[c] \in DOMAIN fs => DeclaredBy(fs, c) = Range(fs[Slug[c]].nodes)
      /\ Slug[c] \notin DOMAIN fs => DeclaredBy(fs, c) = {}
  BY <1>1, DeclaredIs
<1>3. /\ Slug[c] \in DOMAIN gs => DeclaredBy(gs, c) = Range(gs[Slug[c]].nodes)
      /\ Slug[c] \notin DOMAIN gs => DeclaredBy(gs, c) = {}
  BY <1>1, DeclaredIs
<1> QED
  BY <1>1, <1>2, <1>3, DeclaredNow DEF FileSame

\* The list of an operation is its file's.
LEMMA CurrentIs ==
  ASSUME OwnFiles(files), NEW o
  PROVE  IsCurrent(o) <=> /\ Slug[o.cluster] \in DOMAIN files
                          /\ files[Slug[o.cluster]] = [cluster |-> o.cluster, nodes |-> o.nodes]
<1>1. ASSUME NEW f \in DOMAIN files, files[f] = [cluster |-> o.cluster, nodes |-> o.nodes]
      PROVE  f = Slug[o.cluster]
  <2>1. files[f].cluster = o.cluster
    BY <1>1
  <2> QED
    BY <2>1 DEF OwnFiles
<1> QED
  BY <1>1 DEF IsCurrent

LEMMA CurrentDeclares ==
  ASSUME SlugsDiffer, OwnFiles(files), NEW o, o.cluster \in Clusters, IsCurrent(o)
  PROVE  Range(o.nodes) = Declared(o.cluster)
<1>1. PICK c, fs : c = o.cluster /\ fs = files
  OBVIOUS
<1>2. Slug[o.cluster] \in DOMAIN files /\ files[Slug[o.cluster]] = [cluster |-> o.cluster, nodes |-> o.nodes]
  BY CurrentIs
<1>3. Slug[c] \in DOMAIN fs /\ fs[Slug[c]].nodes = o.nodes
  BY <1>1, <1>2
<1>4. DeclaredBy(fs, c) = Range(fs[Slug[c]].nodes)
  BY <1>1, <1>3, DeclaredIs
<1> QED
  BY <1>1, <1>3, <1>4, DeclaredNow

LEMMA CurrentStays ==
  ASSUME OwnFiles(files), OwnFiles(files'), NEW o, FileSame(o.cluster)
  PROVE  IsCurrent(o)' <=> IsCurrent(o)
<1>1. ASSUME IsCurrent(o) PROVE IsCurrent(o)'
  BY <1>1, CurrentIs DEF FileSame, IsCurrent
<1>2. ASSUME IsCurrent(o)' PROVE IsCurrent(o)
  <2>1. PICK f \in DOMAIN files' : files'[f] = [cluster |-> o.cluster, nodes |-> o.nodes]
    BY <1>2 DEF IsCurrent
  <2>2. files'[f].cluster = o.cluster
    BY <2>1
  <2>3. f = Slug[o.cluster]
    BY <2>1, <2>2 DEF OwnFiles
  <2> QED
    BY <2>1, <2>3 DEF FileSame, IsCurrent
<1> QED
  BY <1>1, <1>2

\* Of a cluster whose file and edits stay, nothing that its view asks changes.
LEMMA ViewStays ==
  ASSUME OwnFiles(files), OwnFiles(files'), NEW c, FileSame(c), EditsSame(c)
  PROVE  (Removing(c)' <=> Removing(c)) /\ (Pending(c)' <=> Pending(c))
<1>1. Removing(c)' <=> Removing(c)
  BY DEF Removing, EditsSame, Edits
<1>2. ASSUME NEW o, o.kind \in {"post", "put"}
      PROVE  (o \in OpsOf(c)' /\ IsCurrent(o)') <=> (o \in OpsOf(c) /\ IsCurrent(o))
  <2>1. o \in OpsOf(c)' <=> o \in OpsOf(c)
    BY <1>2 DEF EditsSame, Edits
  <2>2. o \in OpsOf(c) => o.cluster = c
    BY DEF OpsOf
  <2>3. o.cluster = c => (IsCurrent(o)' <=> IsCurrent(o))
    BY CurrentStays
  <2> QED
    BY <2>1, <2>2, <2>3
<1> QED
  BY <1>1, <1>2 DEF Pending

LEMMA UnaffectedFollows ==
  ASSUME SlugsDiffer, OwnFiles(files), OwnFiles(files'), NEW c \in Clusters, Follows(c), Unaffected(c)
  PROVE  Follows(c)'
<1>1. Declared(c)' = Declared(c)
  BY DeclaredSame DEF Unaffected
<1>2. (Removing(c)' <=> Removing(c)) /\ (Pending(c)' <=> Pending(c))
  BY ViewStays DEF Unaffected
<1> QED
  BY <1>1, <1>2 DEF Follows, Unaffected

LEMMA NodeIs ==
  ASSUME NEW d, NEW c, NEW n
  PROVE  n \in NodesOf(d, c) <=> \E i \in DOMAIN d.rows : d.rows[i].cluster = c /\ d.rows[i].node = n
  BY DEF NodesOf

LEMMA NodesOfRows ==
  ASSUME NEW d, NEW s, s.rows = d.rows, NEW c
  PROVE  NodesOf(s, c) = NodesOf(d, c)
  BY DEF NodesOf

LEMMA NodesOfClean ==
  ASSUME NEW d, NEW c, NEW nodes, Clean(d, c, nodes)
  PROVE  NodesOf(d, c) = Range(nodes)
<1>1. ASSUME NEW n \in NodesOf(d, c) PROVE n \in Range(nodes)
  BY NodeIs DEF Clean
<1>2. ASSUME NEW n \in Range(nodes) PROVE n \in NodesOf(d, c)
  <2>1. Stable(c, n) \in DOMAIN d.rows /\ d.rows[Stable(c, n)] = Host(c, n)
    BY DEF Clean, Known
  <2>2. Host(c, n).cluster = c /\ Host(c, n).node = n
    BY DEF Host
  <2> QED
    BY <2>1, <2>2, NodeIs
<1> QED
  BY <1>1, <1>2

LEMMA NodesElsewhere ==
  ASSUME NEW d, NEW s, NEW c,
         \A i \in DOMAIN s.rows : s.rows[i].cluster = c => i \in DOMAIN d.rows /\ s.rows[i] = d.rows[i],
         \A i \in DOMAIN d.rows : d.rows[i].cluster = c => i \in DOMAIN s.rows /\ s.rows[i] = d.rows[i]
  PROVE  NodesOf(s, c) = NodesOf(d, c)
<1>1. ASSUME NEW n PROVE n \in NodesOf(s, c) <=> n \in NodesOf(d, c)
  BY NodeIs
<1> QED
  BY <1>1

LEMMA NodesOfSynced ==
  ASSUME NEW d, NEW s, NEW c, NEW nodes, Synced(d, s, c, nodes)
  PROVE  NodesOf(s, c) = Range(nodes) /\ \A b : b # c => NodesOf(s, b) = NodesOf(d, b)
<1>1. NodesOf(s, c) = Range(nodes)
  BY SyncedClean, NodesOfClean
<1>2. ASSUME NEW b, b # c PROVE NodesOf(s, b) = NodesOf(d, b)
  <2>1. \A i \in DOMAIN s.rows : s.rows[i].cluster = b => i \in DOMAIN d.rows /\ s.rows[i] = d.rows[i]
    BY <1>2 DEF Synced
  <2>2. \A i \in DOMAIN d.rows : d.rows[i].cluster = b => i \in DOMAIN s.rows /\ s.rows[i] = d.rows[i]
    BY <1>2 DEF Synced
  <2> QED
    BY <2>1, <2>2, NodesElsewhere
<1> QED
  BY <1>1, <1>2

\* A scheduled pass changes no row that is there, and with the list that the rows
\* follow adds none.
Added(d, s, c, nodes) ==
  /\ \A i \in DOMAIN d.rows : i \in DOMAIN s.rows /\ s.rows[i] = d.rows[i]
  /\ \A i \in DOMAIN s.rows :
       i \in DOMAIN d.rows \/ (s.rows[i].cluster = c /\ s.rows[i].node \in Range(nodes))

LEMMA UpsertAdds ==
  ASSUME NamesDiffer, NEW c \in Clusters, NEW nodes \in Lists, NEW ks \in SUBSET DOMAIN nodes,
         NEW d, Settled(d), NEW s, s = Upsert(d, c, nodes, ks)
  PROVE  Added(d, s, c, nodes)
<1>1. /\ DOMAIN d.rows \subseteq DOMAIN s.rows
      /\ \A i \in DOMAIN s.rows :
           \/ \E n \in Range(nodes) : i = Stable(c, n) /\ s.rows[i] = Host(c, n)
           \/ i \in DOMAIN d.rows /\ s.rows[i] = d.rows[i]
  <2>1. Extended(d, s, c, nodes)
    BY UpsertKeeps
  <2> QED
    BY <2>1 DEF Extended
<1>2. \A n : Host(c, n).cluster = c /\ Host(c, n).node = n
  BY DEF Host
<1>3. \A n \in Range(nodes) : n \in Nodes
  BY ListIs DEF Range
<1>4. ASSUME NEW i \in DOMAIN d.rows PROVE i \in DOMAIN s.rows /\ s.rows[i] = d.rows[i]
  <2>1. CASE i \in DOMAIN d.rows /\ s.rows[i] = d.rows[i]
    BY <1>1, <2>1
  <2>2. ASSUME NEW n \in Range(nodes), i = Stable(c, n) /\ s.rows[i] = Host(c, n)
        PROVE  i \in DOMAIN s.rows /\ s.rows[i] = d.rows[i]
    <3>1. PICK g, h : g = d.rows[i] /\ h = Host(c, n)
      OBVIOUS
    <3>2. g \in Hosts /\ i = Stable(g.cluster, g.node)
      BY <3>1 DEF Settled
    <3>3. h \in Hosts /\ i = Stable(h.cluster, h.node)
      BY <1>3, <2>2, <3>1, HostParts
    <3>4. g = h
      BY <3>2, <3>3, StableIs, IdsApart
    <3> QED
      BY <1>1, <2>2, <3>1, <3>4
  <2> QED
    BY <1>1, <2>1, <2>2
<1>5. \A i \in DOMAIN s.rows :
        i \in DOMAIN d.rows \/ (s.rows[i].cluster = c /\ s.rows[i].node \in Range(nodes))
  BY <1>1, <1>2
<1> QED
  BY <1>4, <1>5 DEF Added

LEMMA NodesOfAdded ==
  ASSUME NEW d, NEW s, NEW c, NEW nodes, Added(d, s, c, nodes)
  PROVE  /\ \A b : b # c => NodesOf(s, b) = NodesOf(d, b)
         /\ NodesOf(d, c) = Range(nodes) => NodesOf(s, c) = NodesOf(d, c)
<1>1. \A i \in DOMAIN d.rows : i \in DOMAIN s.rows /\ s.rows[i] = d.rows[i]
  BY DEF Added
<1>2. ASSUME NEW b, b # c PROVE NodesOf(s, b) = NodesOf(d, b)
  <2>1. \A i \in DOMAIN s.rows : s.rows[i].cluster = b => i \in DOMAIN d.rows /\ s.rows[i] = d.rows[i]
    BY <1>1, <1>2 DEF Added
  <2> QED
    BY <1>1, <2>1, NodesElsewhere
<1>3. ASSUME NodesOf(d, c) = Range(nodes) PROVE NodesOf(s, c) = NodesOf(d, c)
  <2>1. ASSUME NEW n \in NodesOf(s, c) PROVE n \in NodesOf(d, c)
    <3>1. PICK i \in DOMAIN s.rows : s.rows[i].cluster = c /\ s.rows[i].node = n
      BY <2>1, NodeIs
    <3>2. CASE i \in DOMAIN d.rows
      BY <1>1, <3>1, <3>2, NodeIs
    <3>3. CASE i \notin DOMAIN d.rows
      BY <1>3, <3>1, <3>3 DEF Added
    <3> QED
      BY <3>2, <3>3
  <2>2. ASSUME NEW n \in NodesOf(d, c) PROVE n \in NodesOf(s, c)
    BY <1>1, <2>2, NodeIs
  <2> QED
    BY <2>1, <2>2
<1> QED
  BY <1>2, <1>3

-----------------------------------------------------------------------------
(* Operations in flight *)

LEMMA OpIs == ASSUME NEW c, NEW o PROVE o \in OpsOf(c) <=> o \in ops /\ o.cluster = c
  BY DEF OpsOf

\* An operation that begins leaves those on other clusters alone.
LEMMA BeginIs ==
  ASSUME NEW o, Begin(o)
  PROVE  /\ \A c : c # o.cluster => OpsOf(c)' = OpsOf(c)
         /\ OpsOf(o.cluster)' = OpsOf(o.cluster) \cup {o}
  BY DEF Begin, OpsOf

LEMMA GoIs ==
  ASSUME NEW o \in ops, OpsTyped, NEW stage, Go(o, stage)
  PROVE  \E p : /\ p.kind = o.kind /\ p.cluster = o.cluster /\ p.nodes = o.nodes
                /\ ops' = (ops \ {o}) \cup {p}
<1>1. o = [kind |-> o.kind, cluster |-> o.cluster, nodes |-> o.nodes, stage |-> o.stage]
  BY DEF OpsTyped, OpRecord
<1>2. PICK p : p = [o EXCEPT !.stage = stage]
  OBVIOUS
<1>3. p.kind = o.kind /\ p.cluster = o.cluster /\ p.nodes = o.nodes
  BY <1>1, <1>2
<1> QED
  BY <1>2, <1>3 DEF Go

-----------------------------------------------------------------------------
(* The instances of a cluster follow its file *)

LEMMA FollowsWas ==
  ASSUME FollowInv, up, NEW c \in Clusters, c \notin drifted
  PROVE  Follows(c)
  BY DEF FollowInv

\* A cluster whose edit has its file's list, or is being removed with no row left,
\* is as it should be.
LEMMA EditFollows ==
  ASSUME NEW c \in Clusters, NEW o, o.kind \in {"post", "put"}, o \in OpsOf(c)', IsCurrent(o)',
         Removing(c)' => NodesOf(db', c) = {}
  PROVE  Follows(c)'
<1>1. Pending(c)'
  BY DEF Pending
<1> QED
  BY <1>1 DEF Follows

LEMMA RequestFollows ==
  ASSUME NamesDiffer, SlugsDiffer, IInv, OwnFiles(files'), Request, NEW c \in Clusters, c \notin drifted'
  PROVE  Follows(c)'
<1>1. up /\ OwnFiles(files) /\ Own(db)
  BY OnlyUp, FilesAreOwn DEF IInv, HistInv
<1>2. c \notin drifted => Follows(c)
  BY <1>1, FollowsWas DEF IInv
<1>3. Follows(c) /\ Unaffected(c) => Follows(c)'
  BY <1>1, UnaffectedFollows
<1>4. ASSUME NEW b \in Clusters, NEW nodes \in Lists, NEW isEdit \in BOOLEAN, PostFile(b, nodes, isEdit)
      PROVE  Follows(c)'
  <2>1. PICK o : o = Op("post", b, nodes, "sync")
    OBVIOUS
  <2>2. Begin(o) /\ o.kind = "post" /\ o.cluster = b /\ o.nodes = nodes /\ db' = db /\ drifted' = drifted
    BY <1>4, <2>1 DEF PostFile, Op
  <2>3. files' = [f \in DOMAIN files \cup {Slug[b]} |->
                    IF f = Slug[b] THEN [cluster |-> b, nodes |-> nodes] ELSE files[f]]
    BY <1>4 DEF PostFile
  <2>4. CASE c = b
    <3>1. OpsOf(c)' = OpsOf(c) \cup {o} /\ Follows(c)
      BY <1>2, <2>2, <2>4, BeginIs
    <3>2. IsCurrent(o)'
      BY <2>2, <2>3 DEF IsCurrent
    <3>3. Removing(c)' => NodesOf(db', c) = {}
      BY <2>2, <3>1 DEF Removing, Follows
    <3> QED
      BY <2>2, <3>1, <3>2, <3>3, EditFollows
  <2>5. CASE c # b
    <3>1. EditsSame(c)
      BY <2>2, <2>5, BeginIs DEF EditsSame
    <3>2. Slug[c] # Slug[b]
      BY <2>5 DEF SlugsDiffer
    <3>3. FileSame(c)
      BY <2>3, <3>2 DEF FileSame
    <3> QED
      BY <1>2, <1>3, <2>2, <3>1, <3>3 DEF Unaffected
  <2> QED
    BY <2>4, <2>5
<1>5. ASSUME NEW f \in DOMAIN files, NEW nodes \in Lists, PutFile(f, nodes) PROVE Follows(c)'
  <2>1. PICK o, b : b = files[f].cluster /\ o = Op("put", b, nodes, "sync")
    OBVIOUS
  <2>2. /\ Begin(o) /\ o.kind = "put" /\ o.cluster = b /\ o.nodes = nodes /\ db' = db /\ drifted' = drifted
        /\ b \in Clusters /\ f = Slug[b]
    BY <1>1, <1>5, <2>1 DEF PutFile, Op, OwnFiles
  <2>3. files' = [files EXCEPT ![f].nodes = nodes]
    BY <1>5 DEF PutFile
  <2>4. CASE c = b
    <3>1. OpsOf(c)' = OpsOf(c) \cup {o} /\ Follows(c)
      BY <1>2, <2>2, <2>4, BeginIs
    <3>2. files[f] \in [cluster : Clusters, nodes : Lists]
      BY DEF IInv, TypeInv, TypeOK
    <3>3. f \in DOMAIN files' /\ files'[f] = [cluster |-> b, nodes |-> nodes]
      BY <2>1, <2>3, <3>2
    <3>4. IsCurrent(o)'
      BY <2>2, <3>3 DEF IsCurrent
    <3>5. Removing(c)' => NodesOf(db', c) = {}
      BY <2>2, <3>1 DEF Removing, Follows
    <3> QED
      BY <2>2, <3>1, <3>4, <3>5, EditFollows
  <2>5. CASE c # b
    <3>1. EditsSame(c)
      BY <2>2, <2>5, BeginIs DEF EditsSame
    <3>2. Slug[c] # Slug[b]
      BY <2>2, <2>5 DEF SlugsDiffer
    <3>3. FileSame(c)
      BY <2>2, <2>3, <3>2 DEF FileSame
    <3> QED
      BY <1>2, <1>3, <2>2, <3>1, <3>3 DEF Unaffected
  <2> QED
    BY <2>4, <2>5
<1>6. ASSUME NEW b \in Clusters, RemoveRows(b) PROVE Follows(c)'
  <2>1. PICK o : o = Op("remove", b, << >>, "file")
    OBVIOUS
  <2>2. Begin(o) /\ o.kind = "remove" /\ o.cluster = b /\ files' = files /\ drifted' = drifted \ {b}
    BY <1>6, <2>1 DEF RemoveRows, Op, Settles
  <2>3. PICK d, s, ids : d = db /\ s = db' /\ ids = {i \in DOMAIN d.rows : d.rows[i].cluster \in NamesOf(b)}
    OBVIOUS
  <2>4. s = Delete(d, ids)
    BY <1>6, <2>3 DEF RemoveRows
  <2>5. /\ \A i : i \in DOMAIN s.rows <=> i \in DOMAIN d.rows /\ i \notin ids
        /\ \A i \in DOMAIN s.rows : s.rows[i] = d.rows[i]
    BY <2>4, DeleteKeeps
  <2>6. CASE c = b
    <3>1. o \in OpsOf(c)'
      BY <2>2, <2>6, BeginIs
    <3>2. c \in NamesOf(b)
      BY <2>6 DEF NamesOf
    <3>3. NodesOf(s, c) = {}
      <4> SUFFICES ASSUME NEW n \in NodesOf(s, c) PROVE FALSE
        OBVIOUS
      <4>1. PICK i \in DOMAIN s.rows : s.rows[i].cluster = c
        BY NodeIs
      <4> QED
        BY <2>3, <2>5, <3>2, <4>1
    <3>4. Removing(c)'
      BY <2>2, <3>1 DEF Removing
    <3> QED
      BY <2>3, <3>3, <3>4 DEF Follows
  <2>7. CASE c # b
    <3>1. EditsSame(c) /\ c \notin drifted
      BY <2>2, <2>7, BeginIs DEF EditsSame
    <3>2. c \notin NamesOf(b)
      <4>1. c # b /\ c # Slug[b]
        BY <2>7 DEF SlugsDiffer
      <4>2. ASSUME NEW f \in DOMAIN files \cap {b, Slug[b]}, files[f].cluster = c PROVE FALSE
        <5>1. f = Slug[c]
          BY <1>1, <4>2 DEF OwnFiles
        <5> QED
          BY <2>7, <4>2, <5>1 DEF SlugsDiffer
      <4> QED
        BY <4>1, <4>2 DEF NamesOf
    <3>3. /\ \A i \in DOMAIN s.rows : s.rows[i].cluster = c => i \in DOMAIN d.rows /\ s.rows[i] = d.rows[i]
          /\ \A i \in DOMAIN d.rows : d.rows[i].cluster = c => i \in DOMAIN s.rows /\ s.rows[i] = d.rows[i]
      BY <2>3, <2>5, <3>2
    <3>4. NodesOf(s, c) = NodesOf(d, c)
      BY <3>3, NodesElsewhere
    <3> QED
      BY <1>2, <1>3, <2>2, <2>3, <3>1, <3>4 DEF Unaffected, FileSame
  <2> QED
    BY <2>6, <2>7
<1>7. ASSUME NEW i \in DOMAIN db.rows, UploadCheck(i) PROVE Follows(c)'
  <2>1. UNCHANGED <<files, db, ops, drifted>>
    BY <1>7 DEF UploadCheck
  <2> QED
    BY <1>2, <1>3, <2>1 DEF Unaffected, FileSame, EditsSame, OpsOf
<1>8. ASSUME NEW f \in DOMAIN files, TickLoad(f) PROVE Follows(c)'
  <2>1. PICK o, b : b = files[f].cluster /\ o = Op("tick", b, files[f].nodes, "loaded")
    OBVIOUS
  <2>2. Begin(o) /\ o.kind = "tick" /\ o.cluster = b /\ UNCHANGED <<db, files, drifted>>
    BY <1>8, <2>1 DEF TickLoad, Op
  <2>3. EditsSame(c)
    BY <2>2, BeginIs DEF EditsSame, Edits
  <2> QED
    BY <1>2, <1>3, <2>2, <2>3 DEF Unaffected, FileSame
<1> QED
  BY <1>4, <1>5, <1>6, <1>7, <1>8 DEF Request

\* An operation that goes on or ends leaves the edits of other clusters alone, and
\* one that is no edit leaves those of its own.
LEMMA GoingOn ==
  ASSUME NEW o \in ops, NEW new, \A p \in new : p.cluster = o.cluster /\ p.kind \notin Edits,
         ops' = (ops \ {o}) \cup new, NEW c, c # o.cluster \/ o.kind \notin Edits
  PROVE  EditsSame(c)
<1> SUFFICES ASSUME NEW p, p.kind \in Edits PROVE p \in OpsOf(c)' <=> p \in OpsOf(c)
  BY DEF EditsSame
<1>1. p \notin new
  OBVIOUS
<1>2. p \in ops' <=> p \in ops /\ p # o
  BY <1>1
<1>3. p.cluster = c => p # o
  OBVIOUS
<1> QED
  BY <1>2, <1>3 DEF OpsOf

\* The transaction of a sync leaves a cluster that has not drifted with the list of
\* its file, and other clusters as they were.
LEMMA SyncFollows ==
  ASSUME NamesDiffer, SlugsDiffer, IInv, up, OwnFiles(files'), NEW o \in ops, o.kind # "remove",
         NEW new, \A p \in new : p.cluster = o.cluster /\ p.kind \notin Edits,
         NEW x, x = Sync(db, o.cluster, o.nodes), db'.rows = x.rows,
         ops' = (ops \ {o}) \cup new, files' = files, Writes(o), NEW c \in Clusters, c \notin drifted'
  PROVE  Follows(c)'
<1>1. PICK d, s, b, nodes : d = db /\ s = db' /\ b = o.cluster /\ nodes = o.nodes
  OBVIOUS
<1>2. OwnFiles(files) /\ Own(d) /\ OpsTyped
  BY <1>1, FilesAreOwn, TypeParts DEF IInv, HistInv
<1>3. b \in Clusters /\ nodes \in Lists
  BY <1>1, <1>2, OpTyped
<1>4. Synced(d, x, b, nodes)
  BY <1>1, <1>2, <1>3, SyncIs
<1>5. NodesOf(x, b) = Range(nodes) /\ (c # b => NodesOf(x, c) = NodesOf(d, c))
  BY <1>4, NodesOfSynced
<1>6. NodesOf(s, c) = NodesOf(x, c)
  BY <1>1, NodesOfRows
<1>7. CASE c = b
  <2>1. IsCurrent(o) /\ ~ Removing(c)
    BY <1>1, <1>7 DEF Writes, Drifts
  <2>2. Range(nodes) = Declared(c)
    BY <1>1, <1>2, <1>3, <1>7, <2>1, CurrentDeclares
  <2>3. Declared(c)' = Declared(c)
    BY DEF Declared
  <2>4. ~ Removing(c)'
    BY <2>1 DEF Removing, OpsOf, Edits
  <2> QED
    BY <1>1, <1>5, <1>6, <1>7, <2>2, <2>3, <2>4 DEF Follows
<1>8. CASE c # b
  <2>1. c \notin drifted
    BY <1>1, <1>8 DEF Writes, Drifts, Settles
  <2>2. Follows(c)
    BY <2>1, FollowsWas DEF IInv
  <2>3. EditsSame(c)
    BY <1>1, <1>8, GoingOn
  <2> QED
    BY <1>1, <1>2, <1>5, <1>6, <1>8, <2>2, <2>3, UnaffectedFollows DEF Unaffected, FileSame
<1> QED
  BY <1>7, <1>8

\* The rows a scheduled pass writes are of the list that a cluster that has not
\* drifted has.
LEMMA TickFollows ==
  ASSUME NamesDiffer, SlugsDiffer, IInv, up, OwnFiles(files'), NEW o \in ops, NEW ks \in SUBSET DOMAIN o.nodes,
         TickCommit(o, ks), NEW c \in Clusters, c \notin drifted'
  PROVE  Follows(c)'
<1>1. PICK d, s, b, nodes, x : d = db /\ s = db' /\ b = o.cluster /\ nodes = o.nodes /\ x = Upsert(d, b, nodes, ks)
  OBVIOUS
<1>2. OwnFiles(files) /\ Settled(d) /\ OpsTyped
  BY <1>1, FilesAreOwn, TypeParts DEF IInv, StartInv
<1>3. o.kind = "tick" /\ Go(o, "hosts") /\ files' = files
  BY DEF TickCommit
<1>4. b \in Clusters /\ nodes \in Lists /\ ks \in SUBSET DOMAIN nodes
  BY <1>1, <1>2, <1>3, OpTyped
<1>5. Added(d, x, b, nodes)
  BY <1>1, <1>2, <1>4, UpsertAdds
<1>6. /\ c # b => NodesOf(x, c) = NodesOf(d, c)
      /\ NodesOf(d, b) = Range(nodes) => NodesOf(x, b) = NodesOf(d, b)
  BY <1>5, NodesOfAdded
<1>7. s.rows = x.rows
  BY <1>1 DEF TickCommit, Record
<1>8. NodesOf(s, c) = NodesOf(x, c)
  BY <1>7, NodesOfRows
<1>9. c \notin drifted
  BY DEF TickCommit, Drifts
<1>10. Follows(c)
  BY <1>9, FollowsWas DEF IInv
<1>11. PICK p : /\ p.kind = o.kind /\ p.cluster = o.cluster /\ p.nodes = o.nodes
                /\ ops' = (ops \ {o}) \cup {p}
  BY <1>2, <1>3, GoIs
<1>12. EditsSame(c)
  <2>1. PICK new : new = {p}
    OBVIOUS
  <2>2. \A q \in new : q.cluster = o.cluster /\ q.kind \notin Edits
    BY <1>3, <1>11, <2>1 DEF Edits
  <2>3. o.kind \notin Edits
    BY <1>3 DEF Edits
  <2> QED
    BY <1>11, <2>1, <2>2, <2>3, GoingOn
<1>13. FileSame(c)
  BY <1>3 DEF FileSame
<1>14. CASE c = b
  <2>1. IsCurrent(o) /\ ~ Removing(c)
    BY <1>1, <1>14 DEF TickCommit, Drifts
  <2>2. Range(nodes) = Declared(c)
    BY <1>1, <1>2, <1>4, <1>14, <2>1, CurrentDeclares
  <2>3. (Removing(c)' <=> Removing(c)) /\ (Pending(c)' <=> Pending(c))
    BY <1>2, <1>12, <1>13, ViewStays
  <2>4. Declared(c)' = Declared(c)
    BY <1>3 DEF Declared
  <2>5. ~ Pending(c) => NodesOf(s, c) = Declared(c)
    BY <1>1, <1>6, <1>8, <1>10, <1>14, <2>1, <2>2 DEF Follows
  <2> QED
    BY <1>1, <2>1, <2>3, <2>4, <2>5 DEF Follows
<1>15. CASE c # b
  BY <1>1, <1>2, <1>6, <1>8, <1>10, <1>12, <1>13, <1>15, UnaffectedFollows DEF Unaffected
<1> QED
  BY <1>14, <1>15

\* A sync that fails leaves its cluster drifted, or a later edit to write the list.
LEMMA FailureFollows ==
  ASSUME SlugsDiffer, IInv, up, OwnFiles(files'), NEW o \in ops, SyncFails(o) \/ RemoveFails(o),
         NEW c \in Clusters, c \notin drifted'
  PROVE  Follows(c)'
<1>1. OwnFiles(files)
  BY FilesAreOwn DEF IInv
<1>2. ops' = ops \ {o} /\ files' = files /\ db' = db
  BY DEF SyncFails, RemoveFails
<1>3. c \notin drifted
  BY DEF SyncFails, RemoveFails, Drifts
<1>4. Follows(c)
  BY <1>3, FollowsWas DEF IInv
<1>5. FileSame(c)
  BY <1>2 DEF FileSame
<1>6. CASE c # o.cluster
  <2>1. PICK new : new = {}
    OBVIOUS
  <2>2. ops' = (ops \ {o}) \cup new
    BY <1>2, <2>1
  <2>3. EditsSame(c)
    BY <1>6, <2>1, <2>2, GoingOn
  <2> QED
    BY <1>1, <1>2, <1>4, <1>5, <2>3, UnaffectedFollows DEF Unaffected
<1>7. CASE c = o.cluster
  <2>1. o.kind \in {"post", "put"} /\ ~ IsCurrent(o)
    BY <1>7 DEF SyncFails, RemoveFails, Drifts
  <2>2. \A p : p \in OpsOf(c)' <=> p \in OpsOf(c) /\ p # o
    BY <1>2 DEF OpsOf
  <2>3. Removing(c)' <=> Removing(c)
    BY <2>1, <2>2 DEF Removing
  <2>4. Pending(c) => Pending(c)'
    <3> SUFFICES ASSUME NEW p \in OpsOf(c), p.kind \in {"post", "put"}, IsCurrent(p) PROVE Pending(c)'
      BY DEF Pending
    <3>1. p \in OpsOf(c)'
      BY <2>1, <2>2
    <3>2. IsCurrent(p)'
      BY <1>2 DEF IsCurrent
    <3> QED
      BY <3>1, <3>2 DEF Pending
  <2>5. Declared(c)' = Declared(c)
    BY <1>2 DEF Declared
  <2> QED
    BY <1>2, <1>4, <2>3, <2>4, <2>5 DEF Follows
<1> QED
  BY <1>6, <1>7

\* With its file gone, a cluster without rows is as declared.
LEMMA RemovalFollows ==
  ASSUME SlugsDiffer, IInv, up, OwnFiles(files'), NEW o \in ops, RemoveFile(o), NEW c \in Clusters, c \notin drifted'
  PROVE  Follows(c)'
<1>1. OwnFiles(files) /\ OpsTyped
  BY FilesAreOwn, TypeParts DEF IInv
<1>2. /\ files' = [f \in DOMAIN files \ {Slug[o.cluster]} |-> files[f]]
      /\ ops' = (ops \ {o}) \cup {} /\ db' = db /\ o.kind = "remove" /\ drifted' = drifted
  BY DEF RemoveFile
<1>3. Follows(c)
  BY <1>2, FollowsWas DEF IInv
<1>4. CASE c = o.cluster
  <2>1. Removing(c)
    BY <1>2, <1>4, OpIs DEF Removing
  <2>2. NodesOf(db', c) = {}
    BY <1>2, <1>3, <2>1 DEF Follows
  <2>3. Declared(c)' = {}
    <3>1. PICK fs : fs = files'
      OBVIOUS
    <3>2. Slug[c] \notin DOMAIN fs
      BY <1>2, <1>4, <3>1
    <3>3. DeclaredBy(fs, c) = {}
      BY <3>1, <3>2, DeclaredIs
    <3> QED
      BY <3>1, <3>3, DeclaredNow
  <2> QED
    BY <2>2, <2>3 DEF Follows
<1>5. CASE c # o.cluster
  <2>1. PICK new : new = {}
    OBVIOUS
  <2>2. EditsSame(c)
    <3>1. ops' = (ops \ {o}) \cup new
      BY <1>2, <2>1
    <3> QED
      BY <1>5, <2>1, <3>1, GoingOn
  <2>3. Slug[c] # Slug[o.cluster]
    BY <1>1, <1>5, OpTyped DEF SlugsDiffer
  <2>4. FileSame(c)
    BY <1>2, <2>3 DEF FileSame
  <2> QED
    BY <1>1, <1>2, <1>3, <2>2, <2>4, UnaffectedFollows DEF Unaffected
<1> QED
  BY <1>4, <1>5

LEMMA StepFollows ==
  ASSUME NamesDiffer, SlugsDiffer, IInv, OwnFiles(files'), Step, NEW c \in Clusters, c \notin drifted'
  PROVE  Follows(c)'
<1>1. up /\ OwnFiles(files) /\ OpsTyped
  BY OnlyUp, FilesAreOwn, TypeParts DEF IInv
<1>2. c \notin drifted => Follows(c)
  BY <1>1, FollowsWas DEF IInv
<1>3. Follows(c) /\ Unaffected(c) => Follows(c)'
  BY <1>1, UnaffectedFollows
<1>4. ASSUME NEW o \in ops, PostSync(o) \/ PutSync(o) \/ RemoveFile(o) \/ JobStart(o) \/ TickStart(o)
      PROVE  Follows(c)'
  <2>1. CASE PostSync(o) \/ PutSync(o)
    <3>1. PICK new : new = IF PostSync(o) THEN {Op("job", o.cluster, o.nodes, "queued")} ELSE {}
      OBVIOUS
    <3>2. \A p \in new : p.cluster = o.cluster /\ p.kind \notin Edits
      BY <3>1 DEF Op, Edits
    <3>3. ops' = (ops \ {o}) \cup new
      BY <2>1, <3>1 DEF PostSync, PutSync
    <3>4. PICK x : x = Sync(db, o.cluster, o.nodes)
      OBVIOUS
    <3>5. o.kind # "remove" /\ db'.rows = x.rows /\ files' = files /\ Writes(o)
      BY <2>1, <3>4 DEF PostSync, PutSync
    <3> QED
      BY <1>1, <3>2, <3>3, <3>4, <3>5, SyncFollows
  <2>2. CASE RemoveFile(o)
    BY <1>1, <2>2, RemovalFollows
  <2>3. CASE JobStart(o) \/ TickStart(o)
    <3>1. o.kind \in {"job", "tick"} /\ Go(o, "collecting") /\ UNCHANGED <<files, db, drifted>>
      BY <2>3 DEF JobStart, TickStart
    <3>2. PICK p : /\ p.kind = o.kind /\ p.cluster = o.cluster /\ p.nodes = o.nodes
                   /\ ops' = (ops \ {o}) \cup {p}
      BY <1>1, <3>1, GoIs
    <3>3. PICK new : new = {p}
      OBVIOUS
    <3>4. EditsSame(c)
      BY <3>1, <3>2, <3>3, GoingOn DEF Edits
    <3> QED
      BY <1>2, <1>3, <3>1, <3>4 DEF Unaffected, FileSame
  <2> QED
    BY <1>4, <2>1, <2>2, <2>3
<1>5. ASSUME NEW o \in ops, NEW ks \in SUBSET DOMAIN o.nodes, JobCommit(o, ks) PROVE Follows(c)'
  <2>1. o.kind = "job" /\ Go(o, "hosts") /\ files' = files /\ Writes(o)
    BY <1>5 DEF JobCommit
  <2>2. PICK p : /\ p.kind = o.kind /\ p.cluster = o.cluster /\ p.nodes = o.nodes
                 /\ ops' = (ops \ {o}) \cup {p}
    BY <1>1, <2>1, GoIs
  <2>3. PICK new : new = {p}
    OBVIOUS
  <2>4. \A q \in new : q.cluster = o.cluster /\ q.kind \notin Edits
    BY <2>1, <2>2, <2>3 DEF Edits
  <2>5. PICK x : x = Sync(db, o.cluster, o.nodes)
    OBVIOUS
  <2>6. db'.rows = x.rows
    BY <1>5, <2>5 DEF JobCommit, Record
  <2> QED
    BY <1>1, <2>1, <2>2, <2>3, <2>4, <2>5, <2>6, SyncFollows
<1>6. ASSUME NEW o \in ops, NEW ks \in SUBSET DOMAIN o.nodes, TickCommit(o, ks) PROVE Follows(c)'
  BY <1>1, <1>6, TickFollows
<1>7. ASSUME NEW o \in ops, NEW k \in DOMAIN o.nodes, HostWrite(o, k) PROVE Follows(c)'
  <2>1. db'.rows = db.rows /\ UNCHANGED <<files, ops, drifted>>
    BY <1>7 DEF HostWrite, Record
  <2> QED
    BY <1>2, <1>3, <2>1 DEF Unaffected, FileSame, EditsSame, OpsOf, NodesOf
<1>8. ASSUME NEW o \in ops, PassEnd(o) PROVE Follows(c)'
  <2>1. PICK new : new = {}
    OBVIOUS
  <2>2. o.kind \notin Edits /\ ops' = (ops \ {o}) \cup new /\ UNCHANGED <<files, db, drifted>>
    BY <1>8, <2>1 DEF PassEnd, Edits
  <2>3. EditsSame(c)
    BY <2>1, <2>2, GoingOn
  <2> QED
    BY <1>2, <1>3, <2>2, <2>3 DEF Unaffected, FileSame
<1>9. ASSUME NEW u \in uploads, UploadWrite(u) PROVE Follows(c)'
  <2>1. db'.rows = db.rows /\ UNCHANGED <<files, ops, drifted>>
    BY <1>9 DEF UploadWrite
  <2> QED
    BY <1>2, <1>3, <2>1 DEF Unaffected, FileSame, EditsSame, OpsOf, NodesOf
<1>10. ASSUME NEW o \in ops, SyncFails(o) \/ RemoveFails(o) PROVE Follows(c)'
  BY <1>1, <1>10, FailureFollows
<1> QED
  BY <1>4, <1>5, <1>6, <1>7, <1>8, <1>9, <1>10 DEF Step

LEMMA RestartFollows ==
  ASSUME NamesDiffer, SlugsDiffer, IInv, Restart, NEW c \in Clusters, c \notin drifted'
  PROVE  Follows(c)'
<1>1. PICK d, s, fs : d = db /\ s = db' /\ fs = files
  OBVIOUS
<1>2. OwnFiles(fs) /\ AllClean(d, s)
  BY <1>1, FilesAreOwn, RestartCleans DEF IInv
<1>3. OpsOf(c)' = {} /\ files' = files
  BY DEF Restart, OpsOf
<1>4. NodesOf(s, c) = DeclaredBy(fs, c)
  <2>1. CASE Slug[c] \in DOMAIN fs
    <3>1. fs[Slug[c]].cluster = c /\ DeclaredBy(fs, c) = Range(fs[Slug[c]].nodes)
      BY <1>2, <2>1, DeclaredIs
    <3>2. Clean(s, c, fs[Slug[c]].nodes)
      BY <1>1, <1>2, <2>1, <3>1 DEF AllClean
    <3> QED
      BY <3>1, <3>2, NodesOfClean
  <2>2. CASE Slug[c] \notin DOMAIN fs
    <3>1. DeclaredBy(fs, c) = {} /\ \A f \in DOMAIN fs : fs[f].cluster # c
      BY <1>2, <2>2, DeclaredIs
    <3>2. \A i \in DOMAIN s.rows : s.rows[i].cluster = c => i \in DOMAIN d.rows /\ s.rows[i] = d.rows[i]
      BY <1>1, <1>2, <3>1 DEF AllClean
    <3>3. \A i \in DOMAIN d.rows : d.rows[i].cluster = c => i \in DOMAIN s.rows /\ s.rows[i] = d.rows[i]
      BY <1>1, <1>2, <3>1 DEF AllClean
    <3>4. NodesOf(s, c) = NodesOf(d, c)
      BY <3>2, <3>3, NodesElsewhere
    <3>5. NodesOf(d, c) = {}
      <4>1. CASE up
        <5>1. c \notin drifted
          BY <1>1, <3>1 DEF Restart
        <5>2. Follows(c)
          BY <4>1, <5>1, FollowsWas DEF IInv
        <5>3. CASE Removing(c)
          BY <1>1, <5>2, <5>3 DEF Follows
        <5>4. CASE ~ Removing(c)
          <6>1. ~ Pending(c)
            BY <1>1, <1>2, <2>2, CurrentIs DEF Pending, OpsOf
          <6>2. NodesOf(db, c) = Declared(c)
            BY <5>2, <5>4, <6>1 DEF Follows
          <6> QED
            BY <1>1, <3>1, <6>2, DeclaredNow
        <5> QED
          BY <5>3, <5>4
      <4>2. CASE ~ up
        <5>1. \A i \in DOMAIN d.rows : d.rows[i].cluster # c
          BY <1>1, <3>1, <4>2 DEF IInv, StartInv
        <5> QED
          BY <5>1, NodeIs
      <4> QED
        BY <4>1, <4>2
    <3> QED
      BY <3>1, <3>4, <3>5
  <2> QED
    BY <2>1, <2>2
<1>5. Declared(c)' = DeclaredBy(fs, c)
  BY <1>1, <1>3, DeclaredNow
<1>6. ~ Removing(c)'
  BY <1>3 DEF Removing
<1> QED
  BY <1>1, <1>4, <1>5, <1>6 DEF Follows

LEMMA FollowPreserved ==
  ASSUME NamesDiffer, SlugsDiffer, IInv, TypeInv', [Next]_vars
  PROVE  FollowInv'
<1>1. OwnFiles(files')
  BY DEF TypeInv, TypeOK, OwnFiles
<1>2. CASE UNCHANGED vars
  BY <1>2 DEF vars, IInv, FollowInv, Follows, Removing, Pending, IsCurrent, OpsOf, Declared
<1>3. ASSUME Next, NEW c \in Clusters, c \notin drifted' PROVE Follows(c)'
  BY <1>1, <1>3, RequestFollows, StepFollows, RestartFollows DEF Next
<1> QED
  BY <1>2, <1>3 DEF FollowInv

LEMMA Invariant == NamesDiffer /\ SlugsDiffer => (Spec => []IInv)
<1> SUFFICES ASSUME NamesDiffer, SlugsDiffer PROVE Spec => []IInv
  OBVIOUS
<1>1. Init => IInv
  BY InitTyped, InitHist, InitStart DEF IInv, FollowInv, Init
<1>2. IInv /\ [Next]_vars => IInv'
  <2> SUFFICES ASSUME IInv, [Next]_vars PROVE IInv'
    OBVIOUS
  <2>1. TypeInv' /\ HistInv' /\ StartInv'
    BY TypePreserved, HistPreserved, StartPreserved DEF IInv
  <2>2. FollowInv'
    BY <2>1, FollowPreserved
  <2> QED
    BY <2>1, <2>2 DEF IInv
<1> QED
  BY <1>1, <1>2, PTL DEF Spec

\* Where names stay different as ids and as files, the instances of a cluster with no
\* edit in flight are those of its file, or none after its removal, unless it was
\* written with another list, or an edit of it failed halfway, and nothing has
\* repaired it.
THEOREM InstancesFollowFiles == NamesDiffer /\ SlugsDiffer => (Spec => []FollowsFiles)
<1> SUFFICES ASSUME NamesDiffer, SlugsDiffer PROVE Spec => []FollowsFiles
  OBVIOUS
<1>1. IInv => FollowsFiles
  <2> SUFFICES ASSUME IInv, up, NEW c \in Clusters \ drifted, ~ Edited(c) PROVE NodesOf(db, c) = Declared(c)
    BY DEF FollowsFiles, NodesOf
  <2>1. ~ Removing(c) /\ ~ Pending(c)
    BY DEF Edited, Edits, Removing, Pending
  <2> QED
    BY <2>1 DEF IInv, FollowInv, Follows
<1> QED
  BY <1>1, Invariant, PTL

-----------------------------------------------------------------------------
(* History stays visible *)

\* What HistoryKept says of one host.
Stays(h) ==
  /\ Shown(h) /\ h.node \in Declared(h.cluster) /\ h.node \in Declared(h.cluster)'
  /\ h.cluster \notin drifted' /\ ~ Removing(h.cluster) /\ ~ Removing(h.cluster)'

LEMMA ShownIs == ASSUME NEW h PROVE (Shown(h) <=> Show(db, h)) /\ (Shown(h)' <=> Show(db', h))
  BY DEF Shown, Show

LEMMA ShowMore ==
  ASSUME NEW d, NEW s, NEW h, Show(d, h), d.hist \subseteq s.hist, \A i \in DOMAIN d.rows : i \in DOMAIN s.rows
  PROVE  Show(s, h)
  BY DEF Show, Known

\* A removal of one cluster reaches no row of another.
LEMMA NamesAreOwn ==
  ASSUME SlugsDiffer, OwnFiles(files), NEW b \in Clusters, NEW c \in Clusters, c # b
  PROVE  c \notin NamesOf(b)
<1>1. c # b /\ c # Slug[b]
  BY DEF SlugsDiffer
<1>2. ASSUME NEW f \in DOMAIN files \cap {b, Slug[b]}, files[f].cluster = c PROVE FALSE
  <2>1. f = Slug[c]
    BY <1>2 DEF OwnFiles
  <2> QED
    BY <1>2, <2>1 DEF SlugsDiffer
<1> QED
  BY <1>1, <1>2 DEF NamesOf

LEMMA RequestShows ==
  ASSUME NamesDiffer, SlugsDiffer, IInv, Request, NEW h \in Hosts, Stays(h)
  PROVE  Shown(h)'
<1>1. OwnFiles(files) /\ Own(db) /\ h.cluster \in Clusters
  BY FilesAreOwn, HostParts DEF IInv, HistInv
<1>2. PICK d, s : d = db /\ s = db'
  OBVIOUS
<1>3. Show(d, h)
  BY <1>2, ShownIs DEF Stays
<1>4. CASE db' = db
  BY <1>2, <1>3, <1>4, ShownIs
<1>5. ASSUME NEW b \in Clusters, RemoveRows(b) PROVE Shown(h)'
  <2>1. h.cluster # b
    <3>1. PICK o : o = Op("remove", b, << >>, "file")
      OBVIOUS
    <3>2. o \in ops' /\ o.kind = "remove" /\ o.cluster = b
      BY <1>5, <3>1 DEF RemoveRows, Begin, Op
    <3> QED
      BY <3>2 DEF Stays, Removing, OpsOf
  <2>2. h.cluster \notin NamesOf(b)
    BY <1>1, <2>1, NamesAreOwn
  <2>3. PICK ids : ids = {i \in DOMAIN d.rows : d.rows[i].cluster \in NamesOf(b)}
    OBVIOUS
  <2>4. s = Delete(d, ids)
    BY <1>2, <1>5, <2>3 DEF RemoveRows
  <2>5. PICK e \in d.hist : e.host = h /\ Known(d, e.id)
    BY <1>3 DEF Show
  <2>6. e.id \in DOMAIN d.rows /\ d.rows[e.id].cluster = e.id[2]
    BY <1>1, <1>2, <2>5, RowClusterIs DEF Known
  <2>7. e.id[2] = h.cluster
    BY <1>1, <1>2, <2>5, EntryIs, IdParts DEF Own
  <2>8. e.id \notin ids
    BY <2>2, <2>3, <2>6, <2>7
  <2>9. e \in s.hist /\ e.id \in DOMAIN s.rows
    BY <2>4, <2>5, <2>6, <2>8 DEF Delete
  <2> QED
    BY <1>2, <2>5, <2>9, ShownIs DEF Show, Known
<1> QED
  BY <1>4, <1>5 DEF Request, PostFile, PutFile, UploadCheck, TickLoad

LEMMA SyncShows ==
  ASSUME NamesDiffer, SlugsDiffer, IInv, NEW o \in ops, o.kind # "remove", Writes(o), NEW h \in Hosts,
         Stays(h), NEW s, s = Sync(db, o.cluster, o.nodes)
  PROVE  Show(s, h)
<1>1. PICK d, c, nodes : d = db /\ c = o.cluster /\ nodes = o.nodes
  OBVIOUS
<1>2. Own(d) /\ Tame(d) /\ Show(d, h) /\ OpsTyped /\ OwnFiles(files)
  BY <1>1, ShownIs, TypeParts, FilesAreOwn DEF IInv, HistInv, Stays
<1>3. c \in Clusters /\ nodes \in Lists
  BY <1>1, <1>2, OpTyped
<1>4. Synced(d, s, c, nodes)
  BY <1>1, <1>2, <1>3, SyncIs
<1>5. ASSUME h.cluster = c PROVE h.node \in Range(nodes)
  <2>1. IsCurrent(o)
    BY <1>1, <1>5 DEF Writes, Drifts, Stays
  <2>2. Range(nodes) = Declared(c)
    BY <1>1, <1>2, <1>3, <2>1, CurrentDeclares
  <2> QED
    BY <1>5, <2>2 DEF Stays
<1> QED
  BY <1>2, <1>4, <1>5, SyncedShows

LEMMA StepShows ==
  ASSUME NamesDiffer, SlugsDiffer, IInv, Step, NEW h \in Hosts, Stays(h)
  PROVE  Shown(h)'
<1>1. up /\ OpsTyped /\ Settled(db)
  BY OnlyUp, TypeParts DEF IInv, StartInv
<1>2. PICK d, s : d = db /\ s = db'
  OBVIOUS
<1>3. Show(d, h)
  BY <1>2, ShownIs DEF Stays
<1>4. ASSUME s.rows = d.rows, d.hist \subseteq s.hist PROVE Shown(h)'
  BY <1>2, <1>3, <1>4, ShowMore, ShownIs
<1>5. ASSUME NEW o \in ops, PostSync(o) \/ PutSync(o) \/ RemoveFile(o) \/ JobStart(o) \/ TickStart(o)
      PROVE  Shown(h)'
  <2>1. CASE PostSync(o) \/ PutSync(o)
    <3>1. o.kind # "remove" /\ Writes(o) /\ s = Sync(db, o.cluster, o.nodes)
      BY <1>2, <2>1 DEF PostSync, PutSync
    <3> QED
      BY <1>2, <3>1, SyncShows, ShownIs
  <2>2. CASE RemoveFile(o) \/ JobStart(o) \/ TickStart(o)
    BY <1>2, <1>4, <2>2 DEF RemoveFile, JobStart, TickStart
  <2> QED
    BY <1>5, <2>1, <2>2
<1>6. ASSUME NEW o \in ops, NEW ks \in SUBSET DOMAIN o.nodes, JobCommit(o, ks) \/ TickCommit(o, ks)
      PROVE  Shown(h)'
  <2>1. PICK c, nodes : c = o.cluster /\ nodes = o.nodes
    OBVIOUS
  <2>2. o.kind # "remove" /\ c \in Clusters /\ nodes \in Lists /\ ks \in SUBSET DOMAIN nodes
    BY <1>1, <1>6, <2>1, OpTyped DEF JobCommit, TickCommit
  <2>3. PICK x : x = IF JobCommit(o, ks) THEN Sync(d, c, nodes) ELSE Upsert(d, c, nodes, ks)
    OBVIOUS
  <2>4. s = Record(x, c, nodes, ks)
    BY <1>2, <1>6, <2>1, <2>3 DEF JobCommit, TickCommit
  <2>5. s.rows = x.rows /\ x.hist \subseteq s.hist
    BY <2>4 DEF Record
  <2>6. Show(x, h)
    <3>1. CASE JobCommit(o, ks)
      <4>1. x = Sync(db, o.cluster, o.nodes) /\ Writes(o)
        BY <1>2, <2>1, <2>3, <3>1 DEF JobCommit
      <4> QED
        BY <2>2, <4>1, SyncShows
    <3>2. CASE ~ JobCommit(o, ks)
      <4>1. x = Upsert(d, c, nodes, ks)
        BY <2>3, <3>2
      <4>2. Added(d, x, c, nodes)
        BY <1>1, <1>2, <2>2, <4>1, UpsertAdds
      <4>3. d.hist \subseteq x.hist
        BY <4>1 DEF Upsert
      <4> QED
        BY <1>3, <4>2, <4>3, ShowMore DEF Added
    <3> QED
      BY <3>1, <3>2
  <2> QED
    BY <1>2, <2>5, <2>6, ShowMore, ShownIs
<1>7. ASSUME NEW o \in ops, NEW k \in DOMAIN o.nodes, HostWrite(o, k) PROVE Shown(h)'
  BY <1>2, <1>4, <1>7 DEF HostWrite, Record
<1>8. ASSUME NEW o \in ops, PassEnd(o) PROVE Shown(h)'
  BY <1>2, <1>4, <1>8 DEF PassEnd
<1>9. ASSUME NEW u \in uploads, UploadWrite(u) PROVE Shown(h)'
  BY <1>2, <1>4, <1>9 DEF UploadWrite
<1>10. ASSUME NEW o \in ops, SyncFails(o) \/ RemoveFails(o) PROVE Shown(h)'
  BY <1>2, <1>4, <1>10 DEF SyncFails, RemoveFails
<1> QED
  BY <1>5, <1>6, <1>7, <1>8, <1>9, <1>10 DEF Step

LEMMA RestartShows ==
  ASSUME NamesDiffer, SlugsDiffer, IInv, Restart, NEW h \in Hosts, Stays(h)
  PROVE  Shown(h)'
<1>1. PICK d, s, fs : d = db /\ s = db' /\ fs = files
  OBVIOUS
<1>2. AllClean(d, s) /\ OwnFiles(fs) /\ h.cluster \in Clusters
  BY <1>1, RestartCleans, FilesAreOwn, HostParts DEF IInv
<1>3. ASSUME NEW f \in DOMAIN fs, fs[f].cluster = h.cluster PROVE h.node \in Range(fs[f].nodes)
  <2>1. f = Slug[h.cluster]
    BY <1>2, <1>3 DEF OwnFiles
  <2>2. DeclaredBy(fs, h.cluster) = Range(fs[f].nodes)
    BY <1>2, <2>1, DeclaredIs
  <2> QED
    BY <1>1, <2>2, DeclaredNow DEF Stays
<1>4. Show(d, h)
  BY <1>1, ShownIs DEF Stays
<1>5. Show(s, h)
  BY <1>1, <1>2, <1>3, <1>4 DEF AllClean
<1> QED
  BY <1>1, <1>5, ShownIs

\* Where names stay different as ids and as files, the history of a host stays
\* visible through every step that leaves the host in its cluster's file, unless
\* the step leaves the cluster drifted or the cluster is being removed.
THEOREM HistoryStaysVisible == NamesDiffer /\ SlugsDiffer => (Spec => HistoryKept)
<1> SUFFICES ASSUME NamesDiffer, SlugsDiffer PROVE Spec => HistoryKept
  OBVIOUS
<1> DEFINE Kept ==
      \A h \in Hosts :
        Shown(h) /\ h.node \in Declared(h.cluster) /\ h.node \in Declared(h.cluster)'
        /\ h.cluster \notin drifted' /\ ~ Removing(h.cluster) /\ ~ Removing(h.cluster)'
        => Shown(h)'
<1>1. IInv /\ Next => Kept
  <2> SUFFICES ASSUME IInv, Next, NEW h \in Hosts, Stays(h) PROVE Shown(h)'
    BY DEF Stays
  <2> QED
    BY RequestShows, StepShows, RestartShows DEF Next
<1> HIDE DEF Kept
<1>2. IInv /\ [Next]_vars => [Kept]_vars
  BY <1>1
<1>3. Spec => [][Kept]_vars
  BY <1>2, Invariant, PTL DEF Spec
<1> QED
  BY <1>3 DEF Kept, HistoryKept

=============================================================================
