----------------------------- MODULE KafkaProofs -----------------------------
(***************************************************************************)
(* Proofs about Kafka for any nodes, roles, scrapes, log lines, uploads    *)
(* and limits: what takes a warning off a node's row, and that the cluster *)
(* page and its chart show what the real-time alerter warns of.            *)
(***************************************************************************)
EXTENDS Kafka, Functions, FiniteSetTheorems, SequenceTheorems, TLAPS

-----------------------------------------------------------------------------
(* Greatest and least elements of finite sets *)

\* A nonempty set of finite sets has a member that contains no other: what an
\* induction on finite sets becomes here and for sums, a minimal counterexample under
\* the strict subset order.
LEMMA LeastSet ==
  ASSUME NEW S, IsFiniteSet(S), NEW T \in SUBSET SUBSET S, T # {}
  PROVE  \E s \in T : \A t \in SUBSET s : t \in T => t = s
<1>1. T \subseteq FiniteSubsetsOf(S)
  BY FS_FiniteSubsetsOfFinite
<1>2. PICK s \in T : \A t \in T : <<t, s>> \notin StrictSubsetOrdering(S)
  BY <1>1, FS_StrictSubsetOrderingWellFounded, WFMin
<1>3. ASSUME NEW t \in SUBSET s, t \in T PROVE t = s
  BY <1>2, <1>3 DEF StrictSubsetOrdering
<1> QED
  BY <1>3

Beyond(S, p) == {q \in S : p < q}

\* Of the sets of elements beyond an element one is least ...
LEMMA LeastBeyond ==
  ASSUME NEW S, IsFiniteSet(S), S # {}
  PROVE  \E m \in S : \A x \in S : Beyond(S, x) \subseteq Beyond(S, m) => Beyond(S, x) = Beyond(S, m)
<1>1. PICK T : T = {Beyond(S, p) : p \in S}
  OBVIOUS
<1>2. T \in SUBSET SUBSET S /\ T # {}
  BY <1>1 DEF Beyond
<1>3. PICK s \in T : \A t \in SUBSET s : t \in T => t = s
  BY <1>2, LeastSet
<1>4. PICK m \in S : s = Beyond(S, m)
  BY <1>1
<1> QED
  BY <1>1, <1>3, <1>4

\* ... and it is empty.
LEMMA MaxExists ==
  ASSUME NEW S, S \subseteq Int, IsFiniteSet(S), S # {}
  PROVE  Max(S) \in S /\ \A x \in S : x <= Max(S)
<1>1. PICK m \in S : \A x \in S : Beyond(S, x) \subseteq Beyond(S, m) => Beyond(S, x) = Beyond(S, m)
  BY LeastBeyond
<1>2. ASSUME NEW x \in S, m < x PROVE FALSE
  <2>1. \A v \in S : x < v => m < v
    BY <1>2
  <2>2. Beyond(S, x) \subseteq Beyond(S, m)
    BY <2>1, Zenon DEF Beyond
  <2>3. ~(x < x)
    OBVIOUS
  <2>4. x \in Beyond(S, m) /\ x \notin Beyond(S, x)
    BY <1>2, <2>3, Zenon DEF Beyond
  <2> QED
    BY <1>1, <2>2, <2>4, Zenon
<1>3. \E y \in S : \A x \in S : y >= x
  BY <1>2
<1> QED
  BY <1>3 DEF Max

LEMMA MinExists ==
  ASSUME NEW S, S \subseteq Int, IsFiniteSet(S), S # {}
  PROVE  Min(S) \in S /\ \A x \in S : Min(S) <= x
<1> DEFINE N == {-x : x \in S}
<1>1. N \in SUBSET Int /\ N # {}
  <2>1. \A x \in S : -x \in Int
    OBVIOUS
  <2> QED
    BY <2>1
<1>2. IsFiniteSet(N)
  <2> DEFINE f == [x \in S |-> -x]
  <2>1. f \in Surjection(S, N)
    BY DEF Surjection
  <2> QED
    BY <2>1, FS_Surjection
<1>3. Max(N) \in N /\ \A y \in N : y <= Max(N)
  <2> HIDE DEF N
  <2> QED
    BY <1>1, <1>2, MaxExists
<1>4. PICK m \in S : Max(N) = -m
  BY <1>3
<1>5. \A x \in S : -x \in N /\ -x <= -m
  BY <1>3, <1>4
<1>6. \A x \in S : m <= x
  BY <1>5
<1>7. \E y \in S : \A x \in S : y <= x
  BY <1>6
<1> QED
  BY <1>7 DEF Min

LEMMA MaxOfTwo ==
  ASSUME NEW a \in Int, NEW b \in Int
  PROVE  Max({a, b}) \in {a, b} /\ a <= Max({a, b}) /\ b <= Max({a, b})
<1>1. \E x \in {a, b} : \A y \in {a, b} : x >= y
  <2>1. a >= b \/ b >= a
    OBVIOUS
  <2>2. a >= a /\ b >= b
    OBVIOUS
  <2> QED
    BY <2>1, <2>2, Zenon
<1>2. Max({a, b}) \in {a, b} /\ \A y \in {a, b} : Max({a, b}) >= y
  BY <1>1, Zenon DEF Max
<1>3. Max({a, b}) >= a /\ Max({a, b}) >= b
  BY <1>2, Zenon
<1> QED
  BY <1>2, <1>3

LEMMA MinOfTwo ==
  ASSUME NEW a \in Int, NEW b \in Int
  PROVE  Min({a, b}) \in {a, b} /\ Min({a, b}) <= a /\ Min({a, b}) <= b
<1>1. \E x \in {a, b} : \A y \in {a, b} : x =< y
  <2>1. a =< b \/ b =< a
    OBVIOUS
  <2>2. a =< a /\ b =< b
    OBVIOUS
  <2> QED
    BY <2>1, <2>2, Zenon
<1>2. Min({a, b}) \in {a, b} /\ \A y \in {a, b} : Min({a, b}) =< y
  BY <1>1, Zenon DEF Min
<1>3. Min({a, b}) =< a /\ Min({a, b}) =< b
  BY <1>2, Zenon
<1> QED
  BY <1>2, <1>3

\* What a function makes of finitely many arguments has a greatest value.
LEMMA MaxOfImage ==
  ASSUME NEW S, IsFiniteSet(S), NEW f \in [S -> Nat]
  PROVE  LET T == {0} \cup {f[x] : x \in S}
         IN Max(T) \in Nat /\ \A x \in S : f[x] <= Max(T)
<1> DEFINE T == {f[x] : x \in S}
<1>1. IsFiniteSet(T)
  <2>1. f \in Surjection(S, T)
    BY DEF Surjection
  <2> QED
    BY <2>1, FS_Surjection
<1>2. T \subseteq Nat
  OBVIOUS
<1> HIDE DEF T
<1>3. IsFiniteSet({0} \cup T)
  BY <1>1, FS_Singleton, FS_Union
<1>4. {0} \cup T \subseteq Int /\ {0} \cup T # {}
  BY <1>2
<1>5. Max({0} \cup T) \in {0} \cup T /\ \A y \in {0} \cup T : y <= Max({0} \cup T)
  BY <1>3, <1>4, MaxExists
<1>6. \A x \in S : f[x] \in T
  BY DEF T
<1>7. PICK m : m = Max({0} \cup T)
  OBVIOUS
<1>8. m \in Nat
  <2>1. \A y \in T : y \in Nat
    BY <1>2
  <2>2. m = 0 \/ m \in T
    BY <1>5, <1>7
  <2> QED
    BY <2>1, <2>2
<1>9. \A x \in S : f[x] <= m
  BY <1>5, <1>6, <1>7
<1>10. Max({0} \cup T) \in Nat /\ \A x \in S : f[x] <= Max({0} \cup T)
  BY <1>7, <1>8, <1>9, Zenon
<1> QED
  BY <1>10 DEF T

-----------------------------------------------------------------------------
(* Sums *)

First(s) == CHOOSE x \in s : TRUE
Step(f, g, s) == IF s = {} THEN 0 ELSE f[First(s)] + g[s \ {First(s)}]

\* g gives the sum of f over every subset of S.
Sums(f, g, S) == g \in [SUBSET S -> Nat] /\ \A s \in SUBSET S : g[s] = Step(f, g, s)

LEMMA FirstIn == ASSUME NEW s, s # {} PROVE First(s) \in s /\ s \ {First(s)} \in SUBSET s /\ s \ {First(s)} # s
  BY DEF First

\* Two functions that satisfy the recursion agree where both are defined.
LEMMA SumsAgree ==
  ASSUME NEW S, IsFiniteSet(S), NEW f, NEW g, NEW h,
         \A s \in SUBSET S : g[s] = Step(f, g, s) /\ h[s] = Step(f, h, s)
  PROVE  \A s \in SUBSET S : g[s] = h[s]
<1> DEFINE Bad == {s \in SUBSET S : g[s] # h[s]}
<1> SUFFICES ASSUME Bad # {} PROVE FALSE
  OBVIOUS
<1>1. PICK s \in Bad : \A t \in SUBSET s : t \in Bad => t = s
  <2>1. Bad \in SUBSET SUBSET S
    OBVIOUS
  <2> HIDE DEF Bad
  <2> QED
    BY <2>1, LeastSet
<1>2. s # {}
  BY DEF Step
<1>3. s \ {First(s)} \in SUBSET S /\ s \ {First(s)} \notin Bad
  BY <1>1, <1>2, FirstIn
<1>4. g[s \ {First(s)}] = h[s \ {First(s)}]
  BY <1>3
<1> QED
  BY <1>2, <1>4 DEF Step

LEMMA SumsExist ==
  ASSUME NEW S, IsFiniteSet(S), NEW f \in [S -> Nat]
  PROVE  \E g : Sums(f, g, S)
<1> DEFINE Bad == {s \in SUBSET S : ~ \E g : Sums(f, g, s)}
           F(s) == CHOOSE g : Sums(f, g, s)
<1> SUFFICES ASSUME Bad # {} PROVE FALSE
  BY DEF Sums
<1>1. PICK s \in Bad : \A t \in SUBSET s : t \in Bad => t = s
  <2>1. Bad \in SUBSET SUBSET S
    OBVIOUS
  <2> HIDE DEF Bad
  <2> QED
    BY <2>1, LeastSet
<1>2. \A t \in SUBSET s : t # s => Sums(f, F(t), t)
  BY <1>1
<1> HIDE DEF F
<1> DEFINE last == IF s = {} THEN 0 ELSE f[First(s)] + F(s \ {First(s)})[s \ {First(s)}]
           G == [t \in SUBSET s |-> IF t = s THEN last ELSE F(t)[t]]
<1>3. s \in SUBSET S
  OBVIOUS
<1>4. ASSUME NEW t \in SUBSET s, t # s PROVE F(t)[t] \in Nat
  BY <1>2, <1>4 DEF Sums
<1>5. last \in Nat
  BY <1>3, <1>4, FirstIn
<1>6. G \in [SUBSET s -> Nat]
  BY <1>4, <1>5
<1>7. G[s] = Step(f, G, s)
  BY FirstIn DEF Step
<1>8. ASSUME NEW t \in SUBSET s, t # s PROVE G[t] = Step(f, G, t)
  <2>1. CASE t = {}
    BY <1>2, <1>8, <2>1 DEF Sums, Step
  <2>2. CASE t # {}
    <3>1. PICK u : u = t \ {First(t)}
      OBVIOUS
    <3>2. u \in SUBSET t /\ u \in SUBSET s /\ u # s
      BY <1>8, <2>2, <3>1, FirstIn
    <3>3. Sums(f, F(t), t) /\ Sums(f, F(u), u)
      BY <1>2, <1>8, <3>2
    <3>4. IsFiniteSet(u)
      BY <1>3, <3>2, FS_Subset
    <3>5. \A v \in SUBSET u : F(t)[v] = Step(f, F(t), v) /\ F(u)[v] = Step(f, F(u), v)
      BY <3>2, <3>3 DEF Sums
    <3>6. F(t)[u] = F(u)[u]
      <4>1. PICK g, h : g = F(t) /\ h = F(u)
        OBVIOUS
      <4>2. \A v \in SUBSET u : g[v] = Step(f, g, v) /\ h[v] = Step(f, h, v)
        BY <3>5, <4>1
      <4>3. \A v \in SUBSET u : g[v] = h[v]
        BY <3>4, <4>2, SumsAgree
      <4> QED
        BY <4>1, <4>3
    <3>7. F(t)[t] = f[First(t)] + F(t)[u]
      BY <2>2, <3>1, <3>3 DEF Sums, Step
    <3>8. G[t] = F(t)[t] /\ G[u] = F(u)[u]
      BY <1>8, <3>2
    <3> QED
      BY <2>2, <3>1, <3>6, <3>7, <3>8 DEF Step
  <2> QED
    BY <2>1, <2>2
<1>9. Sums(f, G, s)
  BY <1>6, <1>7, <1>8 DEF Sums
<1> QED
  BY <1>9

\* What SumFunction unfolds to is such a function.
LEMMA SumUnfolds ==
  ASSUME NEW S, IsFiniteSet(S), NEW f \in [S -> Nat]
  PROVE  \E g : Sums(f, g, S) /\ SumFunction(f) = g[S]
<1> DEFINE h == CHOOSE h : h = [s \in SUBSET S |-> Step(f, h, s)]
<1>1. PICK g : Sums(f, g, S)
  BY SumsExist
<1>2. g = [s \in SUBSET S |-> Step(f, g, s)]
  BY <1>1 DEF Sums
<1>3. h = [s \in SUBSET S |-> Step(f, h, s)]
  BY <1>2
<1> HIDE DEF h
<1>4. \A s \in SUBSET S : h[s] = Step(f, h, s)
  BY <1>3
<1>5. h[S] = g[S]
  <2>1. \A s \in SUBSET S : g[s] = Step(f, g, s) /\ h[s] = Step(f, h, s)
    BY <1>1, <1>4 DEF Sums
  <2>2. \A s \in SUBSET S : g[s] = h[s]
    BY <2>1, SumsAgree
  <2> QED
    BY <2>2
<1>6. SumFunction(f) = h[S]
  BY DEF SumFunction, SumFunctionOnSet, FoldFunctionOnSet, MapThenFoldSet, Step, First, h
<1> QED
  BY <1>1, <1>5, <1>6

\* A sum of naturals is a natural and no less than any of them.
LEMMA SumAtLeast ==
  ASSUME NEW S, IsFiniteSet(S), NEW f \in [S -> Nat]
  PROVE  SumFunction(f) \in Nat /\ \A x \in S : f[x] <= SumFunction(f)
<1>1. PICK g : Sums(f, g, S) /\ SumFunction(f) = g[S]
  BY SumUnfolds
<1>2. S \in SUBSET S /\ \A s \in SUBSET S : g[s] \in Nat
  BY <1>1 DEF Sums
<1> DEFINE Bad == {s \in SUBSET S : \E x \in s : ~(f[x] <= g[s])}
<1>3. Bad = {}
  <2> SUFFICES ASSUME Bad # {} PROVE FALSE
    OBVIOUS
  <2>1. PICK s \in Bad : \A t \in SUBSET s : t \in Bad => t = s
    <3>1. Bad \in SUBSET SUBSET S
      OBVIOUS
    <3> HIDE DEF Bad
    <3> QED
      BY <3>1, LeastSet
  <2>2. PICK x \in s : ~(f[x] <= g[s])
    OBVIOUS
  <2>3. s # {} /\ s \in SUBSET S
    BY <2>2
  <2>4. PICK u : u = s \ {First(s)}
    OBVIOUS
  <2>5. u \in SUBSET S /\ u \notin Bad
    BY <2>1, <2>3, <2>4, FirstIn
  <2>6. g[s] = f[First(s)] + g[u]
    BY <1>1, <2>3, <2>4 DEF Sums, Step
  <2>7. First(s) \in S /\ f[First(s)] \in Nat /\ f[x] \in Nat /\ g[u] \in Nat
    BY <1>2, <2>3, <2>5, FirstIn
  <2>8. x = First(s) \/ f[x] <= g[u]
    BY <2>4, <2>5
  <2> QED
    BY <2>2, <2>6, <2>7, <2>8
<1> QED
  BY <1>1, <1>2, <1>3

-----------------------------------------------------------------------------
(* The type invariant *)

Row == [KafkaColumns -> Nat \cup {None}]
Number == Nat \cup {None}

\* What the parser makes of a text: counts per category, and a sequence.
Parsed(p) ==
  /\ p.counts \in [Categories -> Nat]
  /\ p.maxFsync \in Nat
  /\ \E S : p.events \in Seq(S)

Scraped(s) == \A c \in DOMAIN s : s[c] \in Number

\* A table has rows at times up to now.
TableOf(table) == DOMAIN table \subseteq 0 .. clock /\ \A t \in DOMAIN table : table[t] \in Row

ClockInv == clock \in 0 .. MaxTime
LogInv   == log \in [Nodes -> Seq(LogLine)]
RowsInv  == DOMAIN rows = Nodes /\ \A i \in Nodes : TableOf(rows[i])
EventInv == DOMAIN events = Nodes /\ \A i \in Nodes : \E S : events[i] \in Seq(S)

\* A pass that has loaded holds what it parsed and the row it read.
Holding(p) == p.ts \in 0 .. clock /\ Scraped(p.scraped) /\ Parsed(p.parsed) /\ p.existing \in Row
PassInv ==
  /\ DOMAIN pass = Passes
  /\ \A a \in Passes : DOMAIN pass[a] = Nodes
       /\ \A i \in Nodes : pass[a][i].phase = "loaded" => Holding(pass[a][i])

\* An upload that has read holds a row and a time up to now.
Copied(u) == u.at \in 0 .. clock /\ u.row \in Row
UploadInv ==
  /\ DOMAIN upload = Nodes
  /\ \A i \in Nodes : upload[i] # None => Copied(upload[i])

TypeInv == ClockInv /\ LogInv /\ RowsInv /\ EventInv /\ PassInv /\ UploadInv

-----------------------------------------------------------------------------
(* Numbers *)

LEMMA ValueType == ASSUME NEW x \in Number PROVE Value(x) \in Nat /\ (x = None => Value(x) = 0)
  BY DEF Number, Value

-----------------------------------------------------------------------------
(* Parsing, merging *)

\* A function on 1 .. n is a sequence.
LEMMA Enumerated ==
  ASSUME NEW n \in Nat, NEW f, f = [k \in 1 .. n |-> f[k]]
  PROVE  \E S : f \in Seq(S)
<1>1. PICK S : S = {f[k] : k \in 1 .. n}
  OBVIOUS
<1>2. f \in [1 .. n -> S]
  BY <1>1
<1> QED
  BY <1>2, SeqDef

LEMMA HitsFinite ==
  ASSUME NEW text \in Seq(LogLine)
  PROVE  IsFiniteSet(Hits(text)) /\ \A k \in Hits(text) : text[k] \in LogLine
<1>1. Len(text) \in Nat /\ DOMAIN text = 1 .. Len(text)
  OBVIOUS
<1>2. IsFiniteSet(1 .. Len(text))
  BY <1>1, FS_Interval
<1>3. Hits(text) \in SUBSET (1 .. Len(text))
  BY <1>1 DEF Hits
<1> QED
  BY <1>1, <1>2, <1>3, FS_Subset

LEMMA ParseType ==
  ASSUME NEW text \in Seq(LogLine), NEW now
  PROVE  Parsed(Parse(text, now))
<1>1. PICK p : p = Parse(text, now)
  OBVIOUS
<1>2. p.counts \in [Categories -> Nat]
  <2>1. ASSUME NEW c \in Categories
        PROVE  Cardinality({k \in Hits(text) : Category(text[k]) = c}) \in Nat
    <3>1. {k \in Hits(text) : Category(text[k]) = c} \in SUBSET Hits(text)
      OBVIOUS
    <3> QED
      BY <3>1, HitsFinite, FS_Subset, FS_CardinalityType
  <2> QED
    BY <1>1, <2>1 DEF Parse
<1>3. p.maxFsync \in Nat
  <2>1. PICK F : F = {h \in Hits(text) : Category(text[h]) = "zk_fsync_stall"}
    OBVIOUS
  <2>2. IsFiniteSet(F)
    BY <2>1, HitsFinite, FS_Subset
  <2>3. PICK f : f = [k \in F |-> text[k].ms]
    OBVIOUS
  <2>4. f \in [F -> Nat]
    BY <2>1, <2>3, HitsFinite DEF LogLine
  <2>5. Max({0} \cup {f[k] : k \in F}) \in Nat
    BY <2>2, <2>4, MaxOfImage
  <2>6. {f[k] : k \in F} = {text[k].ms : k \in F}
    BY <2>3
  <2>7. p.maxFsync = Max({0} \cup {text[k].ms : k \in F})
    BY <1>1, <2>1 DEF Parse
  <2> QED
    BY <2>5, <2>6, <2>7
<1>4. \E S : p.events \in Seq(S)
  <2>1. PICK n : n = Min({Cardinality(Hits(text)), EventCap})
    OBVIOUS
  <2>2. Cardinality(Hits(text)) \in Nat /\ EventCap \in Nat
    BY HitsFinite, FS_CardinalityType, CapAssumption
  <2>3. n \in Nat
    <3>1. PICK a \in Nat, b \in Nat : a = Cardinality(Hits(text)) /\ b = EventCap
      BY <2>2
    <3>2. a \in Int /\ b \in Int
      OBVIOUS
    <3>3. Min({a, b}) \in {a, b}
      BY <3>2, MinOfTwo, Zenon
    <3> QED
      BY <2>1, <3>1, <3>3
  <2>4. p.events = [k \in 1 .. n |-> p.events[k]]
    BY <1>1, <2>1 DEF Parse
  <2> QED
    BY <2>3, <2>4, Enumerated
<1> QED
  BY <1>1, <1>2, <1>3, <1>4 DEF Parsed

LEMMA Raised ==
  ASSUME NEW a \in Nat, NEW b \in Nat
  PROVE  Max({a, b}) \in Nat /\ a <= Max({a, b})
<1>1. a \in Int /\ b \in Int
  OBVIOUS
<1>2. Max({a, b}) \in {a, b} /\ a <= Max({a, b})
  BY <1>1, MaxOfTwo, Zenon
<1> QED
  BY <1>2

LEMMA PerSecondType == ASSUME NEW n \in Nat PROVE PerSecond(n) \in Nat
  BY DEF PerSecond

\* A merged row is a row, and only a scrape lowers what it says of partitions or
\* takes its stalls and expirations off.
LEMMA MergeKeeps ==
  ASSUME NEW existing \in Row, NEW scraped, NEW parsed, NEW expands \in BOOLEAN,
         Scraped(scraped), Parsed(parsed)
  PROVE  LET m == Merge(existing, scraped, parsed, expands)
         IN /\ m \in Row
            /\ \A c \in {"urp", "offline"} \ DOMAIN scraped : Value(existing[c]) <= Value(m[c])
            /\ \A c \in {"fsync", "sessions"} \ DOMAIN scraped :
                 Value(existing[c]) > 0 => Value(m[c]) > 0
<1> DEFINE base(c) == IF c \in DOMAIN scraped THEN scraped[c] ELSE existing[c]
           count(cat) == parsed.counts[cat]
           m == Merge(existing, scraped, parsed, expands)
<1>1. \A c \in KafkaColumns : base(c) \in Number
  BY DEF Scraped, Row, Number
<1>2. \A c \in KafkaColumns : Value(base(c)) \in Nat
  BY <1>1, ValueType
<1>3. \A cat \in Categories : count(cat) \in Nat
  BY DEF Parsed
<1>4. parsed.maxFsync \in Nat
  BY DEF Parsed
<1>5. {"urp_detected", "offline_partition", "isr_shrink", "isr_expand", "zk_fsync_stall",
       "zk_session_expired"} \subseteq Categories
  BY DEF Categories, ToSet, Patterns
<1>6. {"urp", "offline", "shrink", "expand", "fsync", "zkMax", "sessions"} \subseteq KafkaColumns
  BY DEF KafkaColumns, BrokerColumns, ZkColumns
<1>7. \A c \in KafkaColumns : m[c] =
        IF c = "urp" /\ count("urp_detected") > 0 THEN Max({Value(base(c)), count("urp_detected")})
        ELSE IF c = "offline" /\ count("offline_partition") > 0
          THEN Max({Value(base(c)), count("offline_partition")})
        ELSE IF c = "shrink" /\ count("isr_shrink") > 0
          THEN Value(base(c)) + PerSecond(count("isr_shrink"))
        ELSE IF c = "expand" /\ expands /\ count("isr_expand") > 0
          THEN Value(base(c)) + PerSecond(count("isr_expand"))
        ELSE IF c = "fsync" /\ count("zk_fsync_stall") > 0 THEN count("zk_fsync_stall")
        ELSE IF c = "zkMax" /\ count("zk_fsync_stall") > 0 THEN Max({Value(base(c)), parsed.maxFsync})
        ELSE IF c = "sessions" /\ count("zk_session_expired") > 0 THEN count("zk_session_expired")
        ELSE base(c)
  BY DEF Merge
<1>8. m = [c \in KafkaColumns |-> m[c]]
  BY DEF Merge
<1> HIDE DEF m, base, count
<1>9. \A x \in Nat : x \in Number /\ (x # None => Value(x) = x)
  BY DEF Number, Value
<1>10. \A c \in KafkaColumns, cat \in Categories :
         /\ Max({Value(base(c)), count(cat)}) \in Nat
         /\ Value(base(c)) <= Max({Value(base(c)), count(cat)})
         /\ PerSecond(count(cat)) \in Nat
         /\ Value(base(c)) + PerSecond(count(cat)) \in Nat
  BY <1>2, <1>3, Raised, PerSecondType
<1>11. \A c \in KafkaColumns : Max({Value(base(c)), parsed.maxFsync}) \in Nat
  BY <1>2, <1>4, Raised
<1>12. ASSUME NEW c \in KafkaColumns PROVE m[c] \in Number
  BY <1>1, <1>3, <1>5, <1>7, <1>9, <1>10, <1>11
<1>13. m \in Row
  BY <1>8, <1>12 DEF Row, Number
<1>14. \A x \in Nat : Value(x) = x
  BY CapAssumption DEF Value
<1>15. \A x \in Nat : x <= x
  OBVIOUS
<1>16. ASSUME NEW c \in {"urp", "offline"}, c \notin DOMAIN scraped PROVE Value(existing[c]) <= Value(m[c])
  <2>1. c \in KafkaColumns /\ base(c) = existing[c] /\ Value(base(c)) \in Nat
    BY <1>2, <1>6, <1>16 DEF base
  <2>2. m[c] = base(c) \/ \E cat \in Categories : m[c] = Max({Value(base(c)), count(cat)})
    BY <1>5, <1>7, <2>1
  <2> QED
    BY <1>10, <1>14, <1>15, <2>1, <2>2
<1>17. ASSUME NEW c \in {"fsync", "sessions"}, c \notin DOMAIN scraped, Value(existing[c]) > 0
       PROVE  Value(m[c]) > 0
  <2>1. c \in KafkaColumns /\ base(c) = existing[c]
    BY <1>6, <1>17 DEF base
  <2>2. m[c] = base(c) \/ \E cat \in Categories : m[c] = count(cat) /\ count(cat) > 0
    BY <1>5, <1>7, <2>1
  <2> QED
    BY <1>3, <1>14, <1>17, <2>1, <2>2
<1> QED
  BY <1>13, <1>16, <1>17 DEF m

-----------------------------------------------------------------------------
(* The latest row *)

\* Of a table with no time after `now`, the latest row is that of its last time.
LEMMA LatestIs ==
  ASSUME NEW now \in Nat, NEW table, DOMAIN table \subseteq 0 .. now
  PROVE  /\ DOMAIN table = {} => LatestRow(table, now) = NoRow /\ LatestTime(table, now) = -1
         /\ DOMAIN table # {} =>
              \E m \in DOMAIN table : /\ \A t \in DOMAIN table : t <= m
                                      /\ LatestRow(table, now) = table[m]
                                      /\ LatestTime(table, now) = m
<1>1. PICK D : D = DOMAIN table
  OBVIOUS
<1>2. \A t \in D : t \in Int /\ 0 <= t /\ t <= now
  BY <1>1
<1>3. {t \in DOMAIN table : t <= now} = D
  BY <1>1, <1>2
<1>4. IsFiniteSet(D) /\ D \subseteq Int
  <2>1. IsFiniteSet(0 .. now)
    BY FS_Interval
  <2>2. IsFiniteSet(D)
    BY <1>1, <2>1, FS_Subset
  <2>3. D \subseteq Int
    BY <1>2, Zenon
  <2> QED
    BY <2>2, <2>3
<1>5. CASE D = {}
  <2>1. LatestRow(table, now) = NoRow
    BY <1>3, <1>5, Zenon DEF LatestRow
  <2>2. Max({-1} \cup D) = -1
    <3>1. {-1} \cup D = {-1}
      BY <1>5, Zenon
    <3>2. \E x \in {-1} : \A y \in {-1} : x >= y
      OBVIOUS
    <3> QED
      BY <3>1, <3>2, Zenon DEF Max
  <2>3. LatestTime(table, now) = -1
    BY <1>3, <2>2, Zenon DEF LatestTime
  <2> QED
    BY <1>1, <1>5, <2>1, <2>3, Zenon
<1>6. CASE D # {}
  <2>1. PICK m : m = Max(D)
    OBVIOUS
  <2>2. m \in D /\ \A t \in D : t <= m
    BY <1>4, <1>6, <2>1, MaxExists, Zenon
  <2>3. LatestRow(table, now) = table[m]
    BY <1>3, <1>6, <2>1, Zenon DEF LatestRow
  <2>4. PICK n : n = Max({-1} \cup D)
    OBVIOUS
  <2>5. n \in {-1} \cup D /\ \A t \in {-1} \cup D : t <= n
    <3>1. IsFiniteSet({-1} \cup D)
      BY <1>4, FS_Singleton, FS_Union
    <3>2. {-1} \cup D \subseteq Int
      BY <1>4
    <3> QED
      BY <2>4, <3>1, <3>2, MaxExists, Zenon
  <2>6. n = m
    BY <1>2, <2>2, <2>5
  <2>7. LatestTime(table, now) = m
    BY <1>3, <2>4, <2>6, Zenon DEF LatestTime
  <2> QED
    BY <1>1, <1>6, <2>2, <2>3, <2>7, Zenon
<1> QED
  BY <1>5, <1>6

LEMMA NoRowType == NoRow \in Row
  BY DEF NoRow, Row

LEMMA LatestType ==
  ASSUME ClockInv, NEW table, TableOf(table)
  PROVE  LatestRow(table, clock) \in Row
<1>1. clock \in Nat /\ DOMAIN table \subseteq 0 .. clock /\ \A t \in DOMAIN table : table[t] \in Row
  BY KafkaAssumption DEF ClockInv, TableOf
<1>2. CASE DOMAIN table = {}
  BY <1>1, <1>2, LatestIs, NoRowType
<1>3. CASE DOMAIN table # {}
  BY <1>1, <1>3, LatestIs
<1> QED
  BY <1>2, <1>3

LEMMA WithType ==
  ASSUME ClockInv, NEW table, TableOf(table), NEW t \in 0 .. clock, NEW v \in Row
  PROVE  TableOf(With(table, t, v))
  BY DEF TableOf, With

\* A row written into a table becomes the latest one, or the latest one stays.
LEMMA LatestWith ==
  ASSUME ClockInv, NEW table, TableOf(table), NEW t \in 0 .. clock, NEW v \in Row
  PROVE  LatestRow(With(table, t, v), clock) \in {v, LatestRow(table, clock)}
<1>1. PICK new : new = With(table, t, v)
  OBVIOUS
<1>2. DOMAIN new = DOMAIN table \cup {t} /\ \A u \in DOMAIN new : new[u] = IF u = t THEN v ELSE table[u]
  BY <1>1 DEF With
<1>3. clock \in Nat /\ DOMAIN table \subseteq 0 .. clock /\ DOMAIN new \subseteq 0 .. clock
  BY <1>2, KafkaAssumption DEF ClockInv, TableOf
<1>4. PICK m \in DOMAIN new : (\A u \in DOMAIN new : u <= m) /\ LatestRow(new, clock) = new[m]
  BY <1>2, <1>3, LatestIs
<1>5. CASE m = t
  BY <1>1, <1>2, <1>4, <1>5
<1>6. CASE m # t
  <2>1. m \in DOMAIN table
    BY <1>2, <1>6
  <2>2. PICK n \in DOMAIN table : (\A u \in DOMAIN table : u <= n) /\ LatestRow(table, clock) = table[n]
    BY <1>3, <2>1, LatestIs
  <2>3. n = m
    <3>1. m <= n /\ n <= m
      BY <1>2, <1>4, <2>1, <2>2
    <3>2. m \in Int /\ n \in Int
      BY <1>3, <2>1
    <3> QED
      BY <3>1, <3>2
  <2> QED
    BY <1>1, <1>2, <1>4, <1>6, <2>2, <2>3
<1> QED
  BY <1>5, <1>6

-----------------------------------------------------------------------------
(* The type invariant holds *)

LEMMA InitTyped == Init => TypeInv
<1> SUFFICES ASSUME Init PROVE TypeInv
  OBVIOUS
<1>1. ClockInv /\ LogInv
  BY KafkaAssumption DEF Init, ClockInv, LogInv
<1>2. RowsInv
  BY DEF Init, RowsInv, TableOf
<1>3. EventInv
  <2>1. <<>> \in Seq({})
    OBVIOUS
  <2> QED
    BY <2>1 DEF Init, EventInv
<1>4. PassInv
  BY DEF Init, PassInv, Idle
<1>5. UploadInv
  BY DEF Init, UploadInv
<1> QED
  BY <1>1, <1>2, <1>3, <1>4, <1>5 DEF TypeInv

\* The tail of a log is a text.
LEMMA TailType ==
  ASSUME TypeInv, NEW i \in Nodes
  PROVE  LogTail(i) \in Seq(LogLine)
<1>1. log[i] \in Seq(LogLine) /\ Len(log[i]) \in Nat /\ TailLines \in Nat
  BY KafkaAssumption DEF TypeInv, LogInv
<1>2. PICK s, n : s = log[i] /\ n = Len(s)
  OBVIOUS
<1>3. PICK b \in Int : b = n - TailLines + 1
  <2>1. n \in Nat
    BY <1>1, <1>2
  <2>2. n - TailLines + 1 \in Int
    BY <1>1, <2>1
  <2> QED
    BY <2>2
<1>4. PICK m : m = Max({1, b})
  OBVIOUS
<1>5. m \in {1, b} /\ 1 <= m
  <2>1. 1 \in Int /\ b \in Int
    OBVIOUS
  <2> QED
    BY <1>4, <2>1, MaxOfTwo, Zenon
<1>6. m \in Int /\ 1 <= m /\ n \in Nat /\ s \in Seq(LogLine)
  BY <1>1, <1>2, <1>3, <1>5
<1>7. SubSeq(s, m, n) \in Seq(LogLine)
  <2>1. n <= Len(s)
    BY <1>2, <1>6
  <2> QED
    BY <1>6, <2>1, SubSeqProperties
<1> QED
  BY <1>2, <1>3, <1>4, <1>7 DEF LogTail

LEMMA ConcatIsSeq ==
  ASSUME NEW s, NEW t, \E S : s \in Seq(S), \E S : t \in Seq(S)
  PROVE  \E S : s \o t \in Seq(S)
<1>1. PICK S : s \in Seq(S)
  OBVIOUS
<1>2. PICK T : t \in Seq(T)
  OBVIOUS
<1>3. s \in Seq(S \cup T) /\ t \in Seq(S \cup T)
  BY <1>1, <1>2, SeqMonotonic
<1>4. s \o t \in Seq(S \cup T)
  BY <1>3, ConcatProperties
<1> QED
  BY <1>4

LEMMA AdvanceTyped == ASSUME TypeInv, Advance PROVE TypeInv'
<1>1. clock \in Nat /\ clock' = clock + 1 /\ clock < MaxTime /\ MaxTime \in Nat
  BY KafkaAssumption DEF Advance, TypeInv, ClockInv
<1>2. 0 .. clock \subseteq 0 .. clock'
  BY <1>1
<1>3. UNCHANGED <<log, rows, events, pass, upload>>
  BY DEF Advance
<1>4. ClockInv'
  BY <1>1 DEF ClockInv
<1>5. RowsInv'
  BY <1>2, <1>3 DEF TypeInv, RowsInv, TableOf
<1>6. LogInv' /\ EventInv'
  BY <1>3 DEF TypeInv, LogInv, EventInv
<1>7. PassInv'
  BY <1>2, <1>3 DEF TypeInv, PassInv, Holding
<1>8. UploadInv'
  BY <1>2, <1>3 DEF TypeInv, UploadInv, Copied
<1> QED
  BY <1>4, <1>5, <1>6, <1>7, <1>8 DEF TypeInv

LEMMA LogTyped ==
  ASSUME TypeInv, NEW i \in Nodes, Log(i) PROVE TypeInv'
<1>1. PICK line \in Lines[Role[i]] :
        log' = [log EXCEPT ![i] = Append(log[i], [line EXCEPT !.at = IF line.at = None THEN None ELSE clock])]
  BY DEF Log
<1>2. line \in LogLine /\ clock \in Nat
  BY KafkaAssumption DEF TypeInv, ClockInv
<1>3. [line EXCEPT !.at = IF line.at = None THEN None ELSE clock] \in LogLine
  BY <1>2 DEF LogLine
<1>4. LogInv'
  BY <1>1, <1>3 DEF TypeInv, LogInv
<1>5. UNCHANGED <<clock, rows, events, pass, upload>>
  BY DEF Log
<1> QED
  BY <1>4, <1>5 DEF TypeInv, ClockInv, RowsInv, TableOf, EventInv, PassInv, Holding, UploadInv, Copied

\* A step that leaves clock and log alone keeps the invariant if it keeps the
\* tables and the passes of the node it is about.
LEMMA NodeTyped ==
  ASSUME TypeInv, NEW i \in Nodes, UNCHANGED <<clock, log>>,
         NEW table, TableOf(table), rows' = [rows EXCEPT ![i] = table],
         NEW seq, \E S : seq \in Seq(S), events' = [events EXCEPT ![i] = seq],
         PassInv', UploadInv'
  PROVE  TypeInv'
<1>1. RowsInv'
  BY DEF TypeInv, RowsInv, TableOf
<1>2. EventInv'
  BY DEF TypeInv, EventInv
<1> QED
  BY <1>1, <1>2 DEF TypeInv, ClockInv, LogInv

LEMMA PassTyped ==
  ASSUME TypeInv, NEW a \in Passes, NEW i \in Nodes, clock' = clock, NEW p,
         p.phase = "loaded" => Holding(p), pass' = [pass EXCEPT ![a][i] = p]
  PROVE  PassInv'
  BY DEF TypeInv, PassInv, Holding

LEMMA CopyTyped ==
  ASSUME TypeInv, NEW i \in Nodes, clock' = clock, NEW u, u # None => Copied(u),
         upload' = [upload EXCEPT ![i] = u]
  PROVE  UploadInv'
  BY DEF TypeInv, UploadInv, Copied

\* Steps that leave the uploads under way alone.
LEMMA CopiesStay == ASSUME TypeInv, UNCHANGED <<clock, upload>> PROVE UploadInv'
  BY DEF TypeInv, UploadInv, Copied

LEMMA LoadsTyped ==
  ASSUME TypeInv, NEW a \in Passes, NEW i \in Nodes, PassLoads(a, i) PROVE TypeInv'
<1>1. PICK ts \in Began, scraped \in Scrapes[Role[i]], text \in {LogTail(i), <<>>} :
        LET parsed == Parse(text, clock)
            empty == scraped = <<>> /\ parsed.events = <<>>
        IN pass' = [pass EXCEPT ![a][i] =
             IF i \in Prometheus \/ empty THEN Idle
             ELSE [phase |-> "loaded", ts |-> ts, scraped |-> scraped, parsed |-> parsed,
                   existing |-> LatestRow(rows[i], clock)]]
  BY DEF PassLoads
<1>2. clock \in Nat
  BY KafkaAssumption DEF TypeInv, ClockInv
<1>3. ts \in 0 .. clock
  <2>1. 0 \in Int /\ clock - 1 \in Int
    BY <1>2
  <2>2. PICK m : m = Max({0, clock - 1})
    OBVIOUS
  <2>3. m \in {0, clock - 1} /\ 0 <= m
    BY <2>1, <2>2, MaxOfTwo, Zenon
  <2>4. ts \in {clock, m}
    BY <2>2 DEF Began
  <2> QED
    BY <1>2, <2>3, <2>4
<1>4. Parsed(Parse(text, clock))
  <2>1. <<>> \in Seq(LogLine)
    OBVIOUS
  <2> QED
    BY <2>1, TailType, ParseType
<1>5. Scraped(scraped)
  BY KafkaAssumption DEF Scraped, Number
<1>6. LatestRow(rows[i], clock) \in Row
  BY LatestType DEF TypeInv, RowsInv
<1>7. PICK p : p = IF i \in Prometheus \/ (scraped = <<>> /\ Parse(text, clock).events = <<>>) THEN Idle
             ELSE [phase |-> "loaded", ts |-> ts, scraped |-> scraped, parsed |-> Parse(text, clock),
                   existing |-> LatestRow(rows[i], clock)]
  OBVIOUS
<1>8. pass' = [pass EXCEPT ![a][i] = p]
  BY <1>1, <1>7
<1>9. p.phase = "loaded" => Holding(p)
  BY <1>3, <1>4, <1>5, <1>6, <1>7 DEF Holding, Idle
<1>10. UNCHANGED <<clock, log, rows, events, upload>>
  BY DEF PassLoads, env
<1>11. PassInv'
  BY <1>8, <1>9, <1>10, PassTyped
<1>12. UploadInv'
  BY <1>10, CopiesStay
<1> QED
  BY <1>10, <1>11, <1>12 DEF TypeInv, ClockInv, LogInv, RowsInv, TableOf, EventInv

LEMMA IdleTyped ==
  ASSUME TypeInv, NEW a \in Passes, NEW i \in Nodes, clock' = clock, pass' = [pass EXCEPT ![a][i] = Idle]
  PROVE  PassInv'
<1>1. PICK p : p = Idle
  OBVIOUS
<1>2. p.phase # "loaded"
  BY <1>1 DEF Idle
<1> QED
  BY <1>1, <1>2, PassTyped

LEMMA StoresTyped ==
  ASSUME TypeInv, NEW a \in Passes, NEW i \in Nodes, PassStores(a, i) PROVE TypeInv'
<1>1. PICK p : p = pass[a][i]
  OBVIOUS
<1>2. Holding(p)
  BY <1>1 DEF PassStores, TypeInv, PassInv
<1>3. PICK v : v = Merge(p.existing, p.scraped, p.parsed, TRUE)
  OBVIOUS
<1>4. v \in Row
  BY <1>2, <1>3, MergeKeeps DEF Holding
<1>5. rows' = [rows EXCEPT ![i] = With(rows[i], p.ts, v)]
  BY <1>1, <1>3 DEF PassStores
<1>6. TableOf(With(rows[i], p.ts, v))
  BY <1>2, <1>4, WithType DEF Holding, TypeInv, RowsInv
<1>7. events' = [events EXCEPT ![i] = events[i] \o p.parsed.events]
  BY <1>1 DEF PassStores
<1>8. \E S : events[i] \o p.parsed.events \in Seq(S)
  BY <1>2, ConcatIsSeq DEF Holding, Parsed, TypeInv, EventInv
<1>9. UNCHANGED <<clock, log, upload>> /\ pass' = [pass EXCEPT ![a][i] = Idle]
  BY DEF PassStores, env
<1>10. PassInv'
  BY <1>9, IdleTyped
<1>11. UploadInv'
  BY <1>9, CopiesStay
<1> QED
  BY <1>5, <1>6, <1>7, <1>8, <1>9, <1>10, <1>11, NodeTyped

LEMMA UploadTyped ==
  ASSUME TypeInv, NEW i \in Nodes, Upload(i) PROVE TypeInv'
<1>1. PICK text \in Texts :
        LET parsed == Parse(text, clock)
        IN /\ rows' = [rows EXCEPT ![i] =
                With(rows[i], clock, Merge(LatestRow(rows[i], clock), <<>>, parsed, FALSE))]
           /\ events' = [events EXCEPT ![i] = events[i] \o parsed.events]
  BY DEF Upload
<1>2. PICK parsed : parsed = Parse(text, clock)
  OBVIOUS
<1>3. Parsed(parsed)
  BY <1>2, ParseType, KafkaAssumption
<1>4. PICK v : v = Merge(LatestRow(rows[i], clock), <<>>, parsed, FALSE)
  OBVIOUS
<1>5. Scraped(<<>>)
  BY DEF Scraped
<1>6. v \in Row
  BY <1>3, <1>4, <1>5, LatestType, MergeKeeps DEF TypeInv, RowsInv
<1>7. clock \in 0 .. clock
  BY KafkaAssumption DEF TypeInv, ClockInv
<1>8. TableOf(With(rows[i], clock, v))
  BY <1>6, <1>7, WithType DEF TypeInv, RowsInv
<1>9. \E S : events[i] \o parsed.events \in Seq(S)
  BY <1>3, ConcatIsSeq DEF Parsed, TypeInv, EventInv
<1>10. UNCHANGED <<clock, log, pass, upload>>
  BY DEF Upload, env
<1>11. PassInv'
  BY <1>10 DEF TypeInv, PassInv, Holding
<1>12. UploadInv'
  BY <1>10, CopiesStay
<1> QED
  BY <1>1, <1>2, <1>4, <1>8, <1>9, <1>10, <1>11, <1>12, NodeTyped

LEMMA ReadsTyped ==
  ASSUME TypeInv, NEW i \in Nodes, UploadReads(i) PROVE TypeInv'
<1>1. PICK u : u = [at |-> clock, row |-> LatestRow(rows[i], clock)]
  OBVIOUS
<1>2. UNCHANGED <<clock, log, rows, events, pass>> /\ upload' = [upload EXCEPT ![i] = u]
  BY <1>1 DEF UploadReads, env
<1>3. Copied(u)
  <2>1. clock \in 0 .. clock
    BY KafkaAssumption DEF TypeInv, ClockInv
  <2>2. LatestRow(rows[i], clock) \in Row
    BY LatestType DEF TypeInv, RowsInv
  <2> QED
    BY <1>1, <2>1, <2>2 DEF Copied
<1>4. UploadInv'
  BY <1>2, <1>3, CopyTyped
<1> QED
  BY <1>2, <1>4 DEF TypeInv, ClockInv, LogInv, RowsInv, TableOf, EventInv, PassInv, Holding

LEMMA WritesTyped ==
  ASSUME TypeInv, NEW i \in Nodes, UploadWrites(i) PROVE TypeInv'
<1>1. PICK u : u = upload[i]
  OBVIOUS
<1>2. Copied(u)
  BY <1>1 DEF UploadWrites, TypeInv, UploadInv
<1>3. UNCHANGED <<clock, log, events, pass>> /\ upload' = [upload EXCEPT ![i] = None]
  BY DEF UploadWrites, env
<1>4. TableOf(With(rows[i], u.at, u.row))
  BY <1>2, WithType DEF Copied, TypeInv, RowsInv
<1>5. rows' = [rows EXCEPT ![i] = With(rows[i], u.at, u.row)]
  BY <1>1 DEF UploadWrites
<1>6. RowsInv'
  BY <1>3, <1>4, <1>5 DEF TypeInv, RowsInv, TableOf
<1>7. UploadInv'
  BY <1>3, CopyTyped
<1> QED
  BY <1>3, <1>6, <1>7 DEF TypeInv, ClockInv, LogInv, EventInv, PassInv, Holding

LEMMA KeptEvents ==
  ASSUME NEW seq, \E S : seq \in Seq(S), NEW t
  PROVE  \E S : EventsSince(seq, t) \in Seq(S)
<1>1. PICK K : K = {k \in DOMAIN seq : seq[k].ts >= t}
  OBVIOUS
<1>2. Cardinality(K) \in Nat
  <2>1. IsFiniteSet(DOMAIN seq)
    <3>1. DOMAIN seq = 1 .. Len(seq) /\ Len(seq) \in Nat
      OBVIOUS
    <3> QED
      BY <3>1, FS_Interval
  <2>2. K \in SUBSET DOMAIN seq
    BY <1>1
  <2> QED
    BY <2>1, <2>2, FS_Subset, FS_CardinalityType
<1>3. PICK f : f = EventsSince(seq, t)
  OBVIOUS
<1>4. f = [n \in 1 .. Cardinality(K) |-> f[n]]
  BY <1>1, <1>3 DEF EventsSince
<1>5. \E S : f \in Seq(S)
  BY <1>2, <1>4, Enumerated
<1> QED
  BY <1>3, <1>5

LEMMA SinceType == ASSUME NEW table, TableOf(table), NEW t PROVE TableOf(Since(table, t))
  BY DEF TableOf, Since

LEMMA PruneTyped == ASSUME TypeInv, Prune PROVE TypeInv'
<1>1. PICK ts \in Began : /\ rows' = [i \in Nodes |-> Since(rows[i], ts - Retention)]
                         /\ events' = [i \in Nodes |-> EventsSince(events[i], ts - Retention)]
  BY DEF Prune
<1>2. UNCHANGED <<clock, log, pass, upload>>
  BY DEF Prune, env
<1>3. \A i \in Nodes : TableOf(rows'[i])
  <2>1. ASSUME NEW i \in Nodes PROVE TableOf(rows'[i])
    <3>1. TableOf(Since(rows[i], ts - Retention))
      BY SinceType DEF TypeInv, RowsInv
    <3> QED
      BY <1>1, <3>1
  <2> QED
    BY <2>1
<1>4. RowsInv'
  BY <1>1, <1>2, <1>3 DEF RowsInv, TableOf
<1>5. EventInv'
  <2>1. ASSUME NEW i \in Nodes PROVE \E S : events'[i] \in Seq(S)
    <3>1. \E S : EventsSince(events[i], ts - Retention) \in Seq(S)
      BY KeptEvents DEF TypeInv, EventInv
    <3> QED
      BY <1>1, <3>1
  <2> QED
    BY <1>1, <2>1 DEF EventInv
<1> QED
  BY <1>2, <1>4, <1>5 DEF TypeInv, ClockInv, LogInv, PassInv, Holding, UploadInv, Copied

LEMMA NextTyped == TypeInv /\ [Next]_vars => TypeInv'
<1> SUFFICES ASSUME TypeInv, [Next]_vars PROVE TypeInv'
  OBVIOUS
<1>1. ASSUME NEW a \in Passes, NEW i \in Nodes, PassFails(a, i) PROVE TypeInv'
  <2>1. UNCHANGED <<clock, log, rows, events, upload>> /\ pass' = [pass EXCEPT ![a][i] = Idle]
    BY <1>1 DEF PassFails, env
  <2>2. PassInv'
    BY <2>1, IdleTyped
  <2>3. UploadInv'
    BY <2>1, CopiesStay
  <2> QED
    BY <2>1, <2>2, <2>3 DEF TypeInv, ClockInv, LogInv, RowsInv, TableOf, EventInv
<1>2. CASE UNCHANGED vars
  BY <1>2 DEF vars, env, TypeInv, ClockInv, LogInv, RowsInv, TableOf, EventInv, PassInv, Holding,
              UploadInv, Copied
<1>3. ASSUME NEW i \in Nodes, UploadFails(i) PROVE TypeInv'
  <2>1. UNCHANGED <<clock, log, rows, events, pass>> /\ upload' = [upload EXCEPT ![i] = None]
    BY <1>3 DEF UploadFails, env
  <2>2. UploadInv'
    BY <2>1, CopyTyped
  <2> QED
    BY <2>1, <2>2 DEF TypeInv, ClockInv, LogInv, RowsInv, TableOf, EventInv, PassInv, Holding
<1> QED
  BY <1>1, <1>2, <1>3, AdvanceTyped, PruneTyped, LogTyped, UploadTyped, ReadsTyped, WritesTyped,
     LoadsTyped, StoresTyped DEF Next

\* Tables, events and what passes hold stay of their types (for all constants).
THEOREM TypeCorrect == Spec => []TypeInv
  BY InitTyped, NextTyped, PTL DEF Spec

-----------------------------------------------------------------------------
(* Only a scrape clears *)

Fell(old, new) == {c \in {"urp", "offline"} : Value(new[c]) < Value(old[c])}
Gone(old, new) == {c \in {"fsync", "sessions"} : Value(old[c]) > 0 /\ Value(new[c]) = 0}

LEMMA RowValues == ASSUME NEW row \in Row PROVE \A c \in KafkaColumns : Value(row[c]) \in Nat
  BY ValueType DEF Row, Number

LEMMA SameRowKeeps == ASSUME NEW row \in Row PROVE Fell(row, row) \cup Gone(row, row) = {}
<1>1. \A c \in {"urp", "offline", "fsync", "sessions"} : Value(row[c]) \in Nat
  BY RowValues DEF KafkaColumns, BrokerColumns, ZkColumns
<1> QED
  BY <1>1 DEF Fell, Gone

\* A row merged from another one and written takes off only what was scraped.
LEMMA MergedRowKeeps ==
  ASSUME ClockInv, NEW table, TableOf(table), NEW t \in 0 .. clock,
         NEW scraped, NEW parsed, NEW expands \in BOOLEAN, Scraped(scraped), Parsed(parsed)
  PROVE  LET old == LatestRow(table, clock)
             new == LatestRow(With(table, t, Merge(old, scraped, parsed, expands)), clock)
         IN Fell(old, new) \cup Gone(old, new) \subseteq DOMAIN scraped
<1>1. PICK old : old = LatestRow(table, clock)
  OBVIOUS
<1>2. PICK v : v = Merge(old, scraped, parsed, expands)
  OBVIOUS
<1>3. PICK new : new = LatestRow(With(table, t, v), clock)
  OBVIOUS
<1>4. old \in Row
  BY <1>1, LatestType
<1>5. /\ v \in Row
      /\ \A c \in {"urp", "offline"} \ DOMAIN scraped : Value(old[c]) <= Value(v[c])
      /\ \A c \in {"fsync", "sessions"} \ DOMAIN scraped : Value(old[c]) > 0 => Value(v[c]) > 0
  BY <1>2, <1>4, MergeKeeps
<1>6. new \in {v, old}
  BY <1>1, <1>3, <1>5, LatestWith
<1>7. Fell(old, v) \cup Gone(old, v) \subseteq DOMAIN scraped
  <2>1. \A c \in {"urp", "offline", "fsync", "sessions"} : Value(old[c]) \in Nat /\ Value(v[c]) \in Nat
    BY <1>4, <1>5, RowValues DEF KafkaColumns, BrokerColumns, ZkColumns
  <2> QED
    BY <1>5, <2>1 DEF Fell, Gone
<1>8. Fell(old, new) \cup Gone(old, new) \subseteq DOMAIN scraped
  BY <1>4, <1>6, <1>7, SameRowKeeps
<1> QED
  BY <1>1, <1>2, <1>3, <1>8

Excused(i) ==
  LET old == LatestRow(rows[i], clock)
      new == LatestRow(rows'[i], clock)
      lost == Fell(old, new) \cup Gone(old, new)
  IN lost # {} =>
       \/ \E a \in Passes :
            pass[a][i].phase = "loaded" /\ (lost \subseteq DOMAIN pass[a][i].scraped \/ pass[a][i].existing # old)
       \/ upload[i] # None /\ upload[i].row # old
       \/ clock - LatestTime(rows[i], clock) > Retention

\* What retention leaves of a table has the same latest row, unless that row itself
\* was older.
LEMMA LatestSince ==
  ASSUME ClockInv, NEW table, TableOf(table), NEW t \in Int
  PROVE  \/ LatestRow(Since(table, t), clock) = LatestRow(table, clock)
         \/ LatestTime(table, clock) \in Int /\ LatestTime(table, clock) < t
<1>1. PICK new : new = Since(table, t)
  OBVIOUS
<1>2. DOMAIN new = {u \in DOMAIN table : u >= t} /\ \A u \in DOMAIN new : new[u] = table[u]
  BY <1>1 DEF Since
<1>3. clock \in Nat /\ DOMAIN table \subseteq 0 .. clock /\ DOMAIN new \subseteq 0 .. clock
  BY <1>2, KafkaAssumption DEF ClockInv, TableOf
<1>4. CASE DOMAIN table = {}
  <2>1. DOMAIN new = {}
    BY <1>2, <1>4
  <2> QED
    BY <1>1, <1>3, <1>4, <2>1, LatestIs
<1>5. CASE DOMAIN table # {}
  <2>1. PICK m \in DOMAIN table : /\ \A u \in DOMAIN table : u <= m
                                 /\ LatestRow(table, clock) = table[m]
                                 /\ LatestTime(table, clock) = m
    BY <1>3, <1>5, LatestIs
  <2>2. m \in Int
    BY <1>3
  <2>3. CASE m < t
    BY <2>1, <2>2, <2>3
  <2>4. CASE ~(m < t)
    <3>1. m \in DOMAIN new
      BY <1>2, <2>2, <2>4
    <3>2. PICK n \in DOMAIN new : (\A u \in DOMAIN new : u <= n) /\ LatestRow(new, clock) = new[n]
      BY <1>3, <3>1, LatestIs
    <3>3. n = m
      <4>1. m <= n /\ n <= m /\ n \in Int
        BY <1>2, <1>3, <2>1, <3>1, <3>2
      <4> QED
        BY <2>2, <4>1
    <3> QED
      BY <1>1, <1>2, <2>1, <3>1, <3>2, <3>3
  <2> QED
    BY <2>3, <2>4
<1> QED
  BY <1>4, <1>5

LEMMA NextClears == TypeInv /\ Next => \A i \in Nodes : Excused(i)
<1> SUFFICES ASSUME TypeInv, Next, NEW i \in Nodes PROVE Excused(i)
  OBVIOUS
<1>1. ClockInv /\ TableOf(rows[i]) /\ LatestRow(rows[i], clock) \in Row
  BY LatestType DEF TypeInv, RowsInv
<1>2. CASE rows'[i] = rows[i]
  BY <1>1, <1>2, SameRowKeeps DEF Excused
<1>3. ASSUME Upload(i) PROVE Excused(i)
  <2>1. PICK text \in Texts :
          rows' = [rows EXCEPT ![i] =
            With(rows[i], clock, Merge(LatestRow(rows[i], clock), <<>>, Parse(text, clock), FALSE))]
    BY <1>3 DEF Upload
  <2>2. PICK parsed : parsed = Parse(text, clock)
    OBVIOUS
  <2>3. Parsed(parsed) /\ Scraped(<<>>)
    BY <2>2, ParseType, KafkaAssumption DEF Scraped
  <2>4. rows'[i] = With(rows[i], clock, Merge(LatestRow(rows[i], clock), <<>>, parsed, FALSE))
    BY <2>1, <2>2 DEF TypeInv, RowsInv
  <2>5. clock \in 0 .. clock
    BY <1>1, KafkaAssumption DEF ClockInv
  <2>6. Fell(LatestRow(rows[i], clock), LatestRow(rows'[i], clock))
        \cup Gone(LatestRow(rows[i], clock), LatestRow(rows'[i], clock)) \subseteq DOMAIN <<>>
    BY <1>1, <2>3, <2>4, <2>5, MergedRowKeeps
  <2>7. DOMAIN <<>> = {}
    OBVIOUS
  <2> QED
    BY <2>6, <2>7, Zenon DEF Excused
<1>4. ASSUME NEW a \in Passes, PassStores(a, i) PROVE Excused(i)
  <2>1. PICK p : p = pass[a][i]
    OBVIOUS
  <2>2. p.phase = "loaded" /\ Holding(p)
    BY <1>4, <2>1 DEF PassStores, TypeInv, PassInv
  <2>3. rows'[i] = With(rows[i], p.ts, Merge(p.existing, p.scraped, p.parsed, TRUE))
    BY <1>4, <2>1 DEF PassStores, TypeInv, RowsInv
  <2>4. CASE p.existing # LatestRow(rows[i], clock)
    BY <2>1, <2>2, <2>4 DEF Excused
  <2>5. CASE p.existing = LatestRow(rows[i], clock)
    <3>1. Fell(LatestRow(rows[i], clock), LatestRow(rows'[i], clock))
          \cup Gone(LatestRow(rows[i], clock), LatestRow(rows'[i], clock)) \subseteq DOMAIN p.scraped
      BY <1>1, <2>2, <2>3, <2>5, MergedRowKeeps DEF Holding
    <3> QED
      BY <2>1, <2>2, <3>1 DEF Excused
  <2> QED
    BY <2>4, <2>5
<1>5. ASSUME NEW j \in Nodes, j # i,
             Upload(j) \/ UploadWrites(j) \/ \E a \in Passes : PassStores(a, j)
      PROVE  rows'[i] = rows[i]
  BY <1>5 DEF Upload, UploadWrites, PassStores, TypeInv, RowsInv
<1>6. ASSUME \/ Advance
             \/ \E j \in Nodes : Log(j) \/ UploadReads(j) \/ UploadFails(j)
             \/ \E a \in Passes, j \in Nodes : PassLoads(a, j) \/ PassFails(a, j)
      PROVE  rows' = rows
  BY <1>6 DEF Advance, Log, UploadReads, UploadFails, PassLoads, PassFails
<1>7. ASSUME UploadWrites(i) PROVE Excused(i)
  <2>1. PICK u : u = upload[i]
    OBVIOUS
  <2>2. upload[i] # None /\ Copied(u) /\ rows'[i] = With(rows[i], u.at, u.row)
    BY <1>7, <2>1 DEF UploadWrites, TypeInv, UploadInv, RowsInv
  <2>3. LatestRow(rows'[i], clock) \in {u.row, LatestRow(rows[i], clock)}
    BY <1>1, <2>2, LatestWith DEF Copied
  <2>4. CASE u.row # LatestRow(rows[i], clock)
    BY <2>1, <2>2, <2>4 DEF Excused
  <2>5. CASE LatestRow(rows'[i], clock) = LatestRow(rows[i], clock)
    BY <1>1, <2>5, SameRowKeeps DEF Excused
  <2> QED
    BY <2>3, <2>4, <2>5
<1>8. ASSUME Prune PROVE Excused(i)
  <2>1. PICK ts \in Began : rows' = [j \in Nodes |-> Since(rows[j], ts - Retention)]
    BY <1>8 DEF Prune
  <2>2. clock \in Nat /\ Retention \in Nat
    BY <1>1, KafkaAssumption DEF ClockInv
  <2>3. ts \in Int /\ ts <= clock
    <3>1. 0 \in Int /\ clock - 1 \in Int
      BY <2>2
    <3>2. PICK m : m = Max({0, clock - 1})
      OBVIOUS
    <3>3. m \in {0, clock - 1}
      BY <3>1, <3>2, MaxOfTwo, Zenon
    <3>4. ts \in {clock, m}
      BY <3>2 DEF Began
    <3> QED
      BY <2>2, <3>3, <3>4
  <2>4. PICK t \in Int : t = ts - Retention
    BY <2>2, <2>3
  <2>5. rows'[i] = Since(rows[i], t)
    BY <2>1, <2>4
  <2>6. CASE LatestRow(rows'[i], clock) = LatestRow(rows[i], clock)
    BY <1>1, <2>6, SameRowKeeps DEF Excused
  <2>7. CASE LatestTime(rows[i], clock) \in Int /\ LatestTime(rows[i], clock) < t
    <3>1. clock - LatestTime(rows[i], clock) > Retention
      BY <2>2, <2>3, <2>4, <2>7
    <3> QED
      BY <3>1 DEF Excused
  <2> QED
    BY <1>1, <2>5, <2>6, <2>7, LatestSince
<1> QED
  BY <1>2, <1>3, <1>4, <1>5, <1>6, <1>7, <1>8 DEF Next

\* What takes warnings off a row is a scrape that reports them, a write of what was
\* read before another write, or retention (OnlyScrapeClears, for all constants).
THEOREM WarningsStay == Spec => OnlyScrapeClears
<1>1. TypeInv /\ [Next]_vars =>
        [\A i \in Nodes :
           LET old == LatestRow(rows[i], clock)
               new == LatestRow(rows'[i], clock)
               fell == {c \in {"urp", "offline"} : Value(new[c]) < Value(old[c])}
               gone == {c \in {"fsync", "sessions"} : Value(old[c]) > 0 /\ Value(new[c]) = 0}
           IN fell \cup gone # {} =>
                \/ \E a \in Passes :
                     /\ pass[a][i].phase = "loaded"
                     /\ fell \cup gone \subseteq DOMAIN pass[a][i].scraped \/ pass[a][i].existing # old
                \/ upload[i] # None /\ upload[i].row # old
                \/ clock - LatestTime(rows[i], clock) > Retention]_<<rows>>
  <2> SUFFICES ASSUME TypeInv, [Next]_vars, rows' # rows
               PROVE  \A i \in Nodes :
           LET old == LatestRow(rows[i], clock)
               new == LatestRow(rows'[i], clock)
               fell == {c \in {"urp", "offline"} : Value(new[c]) < Value(old[c])}
               gone == {c \in {"fsync", "sessions"} : Value(old[c]) > 0 /\ Value(new[c]) = 0}
           IN fell \cup gone # {} =>
                \/ \E a \in Passes :
                     /\ pass[a][i].phase = "loaded"
                     /\ fell \cup gone \subseteq DOMAIN pass[a][i].scraped \/ pass[a][i].existing # old
                \/ upload[i] # None /\ upload[i].row # old
                \/ clock - LatestTime(rows[i], clock) > Retention
    OBVIOUS
  <2>1. Next
    BY DEF vars, env
  <2>2. \A i \in Nodes : Excused(i)
    BY <2>1, NextClears
  <2> QED
    BY <2>2, Zenon DEF Excused, Fell, Gone
<1> QED
  BY <1>1, InitTyped, NextTyped, PTL DEF Spec, OnlyScrapeClears

-----------------------------------------------------------------------------
(* The chart covers the page *)

LEMMA BrokersFinite == \A role : IsFiniteSet(OfRole(role))
<1>1. \A role : OfRole(role) \in SUBSET Nodes
  BY DEF OfRole
<1> QED
  BY <1>1, KafkaAssumption, FS_Subset

\* Where a node has a row, the latest one is that of the latest time.
LEMMA LatestOf ==
  ASSUME TypeInv, NEW i \in Nodes, LatestTime(rows[i], clock) # -1
  PROVE  /\ LatestTime(rows[i], clock) \in DOMAIN rows[i]
         /\ LatestTime(rows[i], clock) \in Nat
         /\ LatestTime(rows[i], clock) <= clock
         /\ Metrics(i) = rows[i][LatestTime(rows[i], clock)]
<1>1. clock \in Nat /\ DOMAIN rows[i] \subseteq 0 .. clock
  BY KafkaAssumption DEF TypeInv, ClockInv, RowsInv, TableOf
<1>2. DOMAIN rows[i] # {}
  BY <1>1, LatestIs
<1>3. PICK m \in DOMAIN rows[i] : LatestRow(rows[i], clock) = rows[i][m] /\ LatestTime(rows[i], clock) = m
  BY <1>1, <1>2, LatestIs
<1> QED
  BY <1>1, <1>3 DEF Metrics

LEMMA MetricsType ==
  ASSUME TypeInv, NEW i \in Nodes
  PROVE  Metrics(i) \in Row /\ \A c \in KafkaColumns : Value(Metrics(i)[c]) \in Nat
<1>1. Metrics(i) \in Row
  BY LatestType DEF TypeInv, RowsInv, Metrics
<1> QED
  BY <1>1, RowValues

LEMMA WorstCovers ==
  ASSUME TypeInv, NEW i \in Nodes, NEW c \in KafkaColumns, NEW b
  PROVE  /\ Worst(i, c, b) \in Nat
         /\ \A t \in Shown(i) : BucketOf(t) = b => Value(rows[i][t][c]) <= Worst(i, c, b)
<1>1. PICK S : S = {u \in Shown(i) : BucketOf(u) = b}
  OBVIOUS
<1>2. IsFiniteSet(S)
  <2>1. clock \in Nat /\ DOMAIN rows[i] \subseteq 0 .. clock
    BY KafkaAssumption DEF TypeInv, ClockInv, RowsInv, TableOf
  <2>2. S \in SUBSET (0 .. clock)
    BY <1>1, <2>1 DEF Shown
  <2>3. IsFiniteSet(0 .. clock)
    BY <2>1, FS_Interval
  <2> QED
    BY <2>2, <2>3, FS_Subset
<1>3. PICK f : f = [t \in S |-> Value(rows[i][t][c])]
  OBVIOUS
<1>4. f \in [S -> Nat]
  <2>1. ASSUME NEW t \in S PROVE Value(rows[i][t][c]) \in Nat
    <3>1. rows[i][t] \in Row
      BY <1>1 DEF Shown, TypeInv, RowsInv, TableOf
    <3> QED
      BY <3>1, RowValues
  <2> QED
    BY <1>3, <2>1
<1>5. PICK T : T = {0} \cup {f[t] : t \in S}
  OBVIOUS
<1>6. Max(T) \in Nat /\ \A t \in S : f[t] <= Max(T)
  BY <1>2, <1>4, <1>5, MaxOfImage
<1>7. {f[t] : t \in S} = {Value(rows[i][t][c]) : t \in S}
  BY <1>3
<1>8. Worst(i, c, b) = Max(T)
  BY <1>1, <1>5, <1>7 DEF Worst
<1> QED
  BY <1>1, <1>3, <1>6, <1>8

LEMMA TypedCovers == TypeInv => ChartCoversPage
<1> SUFFICES ASSUME TypeInv, NEW i \in OfRole("broker"), NEW c \in {"urp", "offline"},
                    NEW t, t = LatestTime(rows[i], clock), NEW b, b = BucketOf(t),
                    t # -1, clock - t <= Day
             PROVE  b \in DOMAIN Chart(c) /\ Chart(c)[b] >= Value(Metrics(i)[c])
  BY DEF ChartCoversPage, BucketOf
<1>1. i \in Nodes /\ c \in KafkaColumns
  BY DEF OfRole, KafkaColumns, BrokerColumns
<1>2. t \in DOMAIN rows[i] /\ t \in Nat /\ t <= clock /\ Metrics(i) = rows[i][t]
  BY <1>1, LatestOf
<1>3. t \in Shown(i)
  <2>1. clock \in Nat /\ Day \in Nat
    BY KafkaAssumption DEF TypeInv, ClockInv
  <2>2. clock - Day <= t
    BY <1>2, <2>1
  <2> QED
    BY <1>2, <2>2 DEF Shown
<1>4. PICK f : f = [j \in OfRole("broker") |-> Worst(j, c, b)]
  OBVIOUS
<1>5. b \in DOMAIN Chart(c) /\ Chart(c)[b] = SumFunction(f)
  BY <1>1, <1>3, <1>4 DEF Chart
<1>6. f \in [OfRole("broker") -> Nat]
  <2>1. \A j \in OfRole("broker") : j \in Nodes
    BY DEF OfRole
  <2> QED
    BY <1>1, <1>4, <2>1, WorstCovers
<1>7. SumFunction(f) \in Nat /\ f[i] <= SumFunction(f)
  BY <1>6, BrokersFinite, SumAtLeast
<1>8. f[i] \in Nat /\ Value(Metrics(i)[c]) <= f[i] /\ Value(Metrics(i)[c]) \in Nat
  BY <1>1, <1>2, <1>3, <1>4, WorstCovers, MetricsType
<1> QED
  BY <1>5, <1>7, <1>8

\* The chart never hides what the page shows (ChartCoversPage, for all constants).
THEOREM ChartsCover == Spec => []ChartCoversPage
  BY InitTyped, NextTyped, TypedCovers, PTL DEF Spec

-----------------------------------------------------------------------------
(* Alerts reach the page *)

LEMMA TotalCovers ==
  ASSUME TypeInv, NEW c \in KafkaColumns, NEW i \in OfRole("broker")
  PROVE  Total(c) \in Nat /\ Value(Metrics(i)[c]) <= Total(c)
<1>1. PICK f : f = [j \in OfRole("broker") |-> Value(Metrics(j)[c])]
  OBVIOUS
<1>2. f \in [OfRole("broker") -> Nat]
  <2>1. \A j \in OfRole("broker") : j \in Nodes
    BY DEF OfRole
  <2> QED
    BY <1>1, <2>1, MetricsType
<1>3. SumFunction(f) \in Nat /\ f[i] <= SumFunction(f)
  BY <1>2, BrokersFinite, SumAtLeast
<1>4. Total(c) = SumFunction(f)
  BY <1>1 DEF Total
<1> QED
  BY <1>1, <1>3, <1>4

LEMMA LeastIdleIs ==
  ASSUME TypeInv, NEW i \in OfRole("broker"), Below(Metrics(i)["idle"], 250)
  PROVE  LeastIdle < 350
<1>1. "idle" \in KafkaColumns
  BY DEF KafkaColumns, BrokerColumns
<1>2. PICK f : f = [j \in OfRole("broker") |-> Metrics(j)["idle"]]
  OBVIOUS
<1>3. \A j \in OfRole("broker") : f[j] \in Number
  BY <1>1, <1>2, MetricsType DEF OfRole, Row, Number
<1>4. PICK T : T = {f[j] : j \in OfRole("broker")}
  OBVIOUS
<1>5. IsFiniteSet(T)
  <2>1. f \in Surjection(OfRole("broker"), T)
    BY <1>2, <1>4 DEF Surjection
  <2> QED
    BY <2>1, BrokersFinite, FS_Surjection
<1>6. PICK U : U = ({1000} \cup T) \ {None}
  OBVIOUS
<1>7. IsFiniteSet(U)
  <2>1. IsFiniteSet(T \cup {1000})
    BY <1>5, FS_AddElement
  <2>2. U \in SUBSET (T \cup {1000})
    BY <1>6
  <2> QED
    BY <2>1, <2>2, FS_Subset
<1>8. \A x \in U : x \in Int
  BY <1>3, <1>4, <1>6 DEF Number
<1>9. f[i] \in U /\ f[i] < 250
  BY <1>2, <1>4, <1>6 DEF Below
<1>10. U \subseteq Int /\ U # {}
  BY <1>8, <1>9
<1>11. Min(U) \in U /\ \A x \in U : Min(U) <= x
  BY <1>7, <1>10, MinExists, Zenon
<1>12. PICK m : m = Min(U)
  OBVIOUS
<1>13. m \in Int /\ m <= f[i] /\ f[i] \in Int
  BY <1>8, <1>9, <1>11, <1>12, Zenon
<1>14. LeastIdle = m
  <2>1. T = {Metrics(j)["idle"] : j \in OfRole("broker")}
    BY <1>2, <1>4
  <2> QED
    BY <1>6, <1>12, <2>1 DEF LeastIdle
<1> QED
  BY <1>9, <1>13, <1>14

LEMMA CountsType ==
  ASSUME NEW seq, \E S : seq \in Seq(S), NEW since, NEW cat \in Categories
  PROVE  RecentCounts(seq, since)[cat] \in Nat
<1>1. PICK R : R = {k \in DOMAIN seq : seq[k].ts >= since}
  OBVIOUS
<1>2. PICK K : K = {k \in {k \in R : Cardinality({n \in R : seq[n].ts > seq[k].ts \/ (seq[k].ts = seq[n].ts /\ n > k)}) < EventLimit}
                      : seq[k].cat = cat}
  OBVIOUS
<1>3. RecentCounts(seq, since)[cat] = Cardinality(K)
  BY <1>1, <1>2 DEF RecentCounts
<1>4. K \in SUBSET DOMAIN seq
  BY <1>1, <1>2
<1>5. IsFiniteSet(DOMAIN seq)
  <2>1. DOMAIN seq = 1 .. Len(seq) /\ Len(seq) \in Nat
    OBVIOUS
  <2> QED
    BY <2>1, FS_Interval
<1> QED
  BY <1>3, <1>4, <1>5, FS_Subset, FS_CardinalityType

LEMMA WarningsType ==
  ASSUME TypeInv, NEW i \in Nodes, NEW c \in KafkaColumns, NEW cat \in Categories
  PROVE  /\ Warnings(rows[i], events[i], c, cat) \in Nat
         /\ Value(Metrics(i)[c]) <= Warnings(rows[i], events[i], c, cat)
<1>1. RecentCounts(events[i], clock - Day)[cat] \in Nat
  BY CountsType DEF TypeInv, EventInv
<1>2. Value(Metrics(i)[c]) \in Nat
  BY MetricsType
<1> QED
  BY <1>1, <1>2 DEF Warnings, Metrics

LEMMA ZkCategories ==
  /\ "zk_fsync_stall" \in Categories /\ "zk_session_expired" \in Categories
  /\ {"urp", "offline", "idle", "fsync", "sessions"} \subseteq KafkaColumns
<1>1. Patterns[1] = "zk_fsync_stall" /\ Patterns[2] = "zk_session_expired" /\ {1, 2} \subseteq DOMAIN Patterns
  BY DEF Patterns
<1> QED
  BY <1>1 DEF Categories, ToSet, KafkaColumns, BrokerColumns, ZkColumns

\* A penalty over 100 costs the A.
LEMMA NotAnA ==
  ASSUME NEW penalty \in Int, penalty > 100
  PROVE  KafkaGrade(Max({0, 1000 - penalty})) # "A"
<1>1. PICK a \in Int : a = 1000 - penalty
  OBVIOUS
<1>2. 0 \in Int
  OBVIOUS
<1>3. Max({0, a}) \in {0, a}
  BY <1>2, MaxOfTwo, Zenon
<1>4. Max({0, a}) = 0 \/ Max({0, a}) = a
  BY <1>3
<1>5. ~(a >= 900) /\ ~(0 >= 900)
  BY <1>1
<1> QED
  BY <1>1, <1>4, <1>5 DEF KafkaGrade

LEMMA ZkPenaltyIs ==
  ASSUME NEW m \in Row, NEW logs, logs["zk_session_expired"] \in Nat, Value(m["fsync"]) > 0
  PROVE  ZkPenalty(m, logs) \in Int /\ ZkPenalty(m, logs) > 100
<1>1. PICK n \in Nat : n = Value(m["fsync"]) /\ n > 0 /\ n = m["fsync"]
  BY RowValues, ZkCategories DEF Value
<1>2. Or(m["fsync"], logs["zk_fsync_stall"]) = n
  BY <1>1 DEF Or
<1>3. PICK b \in Int : b = 150 + n * 50 /\ b >= 200
  <2>1. n * 50 \in Int /\ n * 50 >= 50
    BY <1>1
  <2> QED
    BY <2>1
<1>4. PICK q : q = Min({350, b})
  OBVIOUS
<1>5. q \in Int /\ q >= 200
  <2>1. 350 \in Int /\ b \in Int
    OBVIOUS
  <2>2. q \in {350, b}
    BY <1>4, <2>1, MinOfTwo, Zenon
  <2> QED
    BY <1>3, <2>2
<1>6. PICK gone : gone = Or(m["sessions"], logs["zk_session_expired"])
  OBVIOUS
<1>7. PICK p2 : p2 = IF AtLeast(m["zkAvg"], 500) THEN 300 ELSE If(AtLeast(m["zkAvg"], 150), 120)
  OBVIOUS
<1>8. PICK p3 : p3 = IF AtLeast(m["zkMax"], 6000) THEN 180 ELSE If(AtLeast(m["zkMax"], 1500), 80)
  OBVIOUS
<1>9. PICK p4 : p4 = IF AtLeast(m["outstanding"], 40) THEN 220 ELSE If(AtLeast(m["outstanding"], 10), 100)
  OBVIOUS
<1>10. PICK p5 : p5 = IF gone >= 3 THEN 200 ELSE If(gone >= 1, 80)
  OBVIOUS
<1>11. p2 \in Nat /\ p3 \in Nat /\ p4 \in Nat /\ p5 \in Nat
  BY <1>7, <1>8, <1>9, <1>10 DEF If
<1>12. ZkPenalty(m, logs) = q + p2 + p3 + p4 + p5
  <2>1. If(n > 0, Min({350, 150 + n * 50})) = q
    BY <1>1, <1>3, <1>4 DEF If
  <2> QED
    BY <1>2, <1>6, <1>7, <1>8, <1>9, <1>10, <2>1 DEF ZkPenalty
<1> QED
  BY <1>5, <1>11, <1>12

LEMMA BrokerPenaltyIs ==
  ASSUME NEW m \in Row, NEW logs, Value(m["offline"]) > 0 \/ Value(m["urp"]) > 0
  PROVE  BrokerPenalty(m, logs) \in Int /\ BrokerPenalty(m, logs) > 100
<1>1. PICK n \in Nat : n = Value(m["urp"])
  BY RowValues, ZkCategories
<1>2. PICK b \in Int : b = 220 + n * 15 /\ b >= 220
  <2>1. n * 15 \in Nat
    BY <1>1
  <2> QED
    BY <2>1
<1>3. PICK q : q = Min({380, b})
  OBVIOUS
<1>4. q \in Int /\ q >= 220
  <2>1. 380 \in Int /\ b \in Int
    OBVIOUS
  <2>2. q \in {380, b}
    BY <1>3, <2>1, MinOfTwo, Zenon
  <2> QED
    BY <1>2, <2>2
<1>5. PICK p1 : p1 = If(AtLeast(m["offline"], 1), 450)
  OBVIOUS
<1>6. PICK p2 : p2 = If(AtLeast(m["urp"], 1), q)
  OBVIOUS
<1>7. PICK p3 : p3 = If(AtLeast(m["unclean"], 1), 300)
  OBVIOUS
<1>8. PICK p4 : p4 = IF AtLeast(m["shrink"], 100) THEN 150 ELSE If(logs["isr_shrink"] > 0, 120)
  OBVIOUS
<1>9. PICK p5 : p5 = IF Below(m["idle"], 180) THEN 220 ELSE If(Below(m["idle"], 350), 100)
  OBVIOUS
<1>10. PICK p6 : p6 = IF Below(m["netIdle"], 180) THEN 180 ELSE If(Below(m["netIdle"], 350), 80)
  OBVIOUS
<1>11. PICK p7 : p7 = IF AtLeast(m["produce"], 3000) THEN 180 ELSE If(AtLeast(m["produce"], 1200), 80)
  OBVIOUS
<1>12. PICK p8 : p8 = If(AtLeast(m["fetch"], 4000), 100)
  OBVIOUS
<1>13. PICK p9 : p9 = If(AtLeast(m["queue"], 80), 120)
  OBVIOUS
<1>14. BrokerPenalty(m, logs) = p1 + p2 + p3 + p4 + p5 + p6 + p7 + p8 + p9
  <2>1. p2 = If(AtLeast(m["urp"], 1), Min({380, 220 + Value(m["urp"]) * 15}))
    BY <1>1, <1>2, <1>3, <1>6
  <2> QED
    BY <1>5, <1>7, <1>8, <1>9, <1>10, <1>11, <1>12, <1>13, <2>1 DEF BrokerPenalty
<1>15. p3 \in Nat /\ p4 \in Nat /\ p5 \in Nat /\ p6 \in Nat /\ p7 \in Nat /\ p8 \in Nat /\ p9 \in Nat
  BY <1>7, <1>8, <1>9, <1>10, <1>11, <1>12, <1>13 DEF If
<1>16. p1 \in Nat /\ p2 \in Nat /\ (p1 > 100 \/ p2 > 100)
  <2>1. p1 \in Nat /\ p2 \in Nat
    BY <1>4, <1>5, <1>6 DEF If
  <2>2. CASE Value(m["offline"]) > 0
    <3>1. m["offline"] # None /\ m["offline"] >= 1
      BY <2>2, RowValues, ZkCategories DEF Value
    <3> QED
      BY <1>5, <2>1, <3>1 DEF If, AtLeast
  <2>3. CASE Value(m["urp"]) > 0
    <3>1. m["urp"] # None /\ m["urp"] >= 1
      BY <2>3, RowValues, ZkCategories DEF Value
    <3> QED
      BY <1>4, <1>6, <2>1, <3>1 DEF If, AtLeast
  <2> QED
    BY <2>1, <2>2, <2>3
<1> QED
  BY <1>14, <1>15, <1>16


\* The alerts of one node, and what it takes for each of them to be raised.
LEMMA KafkaAlertsAre ==
  ASSUME NEW m, NEW role
  PROVE  /\ Value(m["offline"]) > 0 => <<"offline_partitions", "critical">> \in KafkaAlerts(m, role)
         /\ Value(m["urp"]) > 0 <=> <<"urp", "critical">> \in KafkaAlerts(m, role)
         /\ Below(m["idle"], 250) =>
              \E s \in {"critical", "warning"} : <<"thread_starvation", s>> \in KafkaAlerts(m, role)
         /\ role = "zookeeper" /\ Value(m["fsync"]) > 0 =>
              <<"zk_quorum_stall", "critical">> \in KafkaAlerts(m, role)
         /\ role = "zookeeper" /\ Value(m["sessions"]) > 0 =>
              \E s \in {"critical", "warning"} : <<"zk_quorum_stall", s>> \in KafkaAlerts(m, role)
         /\ <<"memory_damage", "critical">> \notin KafkaAlerts(m, role)
  BY DEF KafkaAlerts, Alert

LEMMA Severe ==
  ASSUME NEW i \in Nodes, NEW a \in NodeAlerts(i)
  PROVE  /\ a[2] = "critical" => RealtimeStatus = "critical"
         /\ a[2] = "warning" => RealtimeStatus # "ok"
<1>1. a[2] \in {b[2] : b \in UNION {NodeAlerts(j) : j \in Nodes}}
  OBVIOUS
<1> QED
  BY <1>1 DEF RealtimeStatus

\* A fresh row's alerts are the node's.
LEMMA FreshAlerts ==
  ASSUME NEW i \in Nodes, Fresh(i)
  PROVE  KafkaAlerts(Metrics(i), Role[i]) \subseteq NodeAlerts(i)
  BY DEF NodeAlerts

LEMMA BrokerReaches ==
  ASSUME TypeInv, NEW i \in Nodes, Role[i] = "broker", Fresh(i)
  PROVE  /\ (\E c \in {"offline", "urp"} : Value(Metrics(i)[c]) > 0) =>
              ClusterStatus = "critical" /\ RealtimeStatus = "critical" /\ KafkaGrade(Health(i)) # "A"
         /\ Below(Metrics(i)["idle"], 250) => ClusterStatus # "ok" /\ RealtimeStatus # "ok"
<1>1. i \in OfRole("broker") /\ LatestTime(rows[i], clock) # -1
  BY DEF OfRole, Fresh
<1>2. KafkaAlerts(Metrics(i), Role[i]) \subseteq NodeAlerts(i)
  BY FreshAlerts
<1>3. ASSUME NEW c \in {"offline", "urp"}, Value(Metrics(i)[c]) > 0
      PROVE  ClusterStatus = "critical" /\ RealtimeStatus = "critical" /\ KafkaGrade(Health(i)) # "A"
  <2>1. Total(c) > 0
    <3>1. c \in KafkaColumns
      BY ZkCategories
    <3>2. Total(c) \in Nat /\ Value(Metrics(i)[c]) <= Total(c) /\ Value(Metrics(i)[c]) \in Nat
      BY <1>1, <3>1, TotalCovers, MetricsType
    <3> QED
      BY <1>3, <3>2
  <2>2. ClusterStatus = "critical"
    BY <2>1 DEF ClusterStatus
  <2>3. RealtimeStatus = "critical"
    <3>1. <<"offline_partitions", "critical">> \in NodeAlerts(i) \/ <<"urp", "critical">> \in NodeAlerts(i)
      BY <1>2, <1>3, KafkaAlertsAre
    <3> QED
      BY <3>1, Severe
  <2>4. KafkaGrade(Health(i)) # "A"
    <3>1. Metrics(i) \in Row
      BY MetricsType
    <3>2. PICK p : p = BrokerPenalty(Metrics(i), Logs(i))
      OBVIOUS
    <3>3. p \in Int /\ p > 100
      BY <1>3, <3>1, <3>2, BrokerPenaltyIs
    <3>4. Health(i) = Max({0, 1000 - p})
      BY <1>1, <3>2 DEF Health, KafkaScore
    <3> QED
      BY <3>3, <3>4, NotAnA
  <2> QED
    BY <2>2, <2>3, <2>4
<1>4. ASSUME Below(Metrics(i)["idle"], 250) PROVE ClusterStatus # "ok" /\ RealtimeStatus # "ok"
  <2>1. ClusterStatus # "ok"
    BY <1>1, <1>4, LeastIdleIs DEF ClusterStatus
  <2>2. PICK s \in {"critical", "warning"} : <<"thread_starvation", s>> \in NodeAlerts(i)
    BY <1>2, <1>4, KafkaAlertsAre
  <2>3. RealtimeStatus # "ok"
    BY <2>2, Severe
  <2> QED
    BY <2>1, <2>3
<1> QED
  BY <1>3, <1>4

LEMMA ZooKeeperReaches ==
  ASSUME TypeInv, NEW i \in Nodes, Role[i] = "zookeeper", Fresh(i)
  PROVE  /\ Value(Metrics(i)["fsync"]) > 0 =>
              /\ ClusterStatus = "critical" /\ RealtimeStatus = "critical" /\ KafkaGrade(Health(i)) # "A"
              /\ "zk_wal_io_stall" \in NodeCauses(i)
         /\ Value(Metrics(i)["sessions"]) > 0 => ClusterStatus # "ok" /\ RealtimeStatus # "ok"
<1>1. i \in OfRole("zookeeper") /\ LatestTime(rows[i], clock) # -1
  BY DEF OfRole, Fresh
<1>2. KafkaAlerts(Metrics(i), Role[i]) \subseteq NodeAlerts(i)
  BY FreshAlerts
<1>3. Logs(i)["zk_fsync_stall"] \in Nat /\ Logs(i)["zk_session_expired"] \in Nat
  BY CountsType, ZkCategories DEF Logs, TypeInv, EventInv
<1>4. Value(Metrics(i)["fsync"]) \in Nat /\ Value(Metrics(i)["sessions"]) \in Nat
  BY MetricsType, ZkCategories
<1>5. ASSUME Value(Metrics(i)["fsync"]) > 0
      PROVE  /\ ClusterStatus = "critical" /\ RealtimeStatus = "critical" /\ KafkaGrade(Health(i)) # "A"
             /\ "zk_wal_io_stall" \in NodeCauses(i)
  <2>1. ClusterStatus = "critical"
    <3>1. PICK w \in Nat : w = FsyncWarnings(rows[i], events[i]) /\ Value(Metrics(i)["fsync"]) <= w
      BY WarningsType, ZkCategories DEF FsyncWarnings
    <3>2. w > 0
      BY <1>4, <1>5, <3>1
    <3> QED
      BY <1>1, <3>1, <3>2 DEF ClusterStatus
  <2>2. RealtimeStatus = "critical"
    <3>1. <<"zk_quorum_stall", "critical">> \in NodeAlerts(i)
      BY <1>2, <1>5, KafkaAlertsAre
    <3> QED
      BY <3>1, Severe
  <2>3. KafkaGrade(Health(i)) # "A"
    <3>1. Metrics(i) \in Row
      BY MetricsType
    <3>2. PICK p : p = ZkPenalty(Metrics(i), Logs(i))
      OBVIOUS
    <3>3. p \in Int /\ p > 100
      BY <1>3, <1>5, <3>1, <3>2, ZkPenaltyIs
    <3>4. Health(i) = Max({0, 1000 - p})
      BY <1>1, <3>2 DEF Health, KafkaScore
    <3> QED
      BY <3>3, <3>4, NotAnA
  <2>4. "zk_wal_io_stall" \in NodeCauses(i)
    <3>1. Value(Metrics(i)["fsync"]) + Logs(i)["zk_fsync_stall"] > 0
      BY <1>3, <1>4, <1>5
    <3> QED
      BY <1>1, <3>1 DEF NodeCauses, Causes, ZkCauses
  <2> QED
    BY <2>1, <2>2, <2>3, <2>4
<1>6. ASSUME Value(Metrics(i)["sessions"]) > 0 PROVE ClusterStatus # "ok" /\ RealtimeStatus # "ok"
  <2>1. ClusterStatus # "ok"
    <3>1. PICK w \in Nat : w = Expirations(rows[i], events[i]) /\ Value(Metrics(i)["sessions"]) <= w
      BY WarningsType, ZkCategories DEF Expirations
    <3>2. w > 0
      BY <1>4, <1>6, <3>1
    <3> QED
      BY <1>1, <3>1, <3>2 DEF ClusterStatus
  <2>2. PICK s \in {"critical", "warning"} : <<"zk_quorum_stall", s>> \in NodeAlerts(i)
    BY <1>2, <1>6, KafkaAlertsAre
  <2>3. RealtimeStatus # "ok"
    BY <2>2, Severe
  <2> QED
    BY <2>1, <2>3
<1> QED
  BY <1>5, <1>6

\* The hosts' rows never change while Kafka's evidence is collected.
HostInv == host \in [Nodes -> HostRows]

LEMMA HostStays == HostInv /\ [Next]_vars => HostInv'
  BY DEF HostInv, Next, vars, env, Advance, Prune, Log, Upload, UploadReads, UploadWrites, UploadFails,
         PassLoads, PassStores, PassFails

\* Memory damage without a full memory or a page-out is a host that swaps, and the
\* day it swaps in has a peak no lower, which the page counts while its report is
\* not too old.
LEMMA SwapNamed ==
  ASSUME TypeInv, HostInv, NEW i \in Nodes, Role[i] = "broker", Fresh(i),
         {<<"urp", "critical">>, <<"memory_damage", "critical">>} \subseteq NodeAlerts(i),
         Below(HostAlerted(i)["mem"], 920), Value(HostAlerted(i)["swapOut"]) < 6,
         clock - host[i].seen <= SarMaxAge
  PROVE  "swap_induced_urp" \in NodeCauses(i)
<1>1. PICK h : h = HostAlerted(i)
  OBVIOUS
<1>2. <<"memory_damage", "critical">> \in HostAlerts(h)
  BY <1>1, KafkaAlertsAre DEF NodeAlerts
<1>3. h["mem"] # None
       /\ (AtLeast(h["mem"], 920) \/ AtLeast(h["swapOut"], 6) \/ AtLeast(h["swap"], 20))
  BY <1>2 DEF HostAlerts
<1>4. h # NoHost
  BY <1>3 DEF NoHost, HostColumns
<1>5. PICK d : d = host[i]
  OBVIOUS
<1>6. d # None /\ clock - d.at <= AlertAge /\ h = d.row
  BY <1>1, <1>4, <1>5, Zenon DEF HostAlerted
<1>7. HostReport(d)
  BY <1>5, <1>6, KafkaAssumption DEF HostInv
<1>8. h \in [HostColumns -> Number] /\ d.day \in [HostColumns -> Number]
  BY <1>6, <1>7 DEF HostReport, Number
<1>9. h["mem"] \in Number /\ h["swapOut"] \in Number /\ h["swap"] \in Number /\ d.day["swap"] \in Number
  BY <1>8 DEF HostColumns
<1>10. h["swap"] # None /\ h["swap"] \in Nat /\ h["swap"] >= 20
  BY <1>1, <1>3, <1>9 DEF AtLeast, Below, Value, Number
<1>11. AtLeast(d.day["swap"], h["swap"])
  BY <1>6, <1>7, <1>10 DEF HostReport
<1>12. AtLeast(d.day["swap"], 6)
  BY <1>9, <1>10, <1>11 DEF AtLeast, Number
<1>13. HostShown(i) = d.day
  <2>1. /\ clock \in Nat /\ d.at \in Nat /\ d.seen \in Nat /\ d.at <= d.seen
        /\ SarMaxAge \in Nat /\ Day \in Nat /\ AlertAge \in Nat /\ AlertAge <= Day
    BY <1>7, KafkaAssumption DEF HostReport, TypeInv, ClockInv
  <2>2. clock - d.seen <= SarMaxAge /\ clock - d.seen <= Day
    BY <1>5, <1>6, <2>1
  <2>3. PICK n : n = Min({SarMaxAge, Day})
    OBVIOUS
  <2>4. n \in {SarMaxAge, Day}
    <3>1. SarMaxAge \in Int /\ Day \in Int
      BY <2>1
    <3> QED
      BY <2>3, <3>1, MinOfTwo, Zenon
  <2>5. clock - d.seen <= n
    BY <2>2, <2>4
  <2>6. \E c \in HostColumns \ {"swapOut"} : d.row[c] # None
    <3>1. "swap" \in HostColumns \ {"swapOut"}
      BY DEF HostColumns
    <3> QED
      BY <1>6, <1>10, <3>1
  <2> QED
    BY <1>5, <1>6, <2>3, <2>5, <2>6, Zenon DEF HostShown
<1>14. Value(Metrics(i)["urp"]) > 0
  <2>1. <<"urp", "critical">> \notin HostAlerts(h)
    BY DEF HostAlerts
  <2> QED
    BY <1>1, <2>1, KafkaAlertsAre DEF NodeAlerts
<1> QED
  BY <1>12, <1>13, <1>14 DEF Fresh, NodeCauses, Causes, BrokerCauses

LEMMA TypedReaches == TypeInv /\ HostInv => AlertsReachPage
<1> SUFFICES ASSUME TypeInv, HostInv, NEW i \in Nodes, Role[i] \in {"broker", "zookeeper"}, Fresh(i)
             PROVE  LET grave == IF Role[i] = "broker" THEN {"offline", "urp"} ELSE {"fsync"}
                        minor == IF Role[i] = "broker" THEN Below(Metrics(i)["idle"], 250)
                                 ELSE Value(Metrics(i)["sessions"]) > 0
                    IN /\ (\E c \in grave : Value(Metrics(i)[c]) > 0) =>
                            ClusterStatus = "critical" /\ RealtimeStatus = "critical" /\ KafkaGrade(Health(i)) # "A"
                       /\ minor => ClusterStatus # "ok" /\ RealtimeStatus # "ok"
                       /\ Role[i] = "zookeeper" /\ Value(Metrics(i)["fsync"]) > 0 => "zk_wal_io_stall" \in NodeCauses(i)
                       /\ Role[i] = "broker"
                            /\ {<<"urp", "critical">>, <<"memory_damage", "critical">>} \subseteq NodeAlerts(i)
                            /\ Below(HostAlerted(i)["mem"], 920) /\ Value(HostAlerted(i)["swapOut"]) < 6
                            /\ clock - host[i].seen <= SarMaxAge
                            => "swap_induced_urp" \in NodeCauses(i)
  BY DEF AlertsReachPage
<1>1. CASE Role[i] = "broker"
  <2>1. Role[i] # "zookeeper"
    BY <1>1
  <2> QED
    BY <1>1, <2>1, BrokerReaches, SwapNamed
<1>2. CASE Role[i] = "zookeeper"
  <2>1. Role[i] # "broker"
    BY <1>2
  <2> QED
    BY <1>2, <2>1, ZooKeeperReaches
<1> QED
  BY <1>1, <1>2

\* Whatever the alerter warns of, the page built from the same rows shows
\* (AlertsReachPage, for all constants).
THEOREM AlertsReach == Spec => []AlertsReachPage
<1>1. Init => HostInv
  BY DEF Init, HostInv
<1> QED
  BY <1>1, InitTyped, NextTyped, HostStays, TypedReaches, PTL DEF Spec

=============================================================================
