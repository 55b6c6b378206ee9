----------------------------- MODULE FleetProofs -----------------------------
(***************************************************************************)
(* Proofs about Fleet for any instances, places, batches, reports, bucket  *)
(* widths and windows: that the levels of the fleet tree say together what *)
(* the instances say, what a green page, a Full GC, the advisor's          *)
(* "no action" and a replay vouch for, and that neither splitting host     *)
(* samples into rows nor keeping a row of a batch changes a verdict more   *)
(* than the properties allow.                                              *)
(***************************************************************************)
EXTENDS Fleet, FiniteSetTheorems, SequenceTheorems, TLAPS

-----------------------------------------------------------------------------
(* Greatest and least elements of finite sets *)

\* A nonempty set of finite sets has a member that contains no other: what an
\* induction on finite sets becomes here and for sums, a minimal counterexample under
\* the strict subset order.
LEMMA LeastSet ==
  ASSUME NEW S, IsFiniteSet(S), NEW T \in SUBSET SUBSET S, T # {}
  PROVE  \E s \in T : \A t \in SUBSET s : t \in T => t = s
<1>1. T \subseteq FiniteSubsetsOf(S)
  BY FS_FiniteSubsetsOfFinite
<1>2. PICK s \in T : \A t \in T : <<t, s>> \notin StrictSubsetOrdering(S)
  BY <1>1, FS_StrictSubsetOrderingWellFounded, WFMin
<1>3. ASSUME NEW t \in SUBSET s, t \in T PROVE t = s
  BY <1>2, <1>3 DEF StrictSubsetOrdering
<1> QED
  BY <1>3

Beyond(S, p) == {q \in S : p < q}

\* Of the sets of elements beyond an element one is least ...
LEMMA LeastBeyond ==
  ASSUME NEW S, IsFiniteSet(S), S # {}
  PROVE  \E m \in S : \A x \in S : Beyond(S, x) \subseteq Beyond(S, m) => Beyond(S, x) = Beyond(S, m)
<1>1. PICK T : T = {Beyond(S, p) : p \in S}
  OBVIOUS
<1>2. T \in SUBSET SUBSET S /\ T # {}
  BY <1>1 DEF Beyond
<1>3. PICK s \in T : \A t \in SUBSET s : t \in T => t = s
  BY <1>2, LeastSet
<1>4. PICK m \in S : s = Beyond(S, m)
  BY <1>1
<1> QED
  BY <1>1, <1>3, <1>4

\* ... and it is empty.
LEMMA MaxExists ==
  ASSUME NEW S, S \subseteq Int, IsFiniteSet(S), S # {}
  PROVE  Max(S) \in S /\ \A x \in S : x <= Max(S)
<1>1. PICK m \in S : \A x \in S : Beyond(S, x) \subseteq Beyond(S, m) => Beyond(S, x) = Beyond(S, m)
  BY LeastBeyond
<1>2. ASSUME NEW x \in S, m < x PROVE FALSE
  <2>1. \A v \in S : x < v => m < v
    BY <1>2
  <2>2. Beyond(S, x) \subseteq Beyond(S, m)
    BY <2>1, Zenon DEF Beyond
  <2>3. ~(x < x)
    OBVIOUS
  <2>4. x \in Beyond(S, m) /\ x \notin Beyond(S, x)
    BY <1>2, <2>3, Zenon DEF Beyond
  <2> QED
    BY <1>1, <2>2, <2>4, Zenon
<1>3. \E y \in S : \A x \in S : y >= x
  BY <1>2
<1> QED
  BY <1>3 DEF Max

LEMMA MinExists ==
  ASSUME NEW S, S \subseteq Int, IsFiniteSet(S), S # {}
  PROVE  Min(S) \in S /\ \A x \in S : Min(S) <= x
<1> DEFINE N == {-x : x \in S}
<1>1. N \in SUBSET Int /\ N # {}
  <2>1. \A x \in S : -x \in Int
    OBVIOUS
  <2> QED
    BY <2>1
<1>2. IsFiniteSet(N)
  <2> DEFINE f == [x \in S |-> -x]
  <2>1. f \in Surjection(S, N)
    BY DEF Surjection
  <2> QED
    BY <2>1, FS_Surjection
<1>3. Max(N) \in N /\ \A y \in N : y <= Max(N)
  <2> HIDE DEF N
  <2> QED
    BY <1>1, <1>2, MaxExists
<1>4. PICK m \in S : Max(N) = -m
  BY <1>3
<1>5. \A x \in S : -x \in N /\ -x <= -m
  BY <1>3, <1>4
<1>6. \A x \in S : m <= x
  BY <1>5
<1>7. \E y \in S : \A x \in S : y <= x
  BY <1>6
<1> QED
  BY <1>7 DEF Min

LEMMA MaxOfTwo ==
  ASSUME NEW a \in Int, NEW b \in Int
  PROVE  Max({a, b}) \in {a, b} /\ a <= Max({a, b}) /\ b <= Max({a, b})
<1>1. \E x \in {a, b} : \A y \in {a, b} : x >= y
  <2>1. a >= b \/ b >= a
    OBVIOUS
  <2>2. a >= a /\ b >= b
    OBVIOUS
  <2> QED
    BY <2>1, <2>2, Zenon
<1>2. Max({a, b}) \in {a, b} /\ \A y \in {a, b} : Max({a, b}) >= y
  BY <1>1, Zenon DEF Max
<1>3. Max({a, b}) >= a /\ Max({a, b}) >= b
  BY <1>2, Zenon
<1> QED
  BY <1>2, <1>3

LEMMA MinOfTwo ==
  ASSUME NEW a \in Int, NEW b \in Int
  PROVE  Min({a, b}) \in {a, b} /\ Min({a, b}) <= a /\ Min({a, b}) <= b
<1>1. \E x \in {a, b} : \A y \in {a, b} : x =< y
  <2>1. a =< b \/ b =< a
    OBVIOUS
  <2>2. a =< a /\ b =< b
    OBVIOUS
  <2> QED
    BY <2>1, <2>2, Zenon
<1>2. Min({a, b}) \in {a, b} /\ \A y \in {a, b} : Min({a, b}) =< y
  BY <1>1, Zenon DEF Min
<1>3. Min({a, b}) =< a /\ Min({a, b}) =< b
  BY <1>2, Zenon
<1> QED
  BY <1>2, <1>3

\* What a function makes of finitely many arguments has a greatest value.
LEMMA MaxOfImage ==
  ASSUME NEW S, IsFiniteSet(S), NEW f \in [S -> Nat]
  PROVE  LET T == {0} \cup {f[x] : x \in S}
         IN Max(T) \in Nat /\ \A x \in S : f[x] <= Max(T)
<1> DEFINE T == {f[x] : x \in S}
<1>1. IsFiniteSet(T)
  <2>1. f \in Surjection(S, T)
    BY DEF Surjection
  <2> QED
    BY <2>1, FS_Surjection
<1>2. T \subseteq Nat
  OBVIOUS
<1> HIDE DEF T
<1>3. IsFiniteSet({0} \cup T)
  BY <1>1, FS_Singleton, FS_Union
<1>4. {0} \cup T \subseteq Int /\ {0} \cup T # {}
  BY <1>2
<1>5. Max({0} \cup T) \in {0} \cup T /\ \A y \in {0} \cup T : y <= Max({0} \cup T)
  BY <1>3, <1>4, MaxExists
<1>6. \A x \in S : f[x] \in T
  BY DEF T
<1>7. PICK m : m = Max({0} \cup T)
  OBVIOUS
<1>8. m \in Nat
  <2>1. \A y \in T : y \in Nat
    BY <1>2
  <2>2. m = 0 \/ m \in T
    BY <1>5, <1>7
  <2> QED
    BY <2>1, <2>2
<1>9. \A x \in S : f[x] <= m
  BY <1>5, <1>6, <1>7
<1>10. Max({0} \cup T) \in Nat /\ \A x \in S : f[x] <= Max({0} \cup T)
  BY <1>7, <1>8, <1>9, Zenon
<1> QED
  BY <1>10 DEF T

-----------------------------------------------------------------------------
(* Sums *)

First(s) == CHOOSE x \in s : TRUE
Step(f, g, s) == IF s = {} THEN 0 ELSE f[First(s)] + g[s \ {First(s)}]

\* g gives the sum of f over every subset of S.
Sums(f, g, S) == g \in [SUBSET S -> Nat] /\ \A s \in SUBSET S : g[s] = Step(f, g, s)

LEMMA FirstIn == ASSUME NEW s, s # {} PROVE First(s) \in s /\ s \ {First(s)} \in SUBSET s /\ s \ {First(s)} # s
  BY DEF First

\* Two functions that satisfy the recursion agree where both are defined.
LEMMA SumsAgree ==
  ASSUME NEW S, IsFiniteSet(S), NEW f, NEW g, NEW h,
         \A s \in SUBSET S : g[s] = Step(f, g, s) /\ h[s] = Step(f, h, s)
  PROVE  \A s \in SUBSET S : g[s] = h[s]
<1> DEFINE Bad == {s \in SUBSET S : g[s] # h[s]}
<1> SUFFICES ASSUME Bad # {} PROVE FALSE
  OBVIOUS
<1>1. PICK s \in Bad : \A t \in SUBSET s : t \in Bad => t = s
  <2>1. Bad \in SUBSET SUBSET S
    OBVIOUS
  <2> HIDE DEF Bad
  <2> QED
    BY <2>1, LeastSet
<1>2. s # {}
  BY DEF Step
<1>3. s \ {First(s)} \in SUBSET S /\ s \ {First(s)} \notin Bad
  BY <1>1, <1>2, FirstIn
<1>4. g[s \ {First(s)}] = h[s \ {First(s)}]
  BY <1>3
<1> QED
  BY <1>2, <1>4 DEF Step

LEMMA SumsExist ==
  ASSUME NEW S, IsFiniteSet(S), NEW f \in [S -> Nat]
  PROVE  \E g : Sums(f, g, S)
<1> DEFINE Bad == {s \in SUBSET S : ~ \E g : Sums(f, g, s)}
           F(s) == CHOOSE g : Sums(f, g, s)
<1> SUFFICES ASSUME Bad # {} PROVE FALSE
  BY DEF Sums
<1>1. PICK s \in Bad : \A t \in SUBSET s : t \in Bad => t = s
  <2>1. Bad \in SUBSET SUBSET S
    OBVIOUS
  <2> HIDE DEF Bad
  <2> QED
    BY <2>1, LeastSet
<1>2. \A t \in SUBSET s : t # s => Sums(f, F(t), t)
  BY <1>1
<1> HIDE DEF F
<1> DEFINE last == IF s = {} THEN 0 ELSE f[First(s)] + F(s \ {First(s)})[s \ {First(s)}]
           G == [t \in SUBSET s |-> IF t = s THEN last ELSE F(t)[t]]
<1>3. s \in SUBSET S
  OBVIOUS
<1>4. ASSUME NEW t \in SUBSET s, t # s PROVE F(t)[t] \in Nat
  BY <1>2, <1>4 DEF Sums
<1>5. last \in Nat
  BY <1>3, <1>4, FirstIn
<1>6. G \in [SUBSET s -> Nat]
  BY <1>4, <1>5
<1>7. G[s] = Step(f, G, s)
  BY FirstIn DEF Step
<1>8. ASSUME NEW t \in SUBSET s, t # s PROVE G[t] = Step(f, G, t)
  <2>1. CASE t = {}
    BY <1>2, <1>8, <2>1 DEF Sums, Step
  <2>2. CASE t # {}
    <3>1. PICK u : u = t \ {First(t)}
      OBVIOUS
    <3>2. u \in SUBSET t /\ u \in SUBSET s /\ u # s
      BY <1>8, <2>2, <3>1, FirstIn
    <3>3. Sums(f, F(t), t) /\ Sums(f, F(u), u)
      BY <1>2, <1>8, <3>2
    <3>4. IsFiniteSet(u)
      BY <1>3, <3>2, FS_Subset
    <3>5. \A v \in SUBSET u : F(t)[v] = Step(f, F(t), v) /\ F(u)[v] = Step(f, F(u), v)
      BY <3>2, <3>3 DEF Sums
    <3>6. F(t)[u] = F(u)[u]
      <4>1. PICK g, h : g = F(t) /\ h = F(u)
        OBVIOUS
      <4>2. \A v \in SUBSET u : g[v] = Step(f, g, v) /\ h[v] = Step(f, h, v)
        BY <3>5, <4>1
      <4>3. \A v \in SUBSET u : g[v] = h[v]
        BY <3>4, <4>2, SumsAgree
      <4> QED
        BY <4>1, <4>3
    <3>7. F(t)[t] = f[First(t)] + F(t)[u]
      BY <2>2, <3>1, <3>3 DEF Sums, Step
    <3>8. G[t] = F(t)[t] /\ G[u] = F(u)[u]
      BY <1>8, <3>2
    <3> QED
      BY <2>2, <3>1, <3>6, <3>7, <3>8 DEF Step
  <2> QED
    BY <2>1, <2>2
<1>9. Sums(f, G, s)
  BY <1>6, <1>7, <1>8 DEF Sums
<1> QED
  BY <1>9

\* What SumFunction unfolds to is such a function.
LEMMA SumUnfolds ==
  ASSUME NEW S, IsFiniteSet(S), NEW f \in [S -> Nat]
  PROVE  \E g : Sums(f, g, S) /\ SumFunction(f) = g[S]
<1> DEFINE h == CHOOSE h : h = [s \in SUBSET S |-> Step(f, h, s)]
<1>1. PICK g : Sums(f, g, S)
  BY SumsExist
<1>2. g = [s \in SUBSET S |-> Step(f, g, s)]
  BY <1>1 DEF Sums
<1>3. h = [s \in SUBSET S |-> Step(f, h, s)]
  BY <1>2
<1> HIDE DEF h
<1>4. \A s \in SUBSET S : h[s] = Step(f, h, s)
  BY <1>3
<1>5. h[S] = g[S]
  <2>1. \A s \in SUBSET S : g[s] = Step(f, g, s) /\ h[s] = Step(f, h, s)
    BY <1>1, <1>4 DEF Sums
  <2>2. \A s \in SUBSET S : g[s] = h[s]
    BY <2>1, SumsAgree
  <2> QED
    BY <2>2
<1>6. SumFunction(f) = h[S]
  BY DEF SumFunction, SumFunctionOnSet, FoldFunctionOnSet, MapThenFoldSet, Step, First, h
<1> QED
  BY <1>1, <1>5, <1>6

\* A sum of naturals is a natural and no less than any of them.
LEMMA SumAtLeast ==
  ASSUME NEW S, IsFiniteSet(S), NEW f \in [S -> Nat]
  PROVE  SumFunction(f) \in Nat /\ \A x \in S : f[x] <= SumFunction(f)
<1>1. PICK g : Sums(f, g, S) /\ SumFunction(f) = g[S]
  BY SumUnfolds
<1>2. S \in SUBSET S /\ \A s \in SUBSET S : g[s] \in Nat
  BY <1>1 DEF Sums
<1> DEFINE Bad == {s \in SUBSET S : \E x \in s : ~(f[x] <= g[s])}
<1>3. Bad = {}
  <2> SUFFICES ASSUME Bad # {} PROVE FALSE
    OBVIOUS
  <2>1. PICK s \in Bad : \A t \in SUBSET s : t \in Bad => t = s
    <3>1. Bad \in SUBSET SUBSET S
      OBVIOUS
    <3> HIDE DEF Bad
    <3> QED
      BY <3>1, LeastSet
  <2>2. PICK x \in s : ~(f[x] <= g[s])
    OBVIOUS
  <2>3. s # {} /\ s \in SUBSET S
    BY <2>2
  <2>4. PICK u : u = s \ {First(s)}
    OBVIOUS
  <2>5. u \in SUBSET S /\ u \notin Bad
    BY <2>1, <2>3, <2>4, FirstIn
  <2>6. g[s] = f[First(s)] + g[u]
    BY <1>1, <2>3, <2>4 DEF Sums, Step
  <2>7. First(s) \in S /\ f[First(s)] \in Nat /\ f[x] \in Nat /\ g[u] \in Nat
    BY <1>2, <2>3, <2>5, FirstIn
  <2>8. x = First(s) \/ f[x] <= g[u]
    BY <2>4, <2>5
  <2> QED
    BY <2>2, <2>6, <2>7, <2>8
<1> QED
  BY <1>1, <1>2, <1>3

\* What is no greater anywhere has no greater a sum, and with an equal sum is equal.
LEMMA SumMonotone ==
  ASSUME NEW S, IsFiniteSet(S), NEW f \in [S -> Nat], NEW g \in [S -> Nat],
         \A x \in S : f[x] <= g[x]
  PROVE  /\ SumFunction(f) <= SumFunction(g)
         /\ SumFunction(g) <= SumFunction(f) => \A x \in S : f[x] = g[x]
<1>1. PICK p : Sums(f, p, S) /\ SumFunction(f) = p[S]
  BY SumUnfolds
<1>2. PICK q : Sums(g, q, S) /\ SumFunction(g) = q[S]
  BY SumUnfolds
<1>3. S \in SUBSET S /\ \A s \in SUBSET S : p[s] \in Nat /\ q[s] \in Nat
  BY <1>1, <1>2 DEF Sums
<1> DEFINE Good(s) == p[s] <= q[s] /\ (q[s] <= p[s] => \A x \in s : f[x] = g[x])
           Bad == {s \in SUBSET S : ~ Good(s)}
<1>4. Bad = {}
  <2> SUFFICES ASSUME Bad # {} PROVE FALSE
    OBVIOUS
  <2>1. PICK s \in Bad : \A t \in SUBSET s : t \in Bad => t = s
    <3>1. Bad \in SUBSET SUBSET S
      OBVIOUS
    <3> HIDE DEF Bad
    <3> QED
      BY <3>1, LeastSet
  <2>2. s \in SUBSET S /\ ~ Good(s)
    BY <2>1
  <2>3. s # {}
    <3>1. {} \in SUBSET S
      OBVIOUS
    <3>2. p[{}] = 0
      BY <1>1, <3>1 DEF Sums, Step
    <3>3. q[{}] = 0
      BY <1>2, <3>1 DEF Sums, Step
    <3>4. Good({})
      BY <3>2, <3>3
    <3> QED
      BY <2>2, <3>4
  <2>4. PICK u : u = s \ {First(s)}
    OBVIOUS
  <2>5. u \in SUBSET S /\ Good(u)
    BY <2>1, <2>3, <2>4, FirstIn
  <2>6. p[s] = f[First(s)] + p[u] /\ q[s] = g[First(s)] + q[u]
    BY <1>1, <1>2, <2>2, <2>3, <2>4 DEF Sums, Step
  <2>7. First(s) \in S /\ f[First(s)] \in Nat /\ g[First(s)] \in Nat /\ f[First(s)] <= g[First(s)]
        /\ p[u] \in Nat /\ q[u] \in Nat
    BY <1>3, <2>2, <2>3, <2>5, FirstIn
  <2>8. \A x \in s : x = First(s) \/ x \in u
    BY <2>4
  <2>9. p[s] <= q[s] /\ (q[s] <= p[s] => f[First(s)] = g[First(s)] /\ q[u] <= p[u])
    BY <2>5, <2>6, <2>7
  <2> QED
    BY <2>2, <2>5, <2>8, <2>9
<1>5. Good(S)
  BY <1>3, <1>4
<1> QED
  BY <1>1, <1>2, <1>5

\* A sum of values up to m is at most m times their number.
LEMMA SumWithin ==
  ASSUME NEW S, IsFiniteSet(S), NEW f \in [S -> Nat], NEW m \in Nat, \A x \in S : f[x] <= m
  PROVE  SumFunction(f) <= m * Cardinality(S)
<1>1. PICK g : Sums(f, g, S) /\ SumFunction(f) = g[S]
  BY SumUnfolds
<1>2. S \in SUBSET S /\ \A s \in SUBSET S : g[s] \in Nat
  BY <1>1 DEF Sums
<1> DEFINE Bad == {s \in SUBSET S : ~(g[s] <= m * Cardinality(s))}
<1>3. Bad = {}
  <2> SUFFICES ASSUME Bad # {} PROVE FALSE
    OBVIOUS
  <2>1. PICK s \in Bad : \A t \in SUBSET s : t \in Bad => t = s
    <3>1. Bad \in SUBSET SUBSET S
      OBVIOUS
    <3> HIDE DEF Bad
    <3> QED
      BY <3>1, LeastSet
  <2>2. s \in SUBSET S /\ ~(g[s] <= m * Cardinality(s))
    OBVIOUS
  <2>3. s # {}
    <3>1. g[{}] = 0
      BY <1>1 DEF Sums, Step
    <3>2. Cardinality({}) = 0
      BY FS_EmptySet
    <3> QED
      BY <2>2, <3>1, <3>2
  <2>4. PICK u : u = s \ {First(s)}
    OBVIOUS
  <2>5. u \in SUBSET S /\ g[u] <= m * Cardinality(u)
    BY <2>1, <2>3, <2>4, FirstIn
  <2>6. g[s] = f[First(s)] + g[u]
    BY <1>1, <2>2, <2>3, <2>4 DEF Sums, Step
  <2>7. First(s) \in S /\ f[First(s)] \in Nat /\ f[First(s)] <= m /\ g[u] \in Nat
    BY <1>2, <2>2, <2>3, <2>5, FirstIn
  <2>8. IsFiniteSet(s)
    BY <2>2, FS_Subset
  <2>9. PICK n \in Nat : n = Cardinality(u) /\ Cardinality(s) = n + 1
    <3>1. First(s) \in s
      BY <2>3, FirstIn
    <3>2. IsFiniteSet(u) /\ Cardinality(u) = Cardinality(s) - 1
      BY <2>4, <2>8, <3>1, FS_RemoveElement
    <3>3. Cardinality(u) \in Nat /\ Cardinality(s) \in Nat
      BY <2>8, <3>2, FS_CardinalityType
    <3> QED
      BY <3>2, <3>3
  <2>10. m * (n + 1) = m * n + m
    OBVIOUS
  <2>11. PICK k \in Nat : k = m * n
    OBVIOUS
  <2> QED
    BY <2>2, <2>5, <2>6, <2>7, <2>9, <2>10, <2>11
<1> QED
  BY <1>1, <1>2, <1>3

LEMMA SumOfOne ==
  ASSUME NEW t, NEW f \in [{t} -> Nat]
  PROVE  SumFunction(f) = f[t]
<1>1. IsFiniteSet({t})
  BY FS_Singleton
<1>2. PICK g : Sums(f, g, {t}) /\ SumFunction(f) = g[{t}]
  BY <1>1, SumUnfolds
<1>3. {t} # {} /\ First({t}) = t /\ {t} \ {t} = {}
  BY DEF First
<1>4. {t} \in SUBSET {t} /\ {} \in SUBSET {t}
  OBVIOUS
<1>5. g[{t}] = f[t] + g[{}] /\ g[{}] = 0
  BY <1>2, <1>3, <1>4 DEF Sums, Step
<1> QED
  BY <1>2, <1>5

\* The largest value of a function that has one.
LEMMA MaxOver ==
  ASSUME NEW S, IsFiniteSet(S), S # {}, NEW f \in [S -> Nat]
  PROVE  LET m == Max({f[x] : x \in S})
         IN m \in Nat /\ (\A x \in S : f[x] <= m) /\ \E x \in S : m = f[x]
<1>1. PICK T : T = {f[x] : x \in S}
  OBVIOUS
<1>2. IsFiniteSet(T)
  <2>1. f \in Surjection(S, T)
    BY <1>1 DEF Surjection
  <2> QED
    BY <2>1, FS_Surjection
<1>3. T # {} /\ \A y \in T : y \in Int
  BY <1>1
<1>4. T \subseteq Int
  BY <1>3
<1>5. Max(T) \in T /\ \A y \in T : y <= Max(T)
  BY <1>2, <1>3, <1>4, MaxExists, Zenon
<1>6. PICK m : m = Max(T)
  OBVIOUS
<1>7. m \in T /\ \A x \in S : f[x] <= m
  BY <1>1, <1>5, <1>6, Zenon
<1> QED
  BY <1>1, <1>6, <1>7

-----------------------------------------------------------------------------
(* Sums over parts *)

\* A sum over a part is what the recursion over the whole gives for that part.
LEMMA SumOfPart ==
  ASSUME NEW S, IsFiniteSet(S), NEW f \in [S -> Nat], NEW g, Sums(f, g, S), NEW T \in SUBSET S
  PROVE  SumFunction([x \in T |-> f[x]]) = g[T]
<1>1. PICK e : e = [x \in T |-> f[x]]
  OBVIOUS
<1>2. IsFiniteSet(T)
  BY FS_Subset
<1>3. e \in [T -> Nat]
  BY <1>1
<1>4. PICK h : Sums(e, h, T) /\ SumFunction(e) = h[T]
  BY <1>2, <1>3, SumUnfolds
<1>5. ASSUME NEW s \in SUBSET T PROVE h[s] = Step(f, h, s) /\ g[s] = Step(f, g, s)
  <2>1. h[s] = Step(e, h, s) /\ g[s] = Step(f, g, s)
    BY <1>4 DEF Sums
  <2>2. s # {} => e[First(s)] = f[First(s)]
    BY <1>1, FirstIn
  <2> QED
    BY <2>1, <2>2 DEF Step
<1>6. h[T] = g[T]
  <2>1. \A s \in SUBSET T : h[s] = Step(f, h, s) /\ g[s] = Step(f, g, s)
    BY <1>5
  <2> QED
    BY <1>2, <2>1, SumsAgree
<1> QED
  BY <1>1, <1>4, <1>6

\* The element taken first does not matter.
LEMMA SumRemoves ==
  ASSUME NEW S, IsFiniteSet(S), NEW f \in [S -> Nat], NEW g, Sums(f, g, S)
  PROVE  \A s \in SUBSET S : \A x \in s : g[s] = f[x] + g[s \ {x}]
<1> DEFINE Good(s) == \A x \in s : g[s] = f[x] + g[s \ {x}]
           Bad == {s \in SUBSET S : ~ Good(s)}
<1> SUFFICES ASSUME Bad # {} PROVE FALSE
  OBVIOUS
<1>1. PICK s \in Bad : \A t \in SUBSET s : t \in Bad => t = s
  <2>1. Bad \in SUBSET SUBSET S
    OBVIOUS
  <2> HIDE DEF Bad
  <2> QED
    BY <2>1, LeastSet
<1>2. s \in SUBSET S /\ ~ Good(s)
  BY <1>1
<1>3. PICK x \in s : g[s] # f[x] + g[s \ {x}]
  BY <1>2
<1>4. PICK y : y = First(s)
  OBVIOUS
<1>5. y \in s /\ g[s] = f[y] + g[s \ {y}]
  <2>1. s # {}
    BY <1>3
  <2> QED
    BY <1>2, <1>4, <2>1, FirstIn DEF Sums, Step
<1>6. x # y
  BY <1>3, <1>5
<1>7. PICK u, v, w : u = s \ {x} /\ v = s \ {y} /\ w = s \ {x, y}
  OBVIOUS
<1>8. u \in SUBSET S /\ v \in SUBSET S /\ w \in SUBSET S /\ Good(u) /\ Good(v)
  <2>1. u \in SUBSET s /\ v \in SUBSET s /\ u # s /\ v # s
    BY <1>3, <1>5, <1>7
  <2> QED
    BY <1>1, <1>2, <1>7, <2>1
<1>9. y \in u /\ x \in v /\ u \ {y} = w /\ v \ {x} = w
  BY <1>3, <1>5, <1>6, <1>7
<1>10. g[u] = f[y] + g[w] /\ g[v] = f[x] + g[w]
  BY <1>8, <1>9
<1>11. f[x] \in Nat /\ f[y] \in Nat /\ g[w] \in Nat
  BY <1>2, <1>3, <1>5, <1>8 DEF Sums
<1> QED
  BY <1>3, <1>5, <1>7, <1>10, <1>11

\* The sum over a set in two parts.
LEMMA SumSplits ==
  ASSUME NEW S, IsFiniteSet(S), NEW f \in [S -> Nat], NEW A \in SUBSET S
  PROVE  SumFunction(f) = SumFunction([x \in A |-> f[x]]) + SumFunction([x \in S \ A |-> f[x]])
<1>1. PICK g : Sums(f, g, S) /\ SumFunction(f) = g[S]
  BY SumUnfolds
<1>2. ASSUME NEW s \in SUBSET S, NEW x \in s PROVE g[s] = f[x] + g[s \ {x}]
  BY <1>1, SumRemoves
<1>3. \A s \in SUBSET S : g[s] \in Nat
  BY <1>1 DEF Sums
<1>4. g[{}] = 0
  BY <1>1 DEF Sums, Step
<1> DEFINE Good(b) == g[A \cup b] = g[A] + g[b]
           Bad == {b \in SUBSET (S \ A) : ~ Good(b)}
<1>5. Bad = {}
  <2> SUFFICES ASSUME Bad # {} PROVE FALSE
    OBVIOUS
  <2>1. PICK b \in Bad : \A t \in SUBSET b : t \in Bad => t = b
    <3>1. Bad \in SUBSET SUBSET S
      OBVIOUS
    <3> HIDE DEF Bad
    <3> QED
      BY <3>1, LeastSet
  <2>2. b \in SUBSET S /\ b \cap A = {} /\ ~ Good(b)
    BY <2>1
  <2>3. b # {}
    <3>1. A \cup {} = A /\ g[A] \in Nat
      BY <1>3
    <3>2. Good({})
      BY <1>4, <3>1
    <3> QED
      BY <2>2, <3>2
  <2>4. PICK x : x \in b
    BY <2>3
  <2>5. PICK c : c = b \ {x}
    OBVIOUS
  <2>6. c \in SUBSET S /\ Good(c)
    <3>1. c \in SUBSET b /\ c # b /\ c \in SUBSET (S \ A)
      BY <2>2, <2>4, <2>5
    <3>2. c \notin Bad
      BY <2>1, <3>1
    <3> QED
      BY <3>1, <3>2
  <2>7. g[b] = f[x] + g[c]
    BY <1>2, <2>2, <2>4, <2>5
  <2>8. g[A \cup b] = f[x] + g[A \cup c]
    <3>1. PICK d : d = A \cup b
      OBVIOUS
    <3>2. d \in SUBSET S /\ x \in d
      BY <2>2, <2>4, <3>1
    <3>3. d \ {x} = A \cup c
      BY <2>2, <2>4, <2>5, <3>1
    <3>4. g[d] = f[x] + g[d \ {x}]
      BY <1>2, <3>2
    <3> QED
      BY <3>1, <3>3, <3>4
  <2>9. f[x] \in Nat /\ g[A] \in Nat /\ g[c] \in Nat
    BY <1>3, <2>2, <2>4, <2>6
  <2> QED
    BY <2>2, <2>6, <2>7, <2>8, <2>9
<1>6. Good(S \ A)
  <2>1. S \ A \notin Bad
    BY <1>5
  <2> QED
    BY <2>1
<1>7. A \cup (S \ A) = S
  OBVIOUS
<1>8. g[A] = SumFunction([x \in A |-> f[x]]) /\ g[S \ A] = SumFunction([x \in S \ A |-> f[x]])
  BY <1>1, SumOfPart
<1> QED
  BY <1>1, <1>6, <1>7, <1>8

\* Where nothing is to add, the sum is that of the rest.
LEMMA SumOfSupport ==
  ASSUME NEW S, IsFiniteSet(S), NEW f \in [S -> Nat], NEW T \in SUBSET S, \A x \in S \ T : f[x] = 0
  PROVE  SumFunction(f) = SumFunction([x \in T |-> f[x]])
<1>1. PICK R : R = S \ T
  OBVIOUS
<1>2. PICK e : e = [x \in R |-> f[x]]
  OBVIOUS
<1>3. IsFiniteSet(R) /\ IsFiniteSet(T)
  BY <1>1, FS_Subset
<1>4. e \in [R -> Nat] /\ \A x \in R : e[x] <= 0
  BY <1>1, <1>2
<1>5. SumFunction(e) <= 0 * Cardinality(R) /\ SumFunction(e) \in Nat
  BY <1>3, <1>4, SumWithin, SumAtLeast
<1>6. SumFunction(e) = 0
  <2>1. Cardinality(R) \in Nat
    BY <1>3, FS_CardinalityType
  <2> QED
    BY <1>5, <2>1
<1>7. PICK d : d = [x \in T |-> f[x]]
  OBVIOUS
<1>8. d \in [T -> Nat]
  BY <1>7
<1>9. SumFunction(d) \in Nat
  BY <1>3, <1>8, SumAtLeast
<1>10. SumFunction(f) = SumFunction(d) + SumFunction(e)
  BY <1>1, <1>2, <1>7, SumSplits
<1> QED
  BY <1>6, <1>7, <1>9, <1>10

\* Renumbering the elements leaves the sum.
LEMMA SumRenumbers ==
  ASSUME NEW S, IsFiniteSet(S), NEW T, NEW f \in [T -> Nat], NEW p \in [S -> T],
         \A x, y \in S : p[x] = p[y] => x = y, \A t \in T : \E x \in S : p[x] = t
  PROVE  IsFiniteSet(T) /\ SumFunction(f) = SumFunction([x \in S |-> f[p[x]]])
<1>1. IsFiniteSet(T)
  <2>1. p \in Surjection(S, T)
    BY DEF Surjection
  <2> QED
    BY <2>1, FS_Surjection
<1>2. PICK g : Sums(f, g, T) /\ SumFunction(f) = g[T]
  BY <1>1, SumUnfolds
<1>3. PICK e : e = [x \in S |-> f[p[x]]]
  OBVIOUS
<1>4. e \in [S -> Nat]
  BY <1>3
<1>5. PICK h : Sums(e, h, S) /\ SumFunction(e) = h[S]
  BY <1>4, SumUnfolds
<1> DEFINE Image(s) == {p[x] : x \in s}
           Bad == {s \in SUBSET S : h[s] # g[Image(s)]}
<1>6. Bad = {}
  <2> SUFFICES ASSUME Bad # {} PROVE FALSE
    OBVIOUS
  <2>1. PICK s \in Bad : \A t \in SUBSET s : t \in Bad => t = s
    <3>1. Bad \in SUBSET SUBSET S
      OBVIOUS
    <3> HIDE DEF Bad
    <3> QED
      BY <3>1, LeastSet
  <2>2. s \in SUBSET S /\ h[s] # g[Image(s)]
    BY <2>1
  <2>3. s # {}
    <3>1. h[{}] = 0 /\ g[{}] = 0
      BY <1>2, <1>5 DEF Sums, Step
    <3>2. Image({}) = {}
      OBVIOUS
    <3> QED
      BY <2>2, <3>1, <3>2
  <2>4. PICK x : x \in s
    BY <2>3
  <2>5. PICK u : u = s \ {x}
    OBVIOUS
  <2>6. u \in SUBSET S /\ h[u] = g[Image(u)]
    <3>1. u \in SUBSET s /\ u # s /\ u \in SUBSET S
      BY <2>2, <2>4, <2>5
    <3>2. u \notin Bad
      BY <2>1, <3>1
    <3> QED
      BY <3>1, <3>2
  <2>7. h[s] = e[x] + h[u]
    BY <1>4, <1>5, <2>2, <2>4, <2>5, SumRemoves
  <2>8. Image(s) \in SUBSET T /\ p[x] \in Image(s) /\ Image(s) \ {p[x]} = Image(u)
    BY <2>2, <2>4, <2>5
  <2>9. g[Image(s)] = f[p[x]] + g[Image(u)]
    <3>1. PICK a, b : a = Image(s) /\ b = Image(u)
      OBVIOUS
    <3>2. a \in SUBSET T /\ p[x] \in a /\ a \ {p[x]} = b
      BY <2>8, <3>1
    <3>3. g[a] = f[p[x]] + g[b]
      BY <1>1, <1>2, <3>2, SumRemoves
    <3> QED
      BY <3>1, <3>3
  <2>10. e[x] = f[p[x]]
    BY <1>3, <2>2, <2>4
  <2> QED
    BY <2>2, <2>6, <2>7, <2>9, <2>10
<1>7. h[S] = g[Image(S)]
  <2>1. S \notin Bad
    BY <1>6
  <2> QED
    BY <2>1
<1>8. Image(S) = T
  OBVIOUS
<1> QED
  BY <1>1, <1>2, <1>3, <1>5, <1>7, <1>8

\* Counting is summing ones.
LEMMA CountIsSum ==
  ASSUME NEW S, IsFiniteSet(S)
  PROVE  SumFunction([x \in S |-> 1]) = Cardinality(S)
<1>1. PICK f : f = [x \in S |-> 1]
  OBVIOUS
<1>2. f \in [S -> Nat]
  BY <1>1
<1>3. PICK g : Sums(f, g, S) /\ SumFunction(f) = g[S]
  BY <1>2, SumUnfolds
<1> DEFINE Bad == {s \in SUBSET S : g[s] # Cardinality(s)}
<1>4. Bad = {}
  <2> SUFFICES ASSUME Bad # {} PROVE FALSE
    OBVIOUS
  <2>1. PICK s \in Bad : \A t \in SUBSET s : t \in Bad => t = s
    <3>1. Bad \in SUBSET SUBSET S
      OBVIOUS
    <3> HIDE DEF Bad
    <3> QED
      BY <3>1, LeastSet
  <2>2. s \in SUBSET S /\ g[s] # Cardinality(s)
    BY <2>1
  <2>3. s # {}
    <3>1. g[{}] = 0
      BY <1>3 DEF Sums, Step
    <3>2. Cardinality({}) = 0
      BY FS_EmptySet
    <3> QED
      BY <2>2, <3>1, <3>2
  <2>4. PICK x : x \in s
    BY <2>3
  <2>5. PICK u : u = s \ {x}
    OBVIOUS
  <2>6. u \in SUBSET S /\ g[u] = Cardinality(u)
    BY <2>1, <2>2, <2>4, <2>5
  <2>7. g[s] = f[x] + g[u] /\ f[x] = 1
    BY <1>1, <1>2, <1>3, <2>2, <2>4, <2>5, SumRemoves
  <2>8. IsFiniteSet(s) /\ Cardinality(u) = Cardinality(s) - 1 /\ Cardinality(s) \in Nat
    BY <2>2, <2>4, <2>5, FS_Subset, FS_RemoveElement, FS_CardinalityType
  <2> QED
    BY <2>2, <2>6, <2>7, <2>8
<1>5. g[S] = Cardinality(S)
  <2>1. S \notin Bad
    BY <1>4
  <2> QED
    BY <2>1
<1> QED
  BY <1>1, <1>3, <1>5

-----------------------------------------------------------------------------
(* Quotients *)

LEMMA Quotient ==
  ASSUME NEW a \in Nat, NEW n \in Nat, n > 0
  PROVE  a \div n \in Nat /\ n * (a \div n) <= a
<1>1. PICK q : q = a \div n
  OBVIOUS
<1>2. q \in Int
  BY <1>1
<1>3. a = n * q + (a % n) /\ a % n \in 0 .. n - 1
  BY <1>1
<1>4. n * q <= a /\ n * q > a - n
  BY <1>2, <1>3
<1>5. q >= 0
  <2>1. SUFFICES ASSUME q <= -1 PROVE FALSE
    BY <1>2
  <2>2. n * q <= n * (-1)
    BY <1>2, <2>1
  <2> QED
    BY <1>2, <1>4, <2>2
<1> QED
  BY <1>1, <1>2, <1>4, <1>5

LEMMA QuotientMonotone ==
  ASSUME NEW a \in Nat, NEW b \in Nat, NEW n \in Nat, n > 0, a <= b
  PROVE  a \div n <= b \div n
<1>1. PICK p, q : p = a \div n /\ q = b \div n
  OBVIOUS
<1>2. p \in Int /\ q \in Int
  BY <1>1
<1>3. a = n * p + (a % n) /\ a % n \in 0 .. n - 1
  BY <1>1
<1>4. b = n * q + (b % n) /\ b % n \in 0 .. n - 1
  BY <1>1
<1>5. n * p <= a /\ b < n * q + n
  BY <1>2, <1>3, <1>4
<1>6. SUFFICES ASSUME q + 1 <= p PROVE FALSE
  BY <1>1, <1>2
<1>7. n * (q + 1) <= n * p
  BY <1>2, <1>6
<1>8. n * (q + 1) = n * q + n
  BY <1>2
<1> QED
  BY <1>2, <1>5, <1>7, <1>8

-----------------------------------------------------------------------------
(* Statuses roll up *)

Statuses == {"critical", "watch", "unknown", "ok"}

LEMMA StatusType == \A grade, alerts : InstanceStatus(grade, alerts) \in Statuses
  BY DEF InstanceStatus, Statuses

LEMMA OverallIs ==
  ASSUME NEW S \in SUBSET Statuses
  PROVE  /\ Overall(S) \in Statuses
         /\ Overall(S) = "critical" <=> "critical" \in S
         /\ Overall(S) \in {"critical", "watch"} <=> S \cap {"critical", "watch"} # {}
         /\ Overall(S) = "ok" <=> S = {"ok"}
  BY DEF Overall, Statuses

\* Rolling up what is rolled up is rolling up everything.
LEMMA OverallOfOveralls ==
  ASSUME NEW M, NEW A \in [M -> (SUBSET Statuses) \ {{}}]
  PROVE  Overall({Overall(A[m]) : m \in M}) = Overall(UNION {A[m] : m \in M})
<1> DEFINE S == {Overall(A[m]) : m \in M}
           T == UNION {A[m] : m \in M}
<1>2. \A m \in M : A[m] \in SUBSET Statuses /\ A[m] # {}
  OBVIOUS
<1>3. ASSUME NEW s \in {"critical", "watch", "unknown"}
      PROVE  s \in S => s \in T
  <2> SUFFICES ASSUME NEW m \in M, Overall(A[m]) = s PROVE s \in A[m]
    OBVIOUS
  <2> QED
    BY <1>2 DEF Overall
<1>4. "critical" \in T => "critical" \in S
  <2> SUFFICES ASSUME NEW m \in M, "critical" \in A[m] PROVE Overall(A[m]) = "critical"
    OBVIOUS
  <2> QED
    BY DEF Overall
<1>5. "watch" \in T /\ "critical" \notin T => "watch" \in S
  <2> SUFFICES ASSUME NEW m \in M, "watch" \in A[m], "critical" \notin A[m] PROVE Overall(A[m]) = "watch"
    OBVIOUS
  <2> QED
    BY DEF Overall
<1>6. "unknown" \in T /\ "critical" \notin T /\ "watch" \notin T => "unknown" \in S
  <2> SUFFICES ASSUME NEW m \in M, "unknown" \in A[m], "critical" \notin A[m], "watch" \notin A[m]
               PROVE  Overall(A[m]) = "unknown"
    OBVIOUS
  <2> QED
    BY DEF Overall
<1>7. S = {} <=> T = {}
  BY <1>2
<1> HIDE DEF S, T
<1> QED
  BY <1>3, <1>4, <1>5, <1>6, <1>7 DEF Overall, S, T

-----------------------------------------------------------------------------
(* The fleet tree *)

Under(level, n) == {i \in Instances : SubSeq(Place[i], 1, level) = n}
Said(level, n, now) == {StatusOf(i, now) : i \in Under(level, n)}
Flat(now) == [level \in 0 .. 4 |-> [n \in Nodes(level) |-> Overall(Said(level, n, now))]]

LEMMA SaidType ==
  ASSUME NEW level, NEW n \in Nodes(level), NEW now
  PROVE  Said(level, n, now) \in (SUBSET Statuses) \ {{}}
<1>1. PICK i \in Instances : SubSeq(Place[i], 1, level) = n
  BY DEF Nodes
<1>2. StatusOf(i, now) \in Said(level, n, now)
  BY <1>1 DEF Said, Under
<1>3. \A j \in Instances : StatusOf(j, now) \in Statuses
  BY StatusType DEF StatusOf, StatusOfSnapshot
<1>4. \A s \in Said(level, n, now) : s \in Statuses
  BY <1>3 DEF Said, Under
<1> QED
  BY <1>2, <1>4

LEMMA PlaceIs ==
  ASSUME NEW i \in Instances
  PROVE  /\ Place[i] \in Seq(STRING) /\ Len(Place[i]) = 4
         /\ SubSeq(Place[i], 1, 4) = Place[i]
         /\ \A level \in 0 .. 3 : SubSeq(SubSeq(Place[i], 1, level + 1), 1, level) = SubSeq(Place[i], 1, level)
         /\ SubSeq(Place[i], 1, 0) = <<>>
<1>1. PICK p : p = Place[i]
  OBVIOUS
<1>2. p \in Seq(STRING) /\ Len(p) = 4
  BY <1>1, FleetAssumption
<1>3. SubSeq(p, 1, 4) = p
  BY <1>2
<1>4. ASSUME NEW level \in 0 .. 3
      PROVE  SubSeq(SubSeq(p, 1, level + 1), 1, level) = SubSeq(p, 1, level)
  BY <1>2
<1>5. SubSeq(p, 1, 0) = <<>>
  BY <1>2
<1> QED
  BY <1>1, <1>2, <1>3, <1>4, <1>5

\* What a node rolls up from the nodes below it is what its instances say.
LEMMA LevelsAgree ==
  ASSUME NEW level \in 0 .. 3, NEW n \in Nodes(level), NEW now
  PROVE  Overall({Overall(Said(level + 1, m, now)) :
                     m \in {k \in Nodes(level + 1) : SubSeq(k, 1, level) = n}})
           = Overall(Said(level, n, now))
<1>1. PICK M : M = {k \in Nodes(level + 1) : SubSeq(k, 1, level) = n}
  OBVIOUS
<1>2. PICK A : A = [m \in M |-> Said(level + 1, m, now)]
  OBVIOUS
<1>3. A \in [M -> (SUBSET Statuses) \ {{}}]
  BY <1>1, <1>2, SaidType
<1>4. UNION {A[m] : m \in M} = Said(level, n, now)
  <2>1. ASSUME NEW m \in M, NEW i \in Under(level + 1, m) PROVE i \in Under(level, n)
    <3>1. i \in Instances /\ SubSeq(Place[i], 1, level + 1) = m /\ SubSeq(m, 1, level) = n
      BY <1>1, <2>1 DEF Under
    <3>2. SubSeq(Place[i], 1, level) = n
      BY <3>1, PlaceIs
    <3> QED
      BY <3>1, <3>2 DEF Under
  <2>2. ASSUME NEW i \in Under(level, n)
        PROVE  \E m \in M : i \in Under(level + 1, m)
    <3>1. i \in Instances /\ SubSeq(Place[i], 1, level) = n
      BY DEF Under
    <3>2. PICK m : m = SubSeq(Place[i], 1, level + 1)
      OBVIOUS
    <3>3. m \in Nodes(level + 1) /\ SubSeq(m, 1, level) = n
      BY <3>1, <3>2, PlaceIs DEF Nodes
    <3> QED
      BY <1>1, <3>1, <3>2, <3>3 DEF Under
  <2>3. \A m \in M : A[m] = {StatusOf(i, now) : i \in Under(level + 1, m)}
    BY <1>2 DEF Said
  <2>4. Said(level, n, now) = {StatusOf(i, now) : i \in Under(level, n)}
    BY DEF Said
  <2> QED
    BY <2>1, <2>2, <2>3, <2>4
<1>5. Overall({Overall(A[m]) : m \in M}) = Overall(UNION {A[m] : m \in M})
  BY <1>3, OverallOfOveralls
<1>6. {Overall(A[m]) : m \in M} = {Overall(Said(level + 1, m, now)) : m \in M}
  BY <1>2
<1> QED
  BY <1>1, <1>4, <1>5, <1>6

\* The tree, rolled up level by level, is that of the instances' statuses.
LEMMA TreeIsFlat == ASSUME NEW now PROVE Tree(now) = Flat(now)
<1> DEFINE Level(at, level) ==
      [n \in Nodes(level) |->
         IF level = 4
           THEN Overall({StatusOf(i, now) : i \in {j \in Instances : Place[j] = n}})
           ELSE Overall({at[level + 1][m] : m \in {k \in Nodes(level + 1) : SubSeq(k, 1, level) = n}})]
      T == CHOOSE at : at = [level \in 0 .. 4 |-> Level(at, level)]
<1>1. ASSUME NEW n \in Nodes(4)
      PROVE  Overall({StatusOf(i, now) : i \in {j \in Instances : Place[j] = n}}) = Overall(Said(4, n, now))
  <2>1. \A j \in Instances : Place[j] = n <=> SubSeq(Place[j], 1, 4) = n
    BY PlaceIs
  <2>2. {j \in Instances : Place[j] = n} = Under(4, n)
    BY <2>1 DEF Under
  <2> QED
    BY <2>2 DEF Said
<1>2. \A at : Level(at, 4) = Flat(now)[4]
  BY <1>1 DEF Flat
<1>3. ASSUME NEW at, NEW level \in 0 .. 3, at[level + 1] = Flat(now)[level + 1]
      PROVE  Level(at, level) = Flat(now)[level]
  <2>1. level # 4 /\ level + 1 \in 0 .. 4 /\ level \in 0 .. 4
    OBVIOUS
  <2>2. \A m \in Nodes(level + 1) : at[level + 1][m] = Overall(Said(level + 1, m, now))
    BY <1>3, <2>1 DEF Flat
  <2>3. ASSUME NEW n \in Nodes(level)
        PROVE  Level(at, level)[n] = Overall(Said(level, n, now))
    <3>1. PICK M : M = {k \in Nodes(level + 1) : SubSeq(k, 1, level) = n}
      OBVIOUS
    <3>2. {at[level + 1][m] : m \in M} = {Overall(Said(level + 1, m, now)) : m \in M}
      BY <2>2, <3>1
    <3>3. Level(at, level)[n] = Overall({at[level + 1][m] : m \in M})
      BY <2>1, <3>1
    <3> QED
      BY <3>1, <3>2, <3>3, LevelsAgree
  <2>4. Flat(now)[level] = [n \in Nodes(level) |-> Overall(Said(level, n, now))]
    BY <2>1 DEF Flat
  <2>5. Level(at, level) = [n \in Nodes(level) |-> Level(at, level)[n]]
    OBVIOUS
  <2> HIDE DEF Level
  <2> QED
    BY <2>3, <2>4, <2>5
<1> HIDE DEF Level
<1>4. Flat(now) = [level \in 0 .. 4 |-> Level(Flat(now), level)]
  <2>1. \A level \in 0 .. 4 : Level(Flat(now), level) = Flat(now)[level]
    <3>1. \A level \in 0 .. 4 : level = 4 \/ level \in 0 .. 3
      OBVIOUS
    <3> QED
      BY <1>2, <1>3, <3>1
  <2>2. Flat(now) = [level \in 0 .. 4 |-> Flat(now)[level]]
    BY DEF Flat
  <2> QED
    BY <2>1, <2>2
<1>5. T = [level \in 0 .. 4 |-> Level(T, level)]
  BY <1>4
<1> HIDE DEF T
<1>6. \A level \in 0 .. 4 : T[level] = Level(T, level)
  BY <1>5
<1>7. T[4] = Flat(now)[4]
  BY <1>2, <1>6
<1>8. T[3] = Flat(now)[3]
  BY <1>3, <1>6, <1>7
<1>9. T[2] = Flat(now)[2]
  BY <1>3, <1>6, <1>8
<1>10. T[1] = Flat(now)[1]
  BY <1>3, <1>6, <1>9
<1>11. T[0] = Flat(now)[0]
  BY <1>3, <1>6, <1>10
<1>12. T = [level \in 0 .. 4 |-> T[level]]
  BY <1>5
<1>13. Flat(now) = [level \in 0 .. 4 |-> Flat(now)[level]]
  BY DEF Flat
<1>14. \A level \in 0 .. 4 : T[level] = Flat(now)[level]
  <2>1. \A level \in 0 .. 4 : level \in {0, 1, 2, 3, 4}
    OBVIOUS
  <2> QED
    BY <2>1, <1>7, <1>8, <1>9, <1>10, <1>11
<1>15. Tree(now) = T
  BY DEF Tree, T, Level
<1> QED
  BY <1>12, <1>13, <1>14, <1>15


Everywhere(now) == {StatusOf(i, now) : i \in Instances}
Among(cluster, now) == {StatusOf(i, now) : i \in Members(cluster)}

LEMMA StatusOfType == \A i, now : StatusOf(i, now) \in Statuses
  BY StatusType DEF StatusOf, StatusOfSnapshot

\* The fleet's status and a cluster's are those of their instances.
LEMMA FleetIs ==
  ASSUME NEW i \in Instances, NEW now
  PROVE  Tree(now)[0][<<>>] = Overall(Everywhere(now))
<1>1. \A j \in Instances : SubSeq(Place[j], 1, 0) = <<>>
  BY PlaceIs
<1>2. <<>> \in Nodes(0) /\ Under(0, <<>>) = Instances
  BY <1>1 DEF Nodes, Under
<1>3. Flat(now)[0][<<>>] = Overall(Said(0, <<>>, now))
  BY <1>2 DEF Flat
<1> QED
  BY <1>2, <1>3, TreeIsFlat DEF Said, Everywhere

LEMMA PageIs ==
  ASSUME NEW cluster, NEW now
  PROVE  Page(cluster, now).status = Overall(Among(cluster, now))
<1>1. Range([i \in Members(cluster) |-> StatusOf(i, now)]) = Among(cluster, now)
  BY DEF Range, Among
<1> QED
  BY <1>1 DEF Page, PageOf

LEMMA AmongType ==
  ASSUME NEW now
  PROVE  Everywhere(now) \in SUBSET Statuses /\ \A cluster : Among(cluster, now) \in SUBSET Statuses
<1>1. \A i \in Instances : StatusOf(i, now) \in Statuses
  BY StatusOfType
<1>2. \A cluster : \A i \in Members(cluster) : StatusOf(i, now) \in Statuses
  BY <1>1 DEF Members
<1> QED
  BY <1>1, <1>2 DEF Everywhere, Among

\* A green page vouches for each of its instances, and none hides a critical one.
LEMMA PagesMean ==
  ASSUME NEW i \in Instances, NEW now
  PROVE  /\ Tree(now)[0][<<>>] = "ok" \/ Page(Place[i][3], now).status = "ok" => StatusOf(i, now) = "ok"
         /\ StatusOf(i, now) = "critical" =>
              Tree(now)[0][<<>>] = "critical" /\ Page(Place[i][3], now).status = "critical"
<1>1. StatusOf(i, now) \in Everywhere(now) /\ StatusOf(i, now) \in Among(Place[i][3], now)
  BY DEF Everywhere, Among, Members
<1>2. PICK S, T : S = Everywhere(now) /\ T = Among(Place[i][3], now)
  OBVIOUS
<1>3. S \in SUBSET Statuses /\ T \in SUBSET Statuses
  BY <1>2, AmongType
<1>4. Overall(S) = "ok" <=> S = {"ok"}
  BY <1>3, OverallIs
<1>5. Overall(T) = "ok" <=> T = {"ok"}
  BY <1>3, OverallIs
<1>6. "critical" \in S => Overall(S) = "critical"
  BY <1>3, OverallIs
<1>7. "critical" \in T => Overall(T) = "critical"
  BY <1>3, OverallIs
<1> QED
  BY <1>1, <1>2, <1>4, <1>5, <1>6, <1>7, FleetIs, PageIs

-----------------------------------------------------------------------------
(* Page and tree agree *)

\* Clusters of one name are one cluster, as those of one configuration file are.
OneClusterPerName ==
  \A i, j \in Instances : Place[i][3] = Place[j][3] => SubSeq(Place[i], 1, 3) = SubSeq(Place[j], 1, 3)

LEMMA Agreement == ASSUME OneClusterPerName PROVE PagesAgree
<1> SUFFICES ASSUME NEW i \in Instances, NEW page, page = Page(Place[i][3], clock)
             PROVE  /\ Tree(clock)[3][SubSeq(Place[i], 1, 3)] = page.status
                    /\ page.status \in {"watch", "critical"} <=> page.attention # {}
                    /\ page.status = "ok" <=> page.healthy = Cardinality(Members(Place[i][3]))
  <2>1. \A j \in Instances : Place[j][3] \in Clusters
    BY DEF Clusters
  <2> QED
    BY <2>1 DEF PagesAgree
<1>1. PICK M : M = Members(Place[i][3])
  OBVIOUS
<1>2. i \in M /\ M \in SUBSET Instances /\ IsFiniteSet(M)
  BY <1>1, FleetAssumption, FS_Subset DEF Members
<1>3. PICK S : S = Among(Place[i][3], clock)
  OBVIOUS
<1>4. S = {StatusOf(j, clock) : j \in M} /\ S # {} /\ S \in SUBSET Statuses
  BY <1>1, <1>2, <1>3, AmongType DEF Among
<1>5. page.status = Overall(S)
  BY <1>3, PageIs
<1>6. Tree(clock)[3][SubSeq(Place[i], 1, 3)] = Overall(S)
  <2>1. PICK n : n = SubSeq(Place[i], 1, 3)
    OBVIOUS
  <2>2. n \in Nodes(3)
    BY <2>1 DEF Nodes
  <2>3. \A j \in Instances : SubSeq(Place[j], 1, 3) = n <=> Place[j][3] = Place[i][3]
    <3>1. ASSUME NEW j \in Instances, SubSeq(Place[j], 1, 3) = n PROVE Place[j][3] = Place[i][3]
      <4>1. PICK p, q : p = Place[i] /\ q = Place[j]
        OBVIOUS
      <4>2. p \in Seq(STRING) /\ Len(p) = 4 /\ q \in Seq(STRING) /\ Len(q) = 4
        BY <4>1, PlaceIs
      <4>3. SubSeq(p, 1, 3)[3] = p[3] /\ SubSeq(q, 1, 3)[3] = q[3]
        BY <4>2
      <4> QED
        BY <2>1, <3>1, <4>1, <4>3
    <3> QED
      BY <2>1, <3>1 DEF OneClusterPerName
  <2>4. Under(3, n) = M
    BY <1>1, <2>3 DEF Under, Members
  <2>5. Flat(clock)[3][n] = Overall(Said(3, n, clock))
    BY <2>2 DEF Flat
  <2> QED
    BY <1>4, <2>1, <2>4, <2>5, TreeIsFlat DEF Said
<1>7. page.status \in {"watch", "critical"} <=> page.attention # {}
  <2>1. page.attention = {j \in M : StatusOf(j, clock) \in {"watch", "critical"}}
    BY <1>1 DEF Page, PageOf
  <2>2. S \cap {"critical", "watch"} # {} <=> page.attention # {}
    BY <1>4, <2>1
  <2>3. Overall(S) \in {"critical", "watch"} <=> S \cap {"critical", "watch"} # {}
    BY <1>4, OverallIs
  <2>4. {"critical", "watch"} = {"watch", "critical"}
    OBVIOUS
  <2> QED
    BY <1>5, <2>2, <2>3, <2>4
<1>8. page.status = "ok" <=> page.healthy = Cardinality(M)
  <2>1. PICK K : K = {j \in M : StatusOf(j, clock) = "ok"}
    OBVIOUS
  <2>2. page.healthy = Cardinality(K)
    BY <1>1, <2>1 DEF Page, PageOf
  <2>3. K \in SUBSET M
    BY <2>1
  <2>4. Cardinality(K) = Cardinality(M) <=> K = M
    BY <1>2, <2>3, FS_Subset
  <2>5. K = M <=> S = {"ok"}
    BY <1>2, <1>4, <2>1
  <2>6. Overall(S) = "ok" <=> S = {"ok"}
    BY <1>4, OverallIs
  <2> QED
    BY <1>5, <2>2, <2>4, <2>5, <2>6
<1> QED
  BY <1>1, <1>5, <1>6, <1>7, <1>8

\* The page of a cluster, its node of the fleet tree and its counts never differ,
\* where clusters of one name are one (PagesAgree, for all constants).
THEOREM PagesAndTreeAgree ==
  ASSUME OneClusterPerName
  PROVE  Spec => []PagesAgree
<1>1. PagesAgree
  BY Agreement
<1> QED
  BY <1>1, PTL


-----------------------------------------------------------------------------
(* What the analyzer makes of a batch *)

Number == Nat \cup {None}

LEMMA OrderedPair ==
  ASSUME NEW a \in Nat, NEW b \in Nat
  PROVE  /\ Least(a, b) \in {a, b} /\ Least(a, b) <= a /\ Least(a, b) <= b
         /\ Most(a, b) \in {a, b} /\ a <= Most(a, b) /\ b <= Most(a, b)
<1>1. a \in Int /\ b \in Int
  OBVIOUS
<1> QED
  BY <1>1, MaxOfTwo, MinOfTwo, Zenon DEF Least, Most

\* A rank up to the number of values has a value.
LEMMA RankedIs ==
  ASSUME NEW S, IsFiniteSet(S), NEW f \in [S -> Nat], NEW k \in Nat, k <= Cardinality(S), S # {}
  PROVE  Ranked(f, k) \in Nat
<1>1. PICK V : V = {v \in Range(f) : Cardinality({x \in DOMAIN f : f[x] <= v}) >= k}
  OBVIOUS
<1>2. DOMAIN f = S /\ Range(f) = {f[x] : x \in S}
  BY DEF Range
<1>3. IsFiniteSet(V)
  <2>1. PICK T : T = {f[x] : x \in S}
    OBVIOUS
  <2>2. f \in Surjection(S, T)
    BY <2>1 DEF Surjection
  <2>3. IsFiniteSet(T)
    BY <2>2, FS_Surjection
  <2>4. V \in SUBSET T
    BY <1>1, <1>2, <2>1
  <2> QED
    BY <2>3, <2>4, FS_Subset
<1>4. V # {}
  <2>1. PICK m : m = Max({f[x] : x \in S})
    OBVIOUS
  <2>2. m \in Nat /\ (\A x \in S : f[x] <= m) /\ \E x \in S : m = f[x]
    BY <2>1, MaxOver
  <2>3. {x \in DOMAIN f : f[x] <= m} = S
    BY <1>2, <2>2
  <2>4. Cardinality(S) \in Nat
    BY FS_CardinalityType
  <2>5. Cardinality({x \in DOMAIN f : f[x] <= m}) >= k
    BY <2>3, <2>4
  <2>6. m \in Range(f)
    BY <1>2, <2>2
  <2> QED
    BY <1>1, <2>5, <2>6
<1>5. \A v \in V : v \in Int /\ v \in Nat
  BY <1>1, <1>2
<1>6. V \subseteq Int
  BY <1>5
<1>7. Min(V) \in V
  BY <1>3, <1>4, <1>6, MinExists, Zenon
<1> QED
  BY <1>1, <1>5, <1>7 DEF Ranked

\* The heap after a batch's pauses.
LEMMA AfterIs ==
  ASSUME NEW b \in GcBatch
  PROVE  LET S == DOMAIN After(b)
         IN /\ IsFiniteSet(S) /\ S \in SUBSET DOMAIN b.stw
            /\ After(b) \in [S -> Nat]
<1>1. PICK s : s = b.stw
  OBVIOUS
<1>2. s \in Seq(GcPause)
  BY <1>1 DEF GcBatch
<1>3. DOMAIN s = 1 .. Len(s) /\ Len(s) \in Nat /\ \A k \in DOMAIN s : s[k] \in GcPause
  BY <1>2
<1>4. IsFiniteSet(DOMAIN s)
  BY <1>3, FS_Interval
<1>5. PICK S : S = {n \in DOMAIN s : s[n].after # None}
  OBVIOUS
<1>6. IsFiniteSet(S) /\ S \in SUBSET DOMAIN s
  BY <1>4, <1>5, FS_Subset
<1>7. After(b) = [k \in S |-> s[k].after]
  BY <1>1, <1>5 DEF After
<1>8. \A k \in S : s[k].after \in Nat
  BY <1>3, <1>5 DEF GcPause
<1> QED
  BY <1>1, <1>6, <1>7, <1>8

LEMMA PausesAre ==
  ASSUME NEW b \in GcBatch
  PROVE  /\ DOMAIN b.stw = 1 .. Len(b.stw) /\ Len(b.stw) \in Nat
         /\ IsFiniteSet(DOMAIN b.stw) /\ Cardinality(DOMAIN b.stw) = Len(b.stw)
         /\ \A k \in DOMAIN b.stw : b.stw[k] \in GcPause
         /\ b.stw # <<>> => DOMAIN b.stw # {} /\ Len(b.stw) > 0
         /\ b.span \in Nat /\ b.events \in Nat /\ b.bad \in BOOLEAN /\ b.heapMax \in Nat
<1>1. PICK s : s = b.stw
  OBVIOUS
<1>2. s \in Seq(GcPause) /\ b.span \in Nat /\ b.events \in Nat /\ b.bad \in BOOLEAN /\ b.heapMax \in Nat
  BY <1>1 DEF GcBatch
<1>3. DOMAIN s = 1 .. Len(s) /\ Len(s) \in Nat /\ \A k \in DOMAIN s : s[k] \in GcPause
  BY <1>2
<1>4. IsFiniteSet(DOMAIN s) /\ Cardinality(DOMAIN s) = Len(s)
  BY <1>3, FS_Interval
<1>5. s # <<>> => Len(s) > 0 /\ DOMAIN s # {}
  <2>1. Len(s) = 0 => s = <<>>
    BY <1>2, EmptySeq
  <2>2. PICK n \in Nat : n = Len(s) /\ DOMAIN s = 1 .. n
    BY <1>3
  <2>3. n > 0 => 1 \in DOMAIN s
    BY <2>2
  <2> QED
    BY <2>1, <2>2, <2>3
<1> QED
  BY <1>1, <1>2, <1>3, <1>4, <1>5

\* The metrics of a batch with a pause: the largest pause, the Full GCs and the
\* averages are numbers, and a rate is one where rates are available.
LEMMA AnalyzeIs ==
  ASSUME NEW b \in GcBatch, b.stw # <<>>
  PROVE  LET m == Analyze(b)
         IN /\ {m.full, m.max, m.avg} \subseteq Nat
            /\ m.thr \in Number
            /\ (\E k \in DOMAIN b.stw : b.stw[k].full) <=> m.full > 0
            /\ \A k \in DOMAIN b.stw : b.stw[k].ms <= m.max
            /\ m.thr # None => RatesAvailable(b)
<1>1. PICK m : m = Analyze(b)
  OBVIOUS
<1>2. PICK D : D = DOMAIN b.stw
  OBVIOUS
<1>3. IsFiniteSet(D) /\ D # {} /\ Len(b.stw) \in Nat /\ Len(b.stw) > 0 /\ D = 1 .. Len(b.stw)
  BY <1>2, PausesAre
<1>4. \A k \in D : b.stw[k] \in GcPause
  BY <1>2, PausesAre
<1>5. PICK ms : ms = [k \in D |-> b.stw[k].ms]
  OBVIOUS
<1>6. ms \in [D -> Nat]
  BY <1>4, <1>5 DEF GcPause
<1>7. PICK total \in Nat : total = SumFunction(ms)
  BY <1>3, <1>6, SumAtLeast
<1>8. m.full \in Nat /\ ((\E k \in D : b.stw[k].full) <=> m.full > 0)
  <2>1. PICK F : F = {k \in D : b.stw[k].full}
    OBVIOUS
  <2>2. m.full = Cardinality(F)
    BY <1>1, <1>2, <2>1 DEF Analyze
  <2>3. IsFiniteSet(F)
    BY <1>3, <2>1, FS_Subset
  <2>4. Cardinality(F) \in Nat /\ (Cardinality(F) = 0 <=> F = {})
    BY <2>3, FS_CardinalityType, FS_EmptySet
  <2> QED
    BY <2>1, <2>2, <2>4
<1>9. m.max \in Nat /\ \A k \in D : b.stw[k].ms <= m.max
  <2>1. PICK x : x = Max({ms[k] : k \in D})
    OBVIOUS
  <2>2. x \in Nat /\ \A k \in D : ms[k] <= x
    BY <1>3, <1>6, <2>1, MaxOver
  <2>3. m.max = x
    <3>1. Range(ms) = {ms[k] : k \in D}
      BY <1>6 DEF Range
    <3>2. m.max = Max(Range(ms))
      BY <1>1, <1>2, <1>5 DEF Analyze
    <3> QED
      BY <2>1, <3>1, <3>2
  <2> QED
    BY <1>5, <2>2, <2>3
<1>10. m.avg \in Nat
  <2>1. m.avg = total \div Len(ms)
    BY <1>1, <1>2, <1>5, <1>7 DEF Analyze
  <2>2. Len(ms) = Len(b.stw)
    <3>1. PICK n \in Nat : n = Len(b.stw) /\ D = 1 .. n
      BY <1>3
    <3>2. ms \in [1 .. n -> Nat]
      BY <1>6, <3>1
    <3>3. ms \in Seq(Nat)
      BY <3>2, SeqDef
    <3>4. Len(ms) = n
      BY <3>2, <3>3, LenProperties
    <3> QED
      BY <3>1, <3>4
  <2>3. PICK n \in Nat : n = Len(b.stw) /\ n > 0
    BY <1>3
  <2>4. total \div n \in Nat
    BY <2>3, Quotient
  <2> QED
    BY <2>1, <2>2, <2>3, <2>4
<1>11. m.thr \in Number /\ (m.thr # None => RatesAvailable(b))
  <2>1. m.thr = IF RatesAvailable(b) THEN Most(0, 1000 - total \div b.span) ELSE None
    BY <1>1, <1>2, <1>5, <1>7 DEF Analyze
  <2>2. CASE RatesAvailable(b)
    <3>1. b.span \in Nat /\ b.span > 0
      BY <2>2, PausesAre DEF RatesAvailable, MinRateSpan
    <3>2. PICK a \in Int : a = 1000 - total \div b.span
      BY <3>1
    <3>3. Most(0, a) \in Nat
      <4>1. 0 \in Int /\ a \in Int
        OBVIOUS
      <4>2. Most(0, a) \in {0, a} /\ 0 <= Most(0, a)
        BY <4>1, MaxOfTwo, Zenon DEF Most
      <4> QED
        BY <4>2
    <3> QED
      BY <2>1, <2>2, <3>2, <3>3 DEF Number
  <2>3. CASE ~RatesAvailable(b)
    BY <2>1, <2>3 DEF Number
  <2> QED
    BY <2>2, <2>3
<1> QED
  BY <1>1, <1>2, <1>8, <1>9, <1>10, <1>11


-----------------------------------------------------------------------------
(* Rows and batches *)

\* What batch x left in the rows r and the outcomes o, as far as retention keeps
\* entries from the time `since` on.
Recorded(x, r, o, since) ==
  /\ x.batch \in GcBatch /\ (x.batch.stw # <<>> \/ x.batch.bad)
  /\ x.row \in Nat /\ x.at \in Nat /\ x.row <= x.at
  /\ x.at >= since => x.at \in DOMAIN o /\ o[x.at] = OutcomeOf(x.batch)
  /\ x.batch.stw # <<>> /\ x.row >= since => x.row \in DOMAIN r /\ r[x.row] = RowOf(Analyze(x.batch))

\* Row t is that of a batch.
Stands(t, r, bs) == \E x \in bs : x.row = t /\ x.batch.stw # <<>> /\ r[t] = RowOf(Analyze(x.batch))

\* The rows r and the outcomes o of an instance are those of its batches, but for
\* what expired and for the outcomes of passes whose rows were all taken since; no
\* outcome is newer than the newest batch.
Kept(r, o, bs, now) ==
  /\ DOMAIN o \subseteq 0 .. now
  /\ \A x \in bs : Recorded(x, r, o, now - Retention) /\ x.at <= now
  /\ \A t \in DOMAIN o : \E x \in bs : t <= x.at
  /\ \A t \in DOMAIN r : Stands(t, r, bs)

LEMMA RetentionIs ==
  /\ Retention \in Nat /\ Recent \in Nat /\ MaxAge \in Nat /\ Day \in Nat
  /\ Recent <= MaxAge /\ MaxAge <= Day /\ Day <= Retention
  BY FleetAssumption, WindowAssumption

LEMMA KeptAges ==
  ASSUME NEW now \in Nat, NEW r, NEW o, NEW bs, Kept(r, o, bs, now)
  PROVE  Kept(r, o, bs, now + 1)
<1>1. 0 .. now \subseteq 0 .. now + 1
  OBVIOUS
<1>2. ASSUME NEW x \in bs PROVE Recorded(x, r, o, (now + 1) - Retention) /\ x.at <= now + 1
  <2>1. Recorded(x, r, o, now - Retention) /\ x.at <= now
    BY DEF Kept
  <2>2. x.at \in Nat /\ x.row \in Nat
    BY <2>1 DEF Recorded
  <2>3. /\ x.at >= (now + 1) - Retention => x.at >= now - Retention
        /\ x.row >= (now + 1) - Retention => x.row >= now - Retention
        /\ x.at <= now + 1
    BY <2>1, <2>2, RetentionIs
  <2> QED
    BY <2>1, <2>3 DEF Recorded
<1> QED
  BY <1>1, <1>2 DEF Kept

\* An instance without an outcome now has no batch of now.
LEMMA BatchesArePast ==
  ASSUME NEW now \in Nat, NEW r, NEW o, NEW bs, Kept(r, o, bs, now), now \notin DOMAIN o, NEW x \in bs
  PROVE  x.at \in Nat /\ x.at < now /\ x.row \in Nat /\ x.row < now
<1>1. Recorded(x, r, o, now - Retention) /\ x.at <= now
  BY DEF Kept
<1>2. x.at \in Nat /\ x.row \in Nat /\ x.row <= x.at
  BY <1>1 DEF Recorded
<1>3. x.at # now
  <2>1. now >= now - Retention
    BY RetentionIs
  <2> QED
    BY <1>1, <2>1 DEF Recorded
<1> QED
  BY <1>1, <1>2, <1>3

RowsOf(read) == [t \in DOMAIN read |-> RowOf(Analyze(read[t]))]
Found(now, read) == {[at |-> now, row |-> t, batch |-> read[t]] : t \in DOMAIN read}
Spared(bs, read) == {x \in bs : x.row \notin DOMAIN read \/ x.batch.stw = <<>>}

\* A read that may be recorded: buckets of now or before, with pauses, that share
\* what was skipped.
Readable(read, lost, now) ==
  /\ DOMAIN read \subseteq 0 .. now /\ DOMAIN read # {}
  /\ \A t \in DOMAIN read : read[t] \in GcBatch /\ read[t].stw # <<>> /\ read[t].bad = lost

\* Rows are recorded, in the place of those at their times.
LEMMA KeptReads ==
  ASSUME NEW now \in Nat, NEW r, NEW o, NEW bs, Kept(r, o, bs, now), now \notin DOMAIN o,
         NEW read, NEW lost \in BOOLEAN, Readable(read, lost, now),
         NEW state, state = IF lost THEN "partial" ELSE "complete"
  PROVE  Kept(Over(r, RowsOf(read)), With(o, now, state), Spared(bs, read) \cup Found(now, read), now)
<1>1. PICK r2 : r2 = Over(r, RowsOf(read))
  OBVIOUS
<1>2. PICK o2 : o2 = With(o, now, state)
  OBVIOUS
<1>3. PICK bs2 : bs2 = Spared(bs, read) \cup Found(now, read)
  OBVIOUS
<1>4. DOMAIN o2 = DOMAIN o \cup {now} /\ o2[now] = state /\ \A t \in DOMAIN o : o2[t] = o[t]
  BY <1>2 DEF With
<1>5. /\ DOMAIN r2 = DOMAIN r \cup DOMAIN read
      /\ \A t \in DOMAIN read : r2[t] = RowOf(Analyze(read[t]))
      /\ \A t \in DOMAIN r : t \notin DOMAIN read => r2[t] = r[t]
  BY <1>1 DEF Over, RowsOf
<1>6. \A x \in Found(now, read) : /\ x.at = now /\ x.row \in DOMAIN read /\ x.batch = read[x.row]
  BY DEF Found
<1>7. \A t \in DOMAIN read : \E x \in Found(now, read) : x.at = now /\ x.row = t /\ x.batch = read[t]
  <2>1. ASSUME NEW t \in DOMAIN read PROVE \E x \in Found(now, read) : x.at = now /\ x.row = t /\ x.batch = read[t]
    <3>1. PICK x : x = [at |-> now, row |-> t, batch |-> read[t]]
      OBVIOUS
    <3>2. x \in Found(now, read)
      BY <3>1 DEF Found
    <3>3. x.at = now /\ x.row = t /\ x.batch = read[t]
      BY <3>1
    <3> QED
      BY <3>2, <3>3
  <2> QED
    BY <2>1
<1>8. DOMAIN o2 \subseteq 0 .. now
  BY <1>4 DEF Kept
<1>9. ASSUME NEW x \in bs2 PROVE Recorded(x, r2, o2, now - Retention) /\ x.at <= now
  <2>1. CASE x \in Spared(bs, read)
    <3>1. x \in bs /\ (x.row \notin DOMAIN read \/ x.batch.stw = <<>>)
      BY <2>1 DEF Spared
    <3>2. Recorded(x, r, o, now - Retention) /\ x.at <= now
      BY <3>1 DEF Kept
    <3> QED
      BY <1>4, <1>5, <3>1, <3>2 DEF Recorded
  <2>2. CASE x \in Found(now, read)
    <3>1. x.at = now /\ x.row \in DOMAIN read /\ x.batch = read[x.row]
      BY <1>6, <2>2
    <3>2. x.row \in 0 .. now /\ x.batch \in GcBatch /\ x.batch.stw # <<>> /\ x.batch.bad = lost
      BY <3>1 DEF Readable
    <3>3. OutcomeOf(x.batch) = state
      BY <3>2 DEF OutcomeOf
    <3>4. r2[x.row] = RowOf(Analyze(x.batch)) /\ x.row \in DOMAIN r2
      BY <1>5, <3>1
    <3> QED
      BY <1>4, <3>1, <3>2, <3>3, <3>4 DEF Recorded
  <2> QED
    BY <1>3, <2>1, <2>2
<1>10. \A t \in DOMAIN o2 : \E x \in bs2 : t <= x.at
  <2>1. PICK x \in bs2 : x.at = now
    BY <1>3, <1>7 DEF Readable
  <2> QED
    BY <1>8, <2>1
<1>11. ASSUME NEW t \in DOMAIN r2 PROVE Stands(t, r2, bs2)
  <2>1. CASE t \in DOMAIN read
    <3>1. PICK x \in Found(now, read) : x.row = t /\ x.batch = read[t]
      BY <1>7, <2>1
    <3>2. x \in bs2 /\ x.batch.stw # <<>> /\ r2[t] = RowOf(Analyze(x.batch))
      BY <1>3, <1>5, <2>1, <3>1 DEF Readable
    <3> QED
      BY <3>1, <3>2 DEF Stands
  <2>2. CASE t \notin DOMAIN read
    <3>1. t \in DOMAIN r /\ r2[t] = r[t]
      BY <1>5, <2>2
    <3>2. PICK x \in bs : x.row = t /\ x.batch.stw # <<>> /\ r[t] = RowOf(Analyze(x.batch))
      BY <3>1 DEF Kept, Stands
    <3>3. x \in bs2
      BY <1>3, <2>2, <3>2 DEF Spared
    <3> QED
      BY <3>1, <3>2, <3>3 DEF Stands
  <2> QED
    BY <2>1, <2>2
<1> QED
  BY <1>1, <1>2, <1>3, <1>8, <1>9, <1>10, <1>11 DEF Kept

\* Skipped records are recorded, without a row.
LEMMA KeptLosses ==
  ASSUME NEW now \in Nat, NEW r, NEW o, NEW bs, Kept(r, o, bs, now), now \notin DOMAIN o,
         NEW b \in GcBatch, b.stw = <<>>, b.bad,
         NEW x, x = [at |-> now, row |-> now, batch |-> b]
  PROVE  Kept(r, With(o, now, OutcomeOf(b)), bs \cup {x}, now)
<1>1. PICK o2 : o2 = With(o, now, OutcomeOf(b))
  OBVIOUS
<1>2. DOMAIN o2 = DOMAIN o \cup {now} /\ o2[now] = OutcomeOf(b) /\ \A t \in DOMAIN o : o2[t] = o[t]
  BY <1>1 DEF With
<1>3. x.at = now /\ x.row = now /\ x.batch = b
  OBVIOUS
<1>4. DOMAIN o2 \subseteq 0 .. now
  BY <1>2 DEF Kept
<1>5. ASSUME NEW y \in bs \cup {x} PROVE Recorded(y, r, o2, now - Retention) /\ y.at <= now
  <2>1. CASE y \in bs
    <3>1. Recorded(y, r, o, now - Retention) /\ y.at <= now
      BY <2>1 DEF Kept
    <3> QED
      BY <1>2, <3>1 DEF Recorded
  <2>2. CASE y = x
    BY <1>2, <1>3, <2>2 DEF Recorded
  <2> QED
    BY <2>1, <2>2
<1>6. \A t \in DOMAIN o2 : \E y \in bs \cup {x} : t <= y.at
  BY <1>3, <1>4
<1>7. \A t \in DOMAIN r : Stands(t, r, bs \cup {x})
  BY DEF Kept, Stands
<1> QED
  BY <1>1, <1>4, <1>5, <1>6, <1>7 DEF Kept

Young(f, now) == Restrict(f, {t \in DOMAIN f : t >= now - Retention})

\* Entries expire.
LEMMA KeptPrunes ==
  ASSUME NEW now \in Nat, NEW r, NEW o, NEW bs, Kept(r, o, bs, now)
  PROVE  Kept(Young(r, now), Young(o, now), bs, now)
<1>1. PICK r2, o2 : r2 = Young(r, now) /\ o2 = Young(o, now)
  OBVIOUS
<1>2. /\ DOMAIN r2 = {t \in DOMAIN r : t >= now - Retention} /\ \A t \in DOMAIN r2 : r2[t] = r[t]
      /\ DOMAIN o2 = {t \in DOMAIN o : t >= now - Retention} /\ \A t \in DOMAIN o2 : o2[t] = o[t]
  BY <1>1 DEF Young, Restrict
<1>3. ASSUME NEW x \in bs PROVE Recorded(x, r2, o2, now - Retention) /\ x.at <= now
  <2>1. Recorded(x, r, o, now - Retention) /\ x.at <= now
    BY DEF Kept
  <2> QED
    BY <1>2, <2>1 DEF Recorded
<1>4. \A t \in DOMAIN r2 : Stands(t, r2, bs)
  BY <1>2 DEF Kept, Stands
<1>5. DOMAIN o2 \subseteq 0 .. now /\ \A t \in DOMAIN o2 : \E x \in bs : t <= x.at
  BY <1>2 DEF Kept
<1> QED
  BY <1>1, <1>3, <1>4, <1>5 DEF Kept

\* The batch of a row of the last day, and its row.
LEMMA KeptYoung ==
  ASSUME NEW now \in Nat, NEW r, NEW o, NEW bs, Kept(r, o, bs, now),
         NEW x \in bs, NEW age \in Nat, age <= Day, now - x.row <= age
  PROVE  /\ x.batch \in GcBatch
         /\ x.batch.stw # <<>> => x.row \in DOMAIN r /\ r[x.row] = RowOf(Analyze(x.batch))
<1>1. Recorded(x, r, o, now - Retention)
  BY DEF Kept
<1>2. x.row \in Nat
  BY <1>1 DEF Recorded
<1>3. x.row >= now - Retention
  BY <1>2, RetentionIs
<1> QED
  BY <1>1, <1>3 DEF Recorded

-----------------------------------------------------------------------------
(* The invariant *)

\* The host rows of an instance are the rollups of its samples.
Rolled(ro, ss, now) ==
  /\ DOMAIN ss = DOMAIN ro /\ DOMAIN ro \subseteq 0 .. now
  /\ \A t \in DOMAIN ss : ss[t] \in Seq(HostSample) \ {<<>>} /\ ro[t] = Rollup(ss[t])

RowInv  == \A i \in Instances : Kept(rows[i], outcome[i], batches[i], clock)
HostInv == \A i \in Instances : Rolled(rolls[i], samples[i], clock)
Inv ==
  /\ clock \in Nat
  /\ \A f \in {rows, outcome, rolls, batches, samples} : DOMAIN f = Instances
  /\ RowInv /\ HostInv

LEMMA InitHolds == Init => Inv
<1> SUFFICES ASSUME Init PROVE Inv
  OBVIOUS
<1>1. DOMAIN <<>> = {}
  OBVIOUS
<1>2. Kept(<<>>, <<>>, {}, 0)
  BY <1>1 DEF Kept
<1>3. Rolled(<<>>, <<>>, 0)
  BY <1>1 DEF Rolled
<1> QED
  BY <1>2, <1>3 DEF Init, Inv, RowInv, HostInv

\* A step that touches the GC evidence of one instance keeps the invariant when that
\* instance's is kept.
LEMMA OneHolds ==
  ASSUME Inv, NEW i \in Instances, NEW r2, NEW o2, NEW bs2, Kept(r2, o2, bs2, clock),
         DOMAIN rows' = Instances, \A j \in Instances \ {i} : rows'[j] = rows[j], rows'[i] = r2,
         outcome' = [outcome EXCEPT ![i] = o2],
         batches' = [batches EXCEPT ![i] = bs2], UNCHANGED <<clock, rolls, samples>>
  PROVE  Inv'
<1>1. /\ DOMAIN rows = Instances /\ DOMAIN outcome = Instances /\ DOMAIN batches = Instances
      /\ DOMAIN rolls = Instances /\ DOMAIN samples = Instances
  BY DEF Inv
<1>2. DOMAIN outcome' = Instances /\ DOMAIN batches' = Instances
  BY <1>1
<1>3. RowInv'
  <2>1. ASSUME NEW j \in Instances, j # i
        PROVE  rows'[j] = rows[j] /\ outcome'[j] = outcome[j] /\ batches'[j] = batches[j]
    BY <1>1, <2>1
  <2>2. rows'[i] = r2 /\ outcome'[i] = o2 /\ batches'[i] = bs2
    BY <1>1
  <2>3. \A j \in Instances : Kept(rows[j], outcome[j], batches[j], clock)
    BY DEF Inv, RowInv
  <2>4. \A j \in Instances : Kept(rows'[j], outcome'[j], batches'[j], clock)
    BY <2>1, <2>2, <2>3
  <2> QED
    BY <2>4 DEF RowInv
<1>4. HostInv'
  BY DEF Inv, HostInv
<1> QED
  BY <1>1, <1>2, <1>3, <1>4 DEF Inv

LEMMA RowsHold ==
  ASSUME Inv, NEW i \in Instances, clock \notin DOMAIN outcome[i],
         NEW read, NEW lost \in BOOLEAN, Readable(read, lost, clock), RecordRows(i, read)
  PROVE  Inv'
<1>1. PICK now, r, o, bs, state : /\ now = clock /\ r = rows[i] /\ o = outcome[i] /\ bs = batches[i]
                                  /\ state = IF lost THEN "partial" ELSE "complete"
  OBVIOUS
<1>2. now \in Nat /\ Kept(r, o, bs, now) /\ now \notin DOMAIN o /\ Readable(read, lost, now)
  BY <1>1 DEF Inv, RowInv
<1>3. Kept(Over(r, RowsOf(read)), With(o, now, state), Spared(bs, read) \cup Found(now, read), now)
  BY <1>1, <1>2, KeptReads
<1>4. (IF \E t \in DOMAIN read : read[t].bad THEN "partial" ELSE "complete") = state
  BY <1>1, <1>2 DEF Readable
<1>5. PICK r2, o2, bs2 : /\ r2 = Over(r, RowsOf(read)) /\ o2 = With(o, now, state)
                         /\ bs2 = Spared(bs, read) \cup Found(now, read)
  OBVIOUS
<1>6. DOMAIN rows' = Instances /\ (\A j \in Instances \ {i} : rows'[j] = rows[j]) /\ rows'[i] = r2
  <2>1. rows' = [rows EXCEPT ![i] = r2]
    BY <1>1, <1>5 DEF RecordRows, RowsOf
  <2> QED
    BY <2>1 DEF Inv
<1>7. outcome' = [outcome EXCEPT ![i] = o2]
  BY <1>1, <1>4, <1>5 DEF RecordRows
<1>8. batches' = [batches EXCEPT ![i] = bs2]
  BY <1>1, <1>5 DEF RecordRows, Spared, Found
<1>9. UNCHANGED <<clock, rolls, samples>>
  BY DEF RecordRows
<1>10. Kept(r2, o2, bs2, clock)
  BY <1>1, <1>3, <1>5
<1> QED
  BY <1>6, <1>7, <1>8, <1>9, <1>10, OneHolds

LEMMA LossHolds ==
  ASSUME Inv, NEW i \in Instances, clock \notin DOMAIN outcome[i],
         NEW b \in Batches, b.stw = <<>>, RecordLoss(i, b)
  PROVE  Inv'
<1>1. PICK now, r, o, bs, x : /\ now = clock /\ r = rows[i] /\ o = outcome[i] /\ bs = batches[i]
                              /\ x = [at |-> now, row |-> now, batch |-> b]
  OBVIOUS
<1>2. now \in Nat /\ Kept(r, o, bs, now) /\ now \notin DOMAIN o /\ b \in GcBatch /\ b.bad
  BY <1>1, FleetAssumption DEF Inv, RowInv, RecordLoss
<1>3. Kept(r, With(o, now, OutcomeOf(b)), bs \cup {x}, now)
  BY <1>1, <1>2, KeptLosses
<1>4. PICK o2, bs2 : o2 = With(o, now, OutcomeOf(b)) /\ bs2 = bs \cup {x}
  OBVIOUS
<1>5. DOMAIN rows' = Instances /\ (\A j \in Instances \ {i} : rows'[j] = rows[j]) /\ rows'[i] = r
  BY <1>1 DEF RecordLoss, Inv
<1>6. outcome' = [outcome EXCEPT ![i] = o2] /\ batches' = [batches EXCEPT ![i] = bs2]
  BY <1>1, <1>4 DEF RecordLoss
<1>7. UNCHANGED <<clock, rolls, samples>>
  BY DEF RecordLoss
<1>8. Kept(r, o2, bs2, clock)
  BY <1>1, <1>3, <1>4
<1> QED
  BY <1>5, <1>6, <1>7, <1>8, OneHolds

\* What a pass may record.
LEMMA CollectHolds == ASSUME Inv, NEW i \in Instances, NEW b \in Batches, Collect(i, b) PROVE Inv'
<1>1. clock \notin DOMAIN outcome[i] /\ clock \in Nat /\ b \in GcBatch
  BY FleetAssumption DEF Collect, MayCollect, Inv
<1>2. CASE b.stw = <<>>
  BY <1>1, <1>2, LossHolds DEF Collect
<1>3. CASE b.stw # <<>>
  <2>1. PICK read : read = [t \in {clock} |-> b]
    OBVIOUS
  <2>2. RecordRows(i, read)
    BY <1>3, <2>1 DEF Collect
  <2>3. b.bad \in BOOLEAN
    BY <1>1 DEF GcBatch
  <2>4. Readable(read, b.bad, clock)
    BY <1>1, <1>3, <2>1 DEF Readable
  <2> QED
    BY <1>1, <2>2, <2>3, <2>4, RowsHold
<1> QED
  BY <1>2, <1>3

LEMMA ReadsAre ==
  ASSUME clock \in Nat, NEW read \in Reads
  PROVE  \E lost \in BOOLEAN : Readable(read, lost, clock)
<1>1. PICK times \in SUBSET (0 .. clock) : read \in [times -> {b \in Batches : b.stw # <<>>}]
  BY DEF Reads
<1>2. Cardinality(times) # 0 /\ \A t, u \in times : read[t].bad = read[u].bad
  BY <1>1 DEF Reads
<1>3. PICK t \in times : TRUE
  BY <1>2, FS_EmptySet
<1>4. read[t].bad \in BOOLEAN
  BY <1>1, FleetAssumption DEF GcBatch
<1>5. Readable(read, read[t].bad, clock)
  BY <1>1, <1>2, <1>3, FleetAssumption DEF Readable
<1> QED
  BY <1>4, <1>5

LEMMA PruneHolds == ASSUME Inv, Prune PROVE Inv'
<1>1. clock \in Nat /\ clock' = clock /\ batches' = batches
  BY DEF Inv, Prune
<1>2. /\ rows' = [i \in Instances |-> Young(rows[i], clock)]
      /\ outcome' = [i \in Instances |-> Young(outcome[i], clock)]
      /\ rolls' = [i \in Instances |-> Young(rolls[i], clock)]
      /\ samples' = [i \in Instances |-> Young(samples[i], clock)]
  BY DEF Prune, Young
<1>3. RowInv'
  <2>1. ASSUME NEW i \in Instances
        PROVE  Kept(Young(rows[i], clock), Young(outcome[i], clock), batches[i], clock)
    <3>1. PICK now, r, o, bs : now = clock /\ r = rows[i] /\ o = outcome[i] /\ bs = batches[i]
      OBVIOUS
    <3>2. now \in Nat /\ Kept(r, o, bs, now)
      BY <1>1, <3>1 DEF Inv, RowInv
    <3> QED
      BY <3>1, <3>2, KeptPrunes
  <2>2. \A i \in Instances : Kept(rows'[i], outcome'[i], batches[i], clock)
    BY <1>2, <2>1
  <2> QED
    BY <1>1, <2>2 DEF RowInv
<1>4. HostInv'
  <2>1. ASSUME NEW i \in Instances PROVE Rolled(Young(rolls[i], clock), Young(samples[i], clock), clock)
    BY DEF Inv, HostInv, Rolled, Young, Restrict
  <2>2. \A i \in Instances : Rolled(rolls'[i], samples'[i], clock)
    BY <1>2, <2>1
  <2> QED
    BY <1>1, <2>2 DEF HostInv
<1>5. /\ DOMAIN rows' = Instances /\ DOMAIN outcome' = Instances /\ DOMAIN rolls' = Instances
      /\ DOMAIN samples' = Instances /\ DOMAIN batches' = Instances
  BY <1>1, <1>2 DEF Inv
<1> QED
  BY <1>1, <1>3, <1>4, <1>5 DEF Inv

LEMMA AdvanceHolds == ASSUME Inv, Advance PROVE Inv'
<1>1. clock \in Nat /\ clock' = clock + 1 /\ UNCHANGED <<rows, outcome, rolls, batches, samples>>
  BY DEF Advance, Inv
<1>2. RowInv'
  <2>1. ASSUME NEW i \in Instances PROVE Kept(rows[i], outcome[i], batches[i], clock + 1)
    <3>1. PICK now, r, o, bs : now = clock /\ r = rows[i] /\ o = outcome[i] /\ bs = batches[i]
      OBVIOUS
    <3>2. now \in Nat /\ Kept(r, o, bs, now)
      BY <1>1, <3>1 DEF Inv, RowInv
    <3> QED
      BY <3>1, <3>2, KeptAges
  <2> QED
    BY <1>1, <2>1 DEF RowInv
<1>3. HostInv'
  <2>1. 0 .. clock \subseteq 0 .. clock + 1
    BY <1>1
  <2> QED
    BY <1>1, <2>1 DEF Inv, HostInv, Rolled
<1> QED
  BY <1>1, <1>2, <1>3 DEF Inv

LEMMA ReportHolds ==
  ASSUME Inv, NEW i \in Instances, NEW s \in Reports, HostReport(i, s) PROVE Inv'
<1>1. clock \in Nat /\ UNCHANGED <<clock, rows, outcome, batches>> /\ s \in Seq(HostSample) \ {<<>>}
  BY FleetAssumption DEF HostReport, Inv
<1>2. rolls' = [rolls EXCEPT ![i] = With(rolls[i], clock, Rollup(s))]
      /\ samples' = [samples EXCEPT ![i] = With(samples[i], clock, s)]
  BY DEF HostReport
<1>3. DOMAIN rolls' = Instances /\ DOMAIN samples' = Instances
  BY <1>2 DEF Inv
<1>4. RowInv'
  BY <1>1 DEF Inv, RowInv
<1>5. HostInv'
  <2>1. ASSUME NEW j \in Instances, j # i PROVE rolls'[j] = rolls[j] /\ samples'[j] = samples[j]
    BY <1>2, <2>1 DEF Inv
  <2>2. rolls'[i] = With(rolls[i], clock, Rollup(s)) /\ samples'[i] = With(samples[i], clock, s)
    BY <1>2 DEF Inv
  <2>3. Rolled(With(rolls[i], clock, Rollup(s)), With(samples[i], clock, s), clock)
    <3>1. Rolled(rolls[i], samples[i], clock) /\ clock \in 0 .. clock
      BY <1>1 DEF Inv, HostInv
    <3> QED
      BY <1>1, <3>1 DEF Rolled, With
  <2>4. \A j \in Instances : Rolled(rolls[j], samples[j], clock)
    BY DEF Inv, HostInv
  <2>5. \A j \in Instances : Rolled(rolls'[j], samples'[j], clock)
    BY <2>1, <2>2, <2>3, <2>4
  <2> QED
    BY <1>1, <2>5 DEF HostInv
<1> QED
  BY <1>1, <1>3, <1>4, <1>5 DEF Inv

LEMMA NextHolds == Inv /\ [Next]_vars => Inv'
<1> SUFFICES ASSUME Inv, [Next]_vars PROVE Inv'
  OBVIOUS
<1>1. CASE Advance
  BY <1>1, AdvanceHolds
<1>2. ASSUME NEW i \in Instances, NEW b \in Batches, Collect(i, b) PROVE Inv'
  BY <1>2, CollectHolds
<1>3. ASSUME NEW i \in Instances, NEW read \in Reads, FullRead(i, read) PROVE Inv'
  <2>1. clock \notin DOMAIN outcome[i] /\ RecordRows(i, read) /\ clock \in Nat
    BY <1>3 DEF FullRead, MayCollect, Inv
  <2>2. PICK lost \in BOOLEAN : Readable(read, lost, clock)
    BY <2>1, ReadsAre
  <2> QED
    BY <2>1, <2>2, RowsHold
<1>4. CASE Prune
  BY <1>4, PruneHolds
<1>5. ASSUME NEW i \in Instances, NEW s \in Reports, HostReport(i, s) PROVE Inv'
  BY <1>5, ReportHolds
<1>6. CASE UNCHANGED vars
  BY <1>6 DEF vars, Inv, RowInv, HostInv
<1> QED
  BY <1>1, <1>2, <1>3, <1>4, <1>5, <1>6 DEF Next


-----------------------------------------------------------------------------
(* What is read from rows *)

LEMMA NoneIs == None \notin Int /\ \A x \in Number : x # None => x \in Nat
  BY WindowAssumption DEF Number

\* Aggregates over a window whose every row has a number in the column.
LEMMA AggregatesCover ==
  ASSUME NEW w, IsFiniteSet(DOMAIN w), NEW c, \A t \in DOMAIN w : w[t][c] \in Nat, NEW t \in DOMAIN w
  PROVE  /\ AggSum(w, c) \in Nat /\ w[t][c] <= AggSum(w, c)
         /\ AggMax(w, c) \in Nat /\ w[t][c] <= AggMax(w, c)
<1>1. PICK D : D = DOMAIN w
  OBVIOUS
<1>2. Observed(w, c) = D /\ D # {}
  BY <1>1, NoneIs DEF Observed
<1>3. PICK f : f = [u \in D |-> w[u][c]]
  OBVIOUS
<1>4. f \in [D -> Nat]
  BY <1>1, <1>3
<1>5. AggSum(w, c) = SumFunction(f)
  BY <1>2, <1>3 DEF AggSum
<1>6. AggMax(w, c) = Max({f[u] : u \in D})
  <2>1. {f[u] : u \in D} = {w[u][c] : u \in D}
    BY <1>3
  <2> QED
    BY <1>2, <2>1 DEF AggMax
<1>7. SumFunction(f) \in Nat /\ f[t] <= SumFunction(f)
  BY <1>1, <1>4, SumAtLeast
<1>8. PICK m : m = Max({f[u] : u \in D})
  OBVIOUS
<1>9. m \in Nat /\ f[t] <= m
  BY <1>1, <1>2, <1>4, <1>8, MaxOver
<1> QED
  BY <1>1, <1>3, <1>5, <1>6, <1>7, <1>8, <1>9

LEMMA WindowIs ==
  ASSUME NEW r, IsFiniteSet(DOMAIN r), NEW since, NEW until
  PROVE  LET w == Window(r, since, until)
         IN /\ IsFiniteSet(DOMAIN w)
            /\ \A t \in DOMAIN w : t \in DOMAIN r /\ w[t] = r[t]
            /\ \A t \in DOMAIN r : since <= t /\ t <= until => t \in DOMAIN w
<1>1. PICK w : w = Window(r, since, until)
  OBVIOUS
<1>2. /\ DOMAIN w = {u \in DOMAIN r : since <= u /\ u <= until}
      /\ \A t \in DOMAIN w : w[t] = r[t]
  BY <1>1 DEF Window
<1>3. DOMAIN w \in SUBSET DOMAIN r
  BY <1>2
<1>4. IsFiniteSet(DOMAIN w)
  BY <1>3, FS_Subset
<1> QED
  BY <1>1, <1>2, <1>4

\* The newest entry of a table without entries of the future.
LEMMA NewestIs ==
  ASSUME NEW now \in Nat, NEW f, DOMAIN f \subseteq 0 .. now
  PROVE  /\ IsFiniteSet(DOMAIN f)
         /\ DOMAIN f = {} => LatestAt(f, now) = None
         /\ DOMAIN f # {} =>
              /\ LatestAt(f, now) \in DOMAIN f /\ LatestAt(f, now) \in Nat /\ LatestAt(f, now) # None
              /\ \A t \in DOMAIN f : t \in Nat /\ t <= LatestAt(f, now)
<1>1. PICK D : D = DOMAIN f
  OBVIOUS
<1>2. \A t \in D : t \in Nat /\ t \in Int /\ t <= now
  BY <1>1
<1>3. {t \in DOMAIN f : t <= now} = D
  BY <1>1, <1>2
<1>4. IsFiniteSet(D)
  <2>1. IsFiniteSet(0 .. now)
    BY FS_Interval
  <2> QED
    BY <1>1, <2>1, FS_Subset
<1>5. LatestAt(f, now) = IF D = {} THEN None ELSE Max(D)
  BY <1>3 DEF LatestAt
<1>6. D # {} => Max(D) \in D /\ \A t \in D : t <= Max(D)
  <2>1. D \subseteq Int
    BY <1>2, Zenon
  <2> QED
    BY <1>4, <2>1, MaxExists, Zenon
<1>7. None \notin Nat
  BY NoneIs
<1> QED
  BY <1>1, <1>2, <1>4, <1>5, <1>6, <1>7

LEMMA KeptRows ==
  ASSUME NEW now \in Nat, NEW r, NEW o, NEW bs, Kept(r, o, bs, now)
  PROVE  /\ DOMAIN r \subseteq 0 .. now /\ IsFiniteSet(DOMAIN r)
         /\ \A t \in DOMAIN r : \A c \in {"full", "max", "avg"} : r[t][c] \in Nat
         /\ \A t \in DOMAIN r : r[t]["thr"] \in Number
<1>1. ASSUME NEW t \in DOMAIN r
      PROVE  /\ t \in 0 .. now /\ r[t]["thr"] \in Number
             /\ \A c \in {"full", "max", "avg"} : r[t][c] \in Nat
  <2>1. PICK x \in bs : x.row = t /\ x.batch.stw # <<>> /\ r[t] = RowOf(Analyze(x.batch))
    BY DEF Kept, Stands
  <2>2. Recorded(x, r, o, now - Retention) /\ x.at <= now
    BY DEF Kept
  <2>3. t \in 0 .. now
    BY <2>1, <2>2 DEF Recorded
  <2>4. PICK m : m = Analyze(x.batch)
    OBVIOUS
  <2>5. r[t] = [c \in Columns |-> m[c]]
    BY <2>1, <2>4 DEF RowOf
  <2>6. {m.full, m.max, m.avg} \subseteq Nat /\ m.thr \in Number
    BY <2>1, <2>2, <2>4, AnalyzeIs DEF Recorded
  <2> QED
    BY <2>3, <2>5, <2>6 DEF Columns
<1>2. DOMAIN r \subseteq 0 .. now
  BY <1>1
<1> QED
  BY <1>1, <1>2, NewestIs

\* A row of the last hour with a Full GC or a pause over the limit is critical.
LEMMA CriticalRow ==
  ASSUME NEW now \in Nat, NEW r, NEW o, NEW bs, Kept(r, o, bs, now), NEW role,
         NEW t \in DOMAIN r, now - t <= Recent, r[t]["full"] > 0 \/ r[t]["max"] > WarnPause
  PROVE  "critical" \in Alerts(r, role, now)
<1>1. PICK w : w = RecentRows(r, now)
  OBVIOUS
<1>2. /\ IsFiniteSet(DOMAIN w)
      /\ \A u \in DOMAIN w : u \in DOMAIN r /\ w[u] = r[u]
      /\ \A u \in DOMAIN r : now - Recent <= u /\ u <= now => u \in DOMAIN w
  BY <1>1, KeptRows, WindowIs DEF RecentRows
<1>3. t \in DOMAIN w /\ w[t] = r[t]
  <2>1. Recent \in Nat /\ t \in 0 .. now
    BY KeptRows, WindowAssumption
  <2>2. now - Recent <= t /\ t <= now
    BY <2>1
  <2> QED
    BY <1>2, <2>2
<1>4. \A u \in DOMAIN w : w[u]["full"] \in Nat /\ w[u]["max"] \in Nat
  BY <1>2, KeptRows
<1>5. AggSum(w, "full") \in Nat /\ w[t]["full"] <= AggSum(w, "full")
  BY <1>2, <1>3, <1>4, AggregatesCover
<1>6. AggMax(w, "max") \in Nat /\ w[t]["max"] <= AggMax(w, "max")
  BY <1>2, <1>3, <1>4, AggregatesCover
<1>7. w[t]["full"] \in Nat /\ w[t]["max"] \in Nat /\ None \notin Nat
  BY <1>3, <1>4, NoneIs
<1>8. AggSum(w, "full") > 0 \/ AggMax(w, "max") > WarnPause
  BY <1>3, <1>5, <1>6, <1>7 DEF WarnPause
<1>9. Above(AggSum(w, "full"), 0) \/ Above(AggMax(w, "max"), WarnPause)
  BY <1>5, <1>6, <1>7, <1>8 DEF Above
<1> QED
  BY <1>1, <1>9 DEF Alerts

-----------------------------------------------------------------------------
(* Full GCs are shown *)

\* Where there is a row of the last hour, the source is neither missing nor stale.
LEMMA SourceIsCurrent ==
  ASSUME NEW now \in Nat, NEW r, NEW o, NEW bs, Kept(r, o, bs, now),
         NEW t \in DOMAIN r, now - t <= Recent
  PROVE  GcQuality(r, o, now) \notin {"missing", "stale"}
<1>1. PICK last : last = LatestAt(r, now)
  OBVIOUS
<1>2. last \in DOMAIN r /\ last \in Nat /\ last # None /\ t \in Nat /\ t <= last
  BY <1>1, KeptRows, NewestIs
<1>3. PICK has : has = {c \in Columns : r[last][c] # None}
  OBVIOUS
<1>4. "avg" \in has /\ "avg" \in Columns
  BY <1>2, <1>3, KeptRows, NoneIs DEF Columns
<1>5. ~(now - last > MaxAge)
  BY <1>2, WindowAssumption
<1>6. GcSource(r, now) = SourceQuality(last, has, {}, Columns, MaxAge, now)
  BY <1>1, <1>2, <1>3 DEF GcSource
<1>7. has \cap Columns # {}
  BY <1>4
<1>8. GcSource(r, now) \notin {"missing", "stale"}
  BY <1>2, <1>5, <1>6, <1>7 DEF SourceQuality
<1> QED
  BY <1>8 DEF GcQuality

LEMMA FullIsShown == Inv => FullGcShown
<1> SUFFICES ASSUME Inv, NEW i \in Instances, NEW x \in InWindow(i, Recent),
                    NEW k \in DOMAIN x.batch.stw, x.batch.stw[k].full
             PROVE  StatusOf(i, clock) = "critical"
  <2>1. \A i2 \in Instances : Place[i2][3] \in Clusters
    BY DEF Clusters
  <2> QED
    BY <2>1, PagesMean DEF FullGcShown
<1>1. PICK r, o, bs, now : r = rows[i] /\ o = outcome[i] /\ bs = batches[i] /\ now = clock
  OBVIOUS
<1>2. now \in Nat /\ Kept(r, o, bs, now) /\ x \in bs /\ now - x.row <= Recent
  BY <1>1 DEF Inv, RowInv, InWindow
<1>3. x.batch \in GcBatch /\ x.batch.stw # <<>>
      /\ x.row \in DOMAIN r /\ r[x.row] = RowOf(Analyze(x.batch))
  <2>1. DOMAIN <<>> = {}
    OBVIOUS
  <2>2. x.batch.stw # <<>>
    BY <2>1
  <2> QED
    BY <1>2, <2>2, KeptYoung, RetentionIs
<1>4. r[x.row]["full"] > 0
  <2>1. PICK m : m = Analyze(x.batch)
    OBVIOUS
  <2>2. m.full > 0
    BY <1>3, <2>1, AnalyzeIs
  <2> QED
    BY <1>3, <2>1, <2>2 DEF RowOf, Columns
<1>5. "critical" \in Alerts(r, Role[i], now)
  BY <1>2, <1>3, <1>4, CriticalRow
<1>6. GcQuality(r, o, now) \notin {"missing", "stale"}
  BY <1>2, <1>3, SourceIsCurrent
<1>7. GcNow(i, clock).alerts = Alerts(r, Role[i], now)
  BY <1>1, <1>6 DEF GcNow, Snapshot
<1> QED
  BY <1>5, <1>7 DEF StatusOf, StatusOfSnapshot, InstanceStatus

\* A Full GC in a row of the last hour makes its instance, its cluster's page and
\* the fleet critical (FullGcShown, for all constants).
THEOREM FullGcsAreShown == Spec => []FullGcShown
  BY InitHolds, NextHolds, FullIsShown, PTL DEF Spec



-----------------------------------------------------------------------------
(* Replays *)

Past(f, t) == {u \in DOMAIN f : u <= t}

\* f2 says what f says of every time up to t.
SameUntil(f, f2, t) == Past(f2, t) = Past(f, t) /\ \A u \in Past(f, t) : f2[u] = f[u]

LEMMA UntilWindow ==
  ASSUME NEW now \in Nat, NEW f, NEW f2, DOMAIN f \subseteq 0 .. now, DOMAIN f2 \subseteq 0 .. now,
         NEW t \in Int, SameUntil(f, f2, t), NEW since \in Int, NEW until \in Int, until <= t
  PROVE  Window(f2, since, until) = Window(f, since, until)
<1>1. \A u \in 0 .. now : u <= until => u <= t
  OBVIOUS
<1>2. \A u \in DOMAIN f \cup DOMAIN f2 : u <= until => u <= t
  BY <1>1
<1>3. {u \in DOMAIN f2 : since <= u /\ u <= until} = {u \in DOMAIN f : since <= u /\ u <= until}
  BY <1>2 DEF SameUntil, Past
<1>4. \A u \in {v \in DOMAIN f : since <= v /\ v <= until} : f2[u] = f[u]
  BY <1>2 DEF SameUntil, Past
<1> QED
  BY <1>3, <1>4 DEF Window

LEMMA UntilLatest ==
  ASSUME NEW now \in Nat, NEW f, NEW f2, DOMAIN f \subseteq 0 .. now, NEW t \in Int, SameUntil(f, f2, t)
  PROVE  /\ LatestAt(f2, t) = LatestAt(f, t)
         /\ LatestAt(f, t) # None => f2[LatestAt(f, t)] = f[LatestAt(f, t)]
<1>1. PICK P : P = Past(f, t)
  OBVIOUS
<1>2. LatestAt(f, t) = IF P = {} THEN None ELSE Max(P)
  BY <1>1 DEF LatestAt, Past
<1>3. LatestAt(f2, t) = IF P = {} THEN None ELSE Max(P)
  BY <1>1 DEF LatestAt, Past, SameUntil
<1>4. P \in SUBSET (0 .. now)
  BY <1>1 DEF Past
<1>5. IsFiniteSet(P)
  <2>1. IsFiniteSet(0 .. now)
    BY FS_Interval
  <2> QED
    BY <1>4, <2>1, FS_Subset
<1>6. P # {} => Max(P) \in P
  <2>1. \A u \in P : u \in Int
    BY <1>4
  <2>2. P \subseteq Int
    BY <2>1, Zenon
  <2> QED
    BY <1>5, <2>2, MaxExists, Zenon
<1> QED
  BY <1>1, <1>2, <1>3, <1>6 DEF SameUntil

LEMMA UntilAlerts ==
  ASSUME NEW now \in Nat, NEW r, NEW r2, DOMAIN r \subseteq 0 .. now, DOMAIN r2 \subseteq 0 .. now,
         NEW t \in Int, SameUntil(r, r2, t), NEW role
  PROVE  Alerts(r2, role, t) = Alerts(r, role, t)
<1>1. /\ Recent \in Nat /\ Gap \in Nat /\ Month \in Nat
      /\ t - Recent \in Int /\ t - Month \in Int /\ t - Gap \in Int /\ t <= t /\ t - Gap <= t
  BY WindowAssumption
<1>2. RecentRows(r2, t) = RecentRows(r, t)
  BY <1>1, UntilWindow DEF RecentRows
<1>3. Window(r2, t - Month, t - Gap) = Window(r, t - Month, t - Gap)
  BY <1>1, UntilWindow
<1>4. \A c, default : Baseline(r2, c, default, t) = Baseline(r, c, default, t)
  BY <1>3 DEF Baseline
<1> QED
  BY <1>2, <1>4 DEF Alerts

LEMMA UntilSnapshot ==
  ASSUME NEW now \in Nat, NEW r, NEW r2, NEW o, NEW o2,
         DOMAIN r \subseteq 0 .. now, DOMAIN r2 \subseteq 0 .. now, DOMAIN o \subseteq 0 .. now,
         NEW t \in Int, SameUntil(r, r2, t), SameUntil(o, o2, t), NEW role
  PROVE  Snapshot(r2, o2, role, t) = Snapshot(r, o, role, t)
<1>1. Alerts(r2, role, t) = Alerts(r, role, t)
  BY UntilAlerts
<1>2. Window(r2, t - Day, t) = Window(r, t - Day, t)
  <2>1. t - Day \in Int /\ t <= t
    BY WindowAssumption
  <2> QED
    BY <2>1, UntilWindow
<1>3. GcSource(r2, t) = GcSource(r, t)
  <2>1. PICK last : last = LatestAt(r, t)
    OBVIOUS
  <2>2. LatestAt(r2, t) = last /\ (last # None => r2[last] = r[last])
    BY <2>1, UntilLatest
  <2>3. last # None => {c \in Columns : r2[last][c] # None} = {c \in Columns : r[last][c] # None}
    BY <2>2
  <2> QED
    BY <2>1, <2>2, <2>3 DEF GcSource
<1>4. GcQuality(r2, o2, t) = GcQuality(r, o, t)
  BY <1>3, UntilLatest DEF GcQuality
<1> QED
  BY <1>1, <1>2, <1>4 DEF Snapshot

\* Entries written after t.
LEMMA OverLater ==
  ASSUME NEW f, NEW g, NEW t, \A u \in DOMAIN g : ~(u <= t)
  PROVE  SameUntil(f, Over(f, g), t)
  BY DEF SameUntil, Past, Over

LEMMA WithLater ==
  ASSUME NEW f, NEW now, NEW x, NEW t, ~(now <= t)
  PROVE  SameUntil(f, With(f, now, x), t)
  BY DEF SameUntil, Past, With

\* What the property says of instance i and time t.
Replayed(i, t) ==
  \/ \E x \in batches'[i] \ batches[i] : x.row <= t
  \/ Expires(i, t)
  \/ Snapshot(rows'[i], outcome'[i], Role[i], t) = GcNow(i, t)
Replays == \A i \in Instances : \A t \in 0 .. clock - 1 : Replayed(i, t)

\* What leaves the evidence up to t alone leaves what was said at t alone.
LEMMA SameReplays ==
  ASSUME Inv, Inv', clock' = clock, NEW i \in Instances, NEW t \in 0 .. clock - 1,
         SameUntil(rows[i], rows'[i], t), SameUntil(outcome[i], outcome'[i], t)
  PROVE  Replayed(i, t)
<1>1. PICK now, r, r2, o, o2, bs, bs2 :
        /\ now = clock /\ r = rows[i] /\ o = outcome[i] /\ bs = batches[i]
        /\ r2 = rows'[i] /\ o2 = outcome'[i] /\ bs2 = batches'[i]
  OBVIOUS
<1>2. now \in Nat /\ Kept(r, o, bs, now) /\ Kept(r2, o2, bs2, now) /\ t \in Int
  BY <1>1 DEF Inv, RowInv
<1>3. DOMAIN r \subseteq 0 .. now /\ DOMAIN r2 \subseteq 0 .. now /\ DOMAIN o \subseteq 0 .. now
  BY <1>2, KeptRows DEF Kept
<1>4. Snapshot(r2, o2, Role[i], t) = Snapshot(r, o, Role[i], t)
  BY <1>1, <1>2, <1>3, UntilSnapshot
<1> QED
  BY <1>1, <1>4 DEF GcNow, Replayed

LEMMA SameIsSame == \A f, t : SameUntil(f, f, t)
  BY DEF SameUntil

\* Rows recorded: either one of them is of t or before, or nothing until t changed.
LEMMA RowsReplay ==
  ASSUME Inv, Inv', NEW j \in Instances, NEW read, DOMAIN read \subseteq 0 .. clock,
         clock \notin DOMAIN outcome[j], RecordRows(j, read),
         NEW i \in Instances, NEW t \in 0 .. clock - 1
  PROVE  Replayed(i, t)
<1>1. /\ clock \in Nat /\ clock' = clock
      /\ DOMAIN rows = Instances /\ DOMAIN outcome = Instances /\ DOMAIN batches = Instances
  BY DEF RecordRows, Inv
<1>2. CASE i # j
  <2>1. rows'[i] = rows[i] /\ outcome'[i] = outcome[i]
    BY <1>1, <1>2 DEF RecordRows
  <2> QED
    BY <1>1, <2>1, SameIsSame, SameReplays
<1>3. CASE i = j /\ \E u \in DOMAIN read : u <= t
  <2>1. PICK u \in DOMAIN read : u <= t
    BY <1>3
  <2>2. PICK x : x = [at |-> clock, row |-> u, batch |-> read[u]]
    OBVIOUS
  <2>3. x \in batches'[i]
    BY <1>1, <1>3, <2>2 DEF RecordRows
  <2>4. x \notin batches[i]
    <3>1. PICK now, r, o, bs : now = clock /\ r = rows[i] /\ o = outcome[i] /\ bs = batches[i]
      OBVIOUS
    <3>2. now \in Nat /\ Kept(r, o, bs, now) /\ now \notin DOMAIN o
      BY <1>3, <3>1 DEF Inv, RowInv
    <3>3. \A y \in bs : y.at < now
      BY <3>2, BatchesArePast
    <3>4. x.at = now
      BY <2>2, <3>1
    <3> QED
      BY <3>1, <3>2, <3>3, <3>4
  <2>5. x.row <= t
    BY <2>1, <2>2
  <2> QED
    BY <2>3, <2>4, <2>5 DEF Replayed
<1>4. CASE i = j /\ \A u \in DOMAIN read : ~(u <= t)
  <2>1. PICK g : g = RowsOf(read)
    OBVIOUS
  <2>2. DOMAIN g = DOMAIN read
    BY <2>1 DEF RowsOf
  <2>3. rows'[i] = Over(rows[i], g)
    BY <1>1, <1>4, <2>1 DEF RecordRows, RowsOf
  <2>4. SameUntil(rows[i], rows'[i], t)
    BY <1>4, <2>2, <2>3, OverLater
  <2>5. PICK state : outcome'[i] = With(outcome[i], clock, state)
    BY <1>1, <1>4 DEF RecordRows
  <2>6. ~(clock <= t)
    BY <1>1
  <2>7. SameUntil(outcome[i], outcome'[i], t)
    BY <2>5, <2>6, WithLater
  <2> QED
    BY <1>1, <2>4, <2>7, SameReplays
<1> QED
  BY <1>2, <1>3, <1>4

LEMMA LossReplays ==
  ASSUME Inv, Inv', NEW j \in Instances, NEW b, RecordLoss(j, b),
         NEW i \in Instances, NEW t \in 0 .. clock - 1
  PROVE  Replayed(i, t)
<1>1. clock \in Nat /\ clock' = clock /\ rows' = rows /\ DOMAIN outcome = Instances
  BY DEF RecordLoss, Inv
<1>2. SameUntil(outcome[i], outcome'[i], t)
  <2>1. CASE i # j
    <3>1. outcome'[i] = outcome[i]
      BY <1>1, <2>1 DEF RecordLoss
    <3> QED
      BY <3>1, SameIsSame
  <2>2. CASE i = j
    <3>1. outcome'[i] = With(outcome[i], clock, OutcomeOf(b))
      BY <1>1, <2>2 DEF RecordLoss
    <3>2. ~(clock <= t)
      BY <1>1
    <3> QED
      BY <3>1, <3>2, WithLater
  <2> QED
    BY <2>1, <2>2
<1>3. SameUntil(rows[i], rows'[i], t)
  BY <1>1, SameIsSame
<1> QED
  BY <1>1, <1>2, <1>3, SameReplays

\* Retention: either an entry of t or before expires, or nothing until t changed.
LEMMA PruneReplays ==
  ASSUME Inv, Inv', Prune, NEW i \in Instances, NEW t \in 0 .. clock - 1
  PROVE  Replayed(i, t)
<1>1. /\ clock \in Nat /\ clock' = clock
      /\ rows'[i] = Young(rows[i], clock) /\ outcome'[i] = Young(outcome[i], clock)
  BY DEF Prune, Inv, Young
<1>2. DOMAIN rows[i] \subseteq 0 .. clock /\ DOMAIN outcome[i] \subseteq 0 .. clock
  <2>1. PICK now, r, o, bs : now = clock /\ r = rows[i] /\ o = outcome[i] /\ bs = batches[i]
    OBVIOUS
  <2>2. now \in Nat /\ Kept(r, o, bs, now)
    BY <2>1 DEF Inv, RowInv
  <2> QED
    BY <2>1, <2>2, KeptRows DEF Kept
<1>3. /\ DOMAIN rows'[i] = {u \in DOMAIN rows[i] : u >= clock - Retention}
      /\ \A u \in DOMAIN rows'[i] : rows'[i][u] = rows[i][u]
      /\ DOMAIN outcome'[i] = {u \in DOMAIN outcome[i] : u >= clock - Retention}
      /\ \A u \in DOMAIN outcome'[i] : outcome'[i][u] = outcome[i][u]
  BY <1>1 DEF Young, Restrict
<1>4. \A u \in 0 .. clock : u >= clock - Retention \/ clock - u > Retention
  BY <1>1, RetentionIs
<1>5. CASE \E u \in DOMAIN rows[i] \cup DOMAIN outcome[i] : u <= t /\ ~(u >= clock - Retention)
  BY <1>2, <1>3, <1>4, <1>5 DEF Expires, Replayed
<1>6. CASE \A u \in DOMAIN rows[i] \cup DOMAIN outcome[i] : u <= t => u >= clock - Retention
  <2>1. SameUntil(rows[i], rows'[i], t)
    BY <1>3, <1>6 DEF SameUntil, Past
  <2>2. SameUntil(outcome[i], outcome'[i], t)
    BY <1>3, <1>6 DEF SameUntil, Past
  <2> QED
    BY <1>1, <2>1, <2>2, SameReplays
<1> QED
  BY <1>5, <1>6

LEMMA StepReplays == ASSUME Inv, [Next]_vars PROVE [Replays]_<<rows, outcome>>
<1> SUFFICES ASSUME <<rows, outcome>>' # <<rows, outcome>>, NEW i \in Instances, NEW t \in 0 .. clock - 1
             PROVE  Replayed(i, t)
  BY DEF Replays
<1>1. Inv'
  BY NextHolds
<1>2. ~ Advance /\ ~ UNCHANGED vars /\ \A j \in Instances, s \in Reports : ~ HostReport(j, s)
  BY DEF Advance, vars, HostReport
<1>3. ASSUME NEW j \in Instances, NEW b \in Batches, Collect(j, b) PROVE Replayed(i, t)
  <2>1. clock \notin DOMAIN outcome[j] /\ clock \in Nat
    BY <1>3 DEF Collect, MayCollect, Inv
  <2>2. CASE b.stw = <<>>
    BY <1>1, <1>3, <2>2, LossReplays DEF Collect
  <2>3. CASE b.stw # <<>>
    <3>1. PICK read : read = [u \in {clock} |-> b]
      OBVIOUS
    <3>2. RecordRows(j, read)
      BY <1>3, <2>3, <3>1 DEF Collect
    <3>3. DOMAIN read \subseteq 0 .. clock
      BY <2>1, <3>1
    <3> QED
      BY <1>1, <2>1, <3>2, <3>3, RowsReplay
  <2> QED
    BY <2>2, <2>3
<1>4. ASSUME NEW j \in Instances, NEW read \in Reads, FullRead(j, read) PROVE Replayed(i, t)
  <2>1. clock \notin DOMAIN outcome[j] /\ RecordRows(j, read) /\ clock \in Nat
    BY <1>4 DEF FullRead, MayCollect, Inv
  <2>2. DOMAIN read \subseteq 0 .. clock
    BY <2>1, ReadsAre DEF Readable
  <2> QED
    BY <1>1, <2>1, <2>2, RowsReplay
<1>5. CASE Prune
  BY <1>1, <1>5, PruneReplays
<1> QED
  BY <1>2, <1>3, <1>4, <1>5 DEF Next

\* Only a whole-log read that reaches back to it, or retention, changes what was said
\* at an earlier time (ReplayStable, for all constants).
THEOREM ReplaysAreStable == Spec => ReplayStable
<1>1. Inv /\ [Next]_vars => [Replays]_<<rows, outcome>>
  BY StepReplays
<1> QED
  BY <1>1, InitHolds, NextHolds, PTL DEF Spec, ReplayStable, Replays, Replayed



-----------------------------------------------------------------------------
(* Green is earned *)

\* Fresh evidence: the newest collection was complete, and so was that of the newest
\* row, which is recent.
LEMMA FreshIsEarned ==
  ASSUME NEW now \in Nat, NEW r, NEW o, NEW bs, Kept(r, o, bs, now), GcQuality(r, o, now) = "fresh"
  PROVE  /\ bs # {}
         /\ \A x \in bs : (\A y \in bs : y.at <= x.at) =>
              now - x.at <= MaxAge /\ ~x.batch.bad /\ x.batch.stw # <<>>
         /\ \A x \in bs : x.batch.stw # <<>> /\ (\A y \in bs : y.batch.stw # <<>> => y.row <= x.row) =>
              now - x.row <= MaxAge /\ RatesAvailable(x.batch)
<1>1. PICK last : last = LatestAt(r, now)
  OBVIOUS
<1>2. PICK tried : tried = LatestAt(o, now)
  OBVIOUS
<1>3. GcSource(r, now) = "fresh" /\ (tried # None => o[tried] = "complete")
  BY <1>2 DEF GcQuality
<1>4. last # None /\ ~(now - last > MaxAge) /\ \A c \in Columns : r[last][c] # None
  <2>1. PICK has : has = IF last = None THEN {} ELSE {c \in Columns : r[last][c] # None}
    OBVIOUS
  <2>2. SourceQuality(last, has, {}, Columns, MaxAge, now) = "fresh"
    BY <1>1, <1>3, <2>1 DEF GcSource
  <2>3. last # None /\ ~(now - last > MaxAge) /\ Columns \subseteq has
    BY <2>2 DEF SourceQuality
  <2> QED
    BY <2>1, <2>3
<1>5. DOMAIN r \subseteq 0 .. now /\ DOMAIN o \subseteq 0 .. now
  BY KeptRows DEF Kept
<1>6. last \in DOMAIN r /\ last \in Nat /\ \A t \in DOMAIN r : t \in Nat /\ t <= last
  <2>1. /\ DOMAIN r = {} => LatestAt(r, now) = None
        /\ DOMAIN r # {} => /\ LatestAt(r, now) \in DOMAIN r /\ LatestAt(r, now) \in Nat
                           /\ \A t \in DOMAIN r : t \in Nat /\ t <= LatestAt(r, now)
    BY <1>5, NewestIs
  <2> QED
    BY <1>1, <1>4, <2>1
<1>7. PICK y \in bs : y.row = last /\ y.batch.stw # <<>>
  BY <1>6 DEF Kept, Stands
<1>8. \A x \in bs : Recorded(x, r, o, now - Retention) /\ x.at <= now
  BY DEF Kept
<1>9. /\ last <= y.at /\ y.at \in Nat
      /\ \A x \in Nat : x >= last => x >= now - Retention /\ now - x <= MaxAge
  <2>1. y.at \in Nat /\ y.row <= y.at
    BY <1>8 DEF Recorded
  <2> QED
    BY <1>4, <1>6, <1>7, <2>1, RetentionIs
<1>10. ASSUME NEW x \in bs, \A z \in bs : z.at <= x.at
       PROVE  now - x.at <= MaxAge /\ ~x.batch.bad /\ x.batch.stw # <<>>
  <2>1. x.at \in Nat /\ x.at <= now /\ x.at >= last
    BY <1>6, <1>8, <1>9, <1>10 DEF Recorded
  <2>2. x.at >= now - Retention /\ now - x.at <= MaxAge
    BY <1>9, <2>1
  <2>3. x.at \in DOMAIN o /\ o[x.at] = OutcomeOf(x.batch)
    BY <1>8, <2>2 DEF Recorded
  <2>4. tried = x.at /\ tried # None
    <3>1. tried \in DOMAIN o /\ tried \in Nat /\ tried # None /\ x.at <= tried
      BY <1>2, <1>5, <2>3, NewestIs
    <3>2. PICK z \in bs : tried <= z.at
      BY <3>1 DEF Kept
    <3>3. z.at \in Nat /\ z.at <= x.at
      BY <1>8, <1>10 DEF Recorded
    <3> QED
      BY <2>1, <3>1, <3>2, <3>3
  <2>5. OutcomeOf(x.batch) = "complete"
    BY <1>3, <2>3, <2>4
  <2> QED
    BY <2>2, <2>5 DEF OutcomeOf
<1>11. ASSUME NEW x \in bs, x.batch.stw # <<>>, \A z \in bs : z.batch.stw # <<>> => z.row <= x.row
       PROVE  now - x.row <= MaxAge /\ RatesAvailable(x.batch)
  <2>1. x.row \in Nat /\ x.row >= last
    BY <1>6, <1>7, <1>8, <1>11 DEF Recorded
  <2>2. x.row >= now - Retention /\ now - x.row <= MaxAge
    BY <1>9, <2>1
  <2>3. x.row \in DOMAIN r /\ r[x.row] = RowOf(Analyze(x.batch)) /\ x.batch \in GcBatch
    BY <1>8, <1>11, <2>2 DEF Recorded
  <2>4. x.row = last
    BY <1>6, <2>1, <2>3
  <2>5. PICK m : m = Analyze(x.batch)
    OBVIOUS
  <2>6. m.thr # None
    BY <1>4, <2>3, <2>4, <2>5 DEF RowOf, Columns
  <2> QED
    BY <1>11, <2>2, <2>3, <2>5, <2>6, AnalyzeIs
<1> QED
  BY <1>7, <1>10, <1>11

\* An instance that is "ok" has a fresh source and no critical alert.
LEMMA OkMeans ==
  ASSUME NEW i, NEW now, StatusOf(i, now) = "ok"
  PROVE  /\ GcQuality(rows[i], outcome[i], now) = "fresh"
         /\ "critical" \notin Alerts(rows[i], Role[i], now)
<1>1. PICK s : s = GcNow(i, now)
  OBVIOUS
<1>2. s.health.grade \in {"A", "B"} /\ "critical" \notin s.alerts
  BY <1>1 DEF StatusOf, StatusOfSnapshot, InstanceStatus
<1>3. s.health # UnknownHealth
  BY <1>2 DEF UnknownHealth
<1>4. GcQuality(rows[i], outcome[i], now) = "fresh"
  BY <1>1, <1>3 DEF GcNow, Snapshot
<1>5. s.alerts = Alerts(rows[i], Role[i], now)
  BY <1>1, <1>4 DEF GcNow, Snapshot
<1> QED
  BY <1>2, <1>4, <1>5

LEMMA OkEarned == Inv => OkIsEarned
<1> SUFFICES ASSUME Inv, NEW i \in Instances, StatusOf(i, clock) = "ok"
             PROVE  /\ batches[i] # {}
                    /\ \A x \in LastBatches(i) : clock - x.at <= MaxAge /\ ~x.batch.bad /\ x.batch.stw # <<>>
                    /\ \A x \in NewestRow(i) : clock - x.row <= MaxAge /\ RatesAvailable(x.batch)
                    /\ \A x \in InWindow(i, Recent) : \A k \in DOMAIN x.batch.stw :
                         ~x.batch.stw[k].full /\ x.batch.stw[k].ms <= WarnPause
  <2>1. \A j \in Instances : Place[j][3] \in Clusters
    BY DEF Clusters
  <2>2. \A j \in Judged : j \in Instances /\ StatusOf(j, clock) = "ok"
    BY <2>1, PagesMean DEF Judged
  <2> QED
    BY <2>2 DEF OkIsEarned
<1>1. PICK r, o, bs, now : r = rows[i] /\ o = outcome[i] /\ bs = batches[i] /\ now = clock
  OBVIOUS
<1>2. now \in Nat /\ Kept(r, o, bs, now)
  BY <1>1 DEF Inv, RowInv
<1>3. GcQuality(r, o, now) = "fresh" /\ "critical" \notin Alerts(r, Role[i], now)
  BY <1>1, OkMeans
<1>4. /\ bs # {}
      /\ \A x \in bs : (\A y \in bs : y.at <= x.at) =>
           now - x.at <= MaxAge /\ ~x.batch.bad /\ x.batch.stw # <<>>
      /\ \A x \in bs : x.batch.stw # <<>> /\ (\A y \in bs : y.batch.stw # <<>> => y.row <= x.row) =>
           now - x.row <= MaxAge /\ RatesAvailable(x.batch)
  BY <1>2, <1>3, FreshIsEarned
<1>5. ASSUME NEW x \in bs, now - x.row <= Recent, NEW k \in DOMAIN x.batch.stw
      PROVE  ~x.batch.stw[k].full /\ x.batch.stw[k].ms <= WarnPause
  <2>1. DOMAIN <<>> = {}
    OBVIOUS
  <2>2. x.batch \in GcBatch /\ x.batch.stw # <<>>
        /\ x.row \in DOMAIN r /\ r[x.row] = RowOf(Analyze(x.batch))
    <3>1. x.batch.stw # <<>>
      BY <1>5, <2>1
    <3> QED
      BY <1>2, <1>5, <3>1, KeptYoung, RetentionIs
  <2>3. PICK m : m = Analyze(x.batch)
    OBVIOUS
  <2>4. /\ m.full \in Nat /\ m.max \in Nat
        /\ x.batch.stw[k].full => m.full > 0
        /\ x.batch.stw[k].ms <= m.max
    BY <2>2, <2>3, AnalyzeIs
  <2>5. r[x.row]["full"] = m.full /\ r[x.row]["max"] = m.max
    BY <2>2, <2>3 DEF RowOf, Columns
  <2>6. ~(m.full > 0) /\ ~(m.max > WarnPause)
    BY <1>2, <1>3, <1>5, <2>2, <2>5, CriticalRow
  <2>7. x.batch.stw[k].ms \in Nat
    BY <2>2, PausesAre DEF GcPause
  <2> QED
    BY <2>4, <2>6, <2>7 DEF WarnPause
<1> QED
  BY <1>1, <1>4, <1>5 DEF LastBatches, NewestRow, InWindow

\* A green page is earned by every instance on it (OkIsEarned, for all constants).
THEOREM GreenIsEarned == Spec => []OkIsEarned
  BY InitHolds, NextHolds, OkEarned, PTL DEF Spec



-----------------------------------------------------------------------------
(* "No action" is earned *)

\* The rollup of a bucket, in one metric.
LEMMA StatsAre ==
  ASSUME NEW s \in Seq(HostSample), s # <<>>, NEW c \in HostColumns
  PROVE  LET roll == Rollup(s)
         IN /\ roll.n = Len(s) /\ roll.n \in Nat
            /\ roll.stats[c].count \in Nat /\ roll.stats[c].count <= roll.n
            /\ roll.stats[c].count = roll.n =>
                 \A k \in DOMAIN s : s[k].val[c] # None
            /\ roll.stats[c].count > 0 =>
                 /\ roll.stats[c].max \in Nat
                 /\ \A k \in DOMAIN s : s[k].val[c] # None => s[k].val[c] <= roll.stats[c].max
            /\ (\A k \in DOMAIN s : s[k].val[c] # None) => roll.stats[c].count > 0
<1>1. PICK roll : roll = Rollup(s)
  OBVIOUS
<1>3. Len(s) \in Nat /\ DOMAIN s = 1 .. Len(s) /\ \A k \in DOMAIN s : s[k] \in HostSample
  OBVIOUS
<1>4. IsFiniteSet(DOMAIN s) /\ Cardinality(DOMAIN s) = Len(s)
  BY <1>3, FS_Interval
<1>2. roll.n = Len(s) /\ roll.stats[c] = Stats(s, c)
  BY <1>1, <1>4 DEF Rollup
<1>5. PICK have : have = Having(s, c)
  OBVIOUS
<1>6. have = {k \in DOMAIN s : s[k].val[c] # None} /\ have \in SUBSET DOMAIN s
  BY <1>5 DEF Having
<1>7. /\ roll.stats[c].count = Cardinality(have)
      /\ roll.stats[c].max = IF have = {} THEN None ELSE Max({s[k].val[c] : k \in have})
  BY <1>2, <1>5 DEF Stats
<1>8. /\ IsFiniteSet(have) /\ Cardinality(have) \in Nat /\ Cardinality(have) <= Len(s)
      /\ Cardinality(have) = Len(s) => have = DOMAIN s
  BY <1>4, <1>6, FS_Subset, FS_CardinalityType
<1>9. Cardinality(have) > 0 <=> have # {}
  BY <1>8, FS_EmptySet
<1>10. have # {} => /\ roll.stats[c].max \in Nat
                    /\ \A k \in have : s[k].val[c] <= roll.stats[c].max
  <2> SUFFICES ASSUME have # {} PROVE /\ roll.stats[c].max \in Nat
                                      /\ \A k \in have : s[k].val[c] <= roll.stats[c].max
    OBVIOUS
  <2>1. PICK f : f = [k \in have |-> s[k].val[c]]
    OBVIOUS
  <2>2. f \in [have -> Nat]
    <3>1. \A k \in have : s[k].val[c] \in Nat
      BY <1>3, <1>6 DEF HostSample
    <3> QED
      BY <2>1, <3>1
  <2>3. PICK m : m = Max({f[k] : k \in have})
    OBVIOUS
  <2>4. m \in Nat /\ \A k \in have : f[k] <= m
    BY <1>8, <2>2, <2>3, MaxOver
  <2>5. {f[k] : k \in have} = {s[k].val[c] : k \in have}
    BY <2>1
  <2>6. roll.stats[c].max = m
    BY <1>7, <2>3, <2>5
  <2> QED
    BY <2>1, <2>4, <2>6
<1>11. 1 \in DOMAIN s
  <2>1. PICK n \in Nat : n = Len(s) /\ DOMAIN s = 1 .. n
    BY <1>3
  <2>2. n = 0 => s = <<>>
    BY <2>1, EmptySeq
  <2> QED
    BY <2>1, <2>2
<1>12. (\A k \in DOMAIN s : s[k].val[c] # None) => have # {}
  BY <1>6, <1>11
<1>13. Cardinality(have) = Len(s) => \A k \in DOMAIN s : s[k].val[c] # None
  BY <1>6, <1>8
<1>14. Cardinality(have) > 0 => \A k \in DOMAIN s : s[k].val[c] # None => s[k].val[c] <= roll.stats[c].max
  BY <1>6, <1>9, <1>10
<1> QED
  BY <1>1, <1>2, <1>3, <1>7, <1>8, <1>9, <1>10, <1>12, <1>13, <1>14

\* Where the metrics of a window are fresh, every sample of its buckets has all of
\* them, and none exceeds the window's maximum.
LEMMA FreshWindow ==
  ASSUME NEW w, IsFiniteSet(DOMAIN w), NEW ss,
         \A t \in DOMAIN w : ss[t] \in Seq(HostSample) \ {<<>>} /\ w[t] = Rollup(ss[t]),
         MetricQuality(HostWindow(w)) = "fresh", NEW c \in HostMetrics,
         NEW t \in DOMAIN w, NEW k \in DOMAIN ss[t]
  PROVE  /\ ss[t][k].val[c] # None
         /\ HostMax(w, c) \in Nat /\ ss[t][k].val[c] <= HostMax(w, c)
<1>1. PICK D : D = DOMAIN w
  OBVIOUS
<1>2. c \in HostColumns
  BY DEF HostColumns
<1>3. ASSUME NEW u \in D
      PROVE  /\ w[u].n \in Nat /\ w[u].stats[c].count \in Nat /\ w[u].stats[c].count <= w[u].n
             /\ w[u].stats[c].count = w[u].n => \A j \in DOMAIN ss[u] : ss[u][j].val[c] # None
             /\ w[u].stats[c].count > 0 =>
                  /\ w[u].stats[c].max \in Nat
                  /\ \A j \in DOMAIN ss[u] : ss[u][j].val[c] # None => ss[u][j].val[c] <= w[u].stats[c].max
             /\ (\A j \in DOMAIN ss[u] : ss[u][j].val[c] # None) => w[u].stats[c].count > 0
  <2>1. PICK s : s = ss[u]
    OBVIOUS
  <2>2. s \in Seq(HostSample) /\ s # <<>> /\ w[u] = Rollup(s)
    BY <1>1, <2>1
  <2> QED
    BY <1>2, <2>1, <2>2, StatsAre
<1>4. PICK f, g : f = [u \in D |-> w[u].stats[c].count] /\ g = [u \in D |-> w[u].n]
  OBVIOUS
<1>5. f \in [D -> Nat] /\ g \in [D -> Nat] /\ \A u \in D : f[u] <= g[u]
  BY <1>3, <1>4
<1>6. SumFunction(g) <= SumFunction(f)
  <2>1. PICK m : m = HostWindow(w)
    OBVIOUS
  <2>2. m.n = SumFunction(g) /\ m.count[c] = SumFunction(f)
    BY <1>1, <1>2, <1>4, <2>1 DEF HostWindow
  <2>3. m.count[c] >= m.n
    BY <2>1 DEF MetricQuality
  <2>4. SumFunction(g) \in Nat /\ SumFunction(f) \in Nat
    BY <1>1, <1>5, SumAtLeast
  <2> QED
    BY <2>2, <2>3, <2>4
<1>7. \A u \in D : f[u] = g[u]
  BY <1>1, <1>5, <1>6, SumMonotone
<1>8. \A u \in D : \A j \in DOMAIN ss[u] : ss[u][j].val[c] # None
  BY <1>3, <1>4, <1>7
<1>9. \A u \in D : /\ w[u].stats[c].count > 0 /\ w[u].stats[c].max \in Nat
                   /\ \A j \in DOMAIN ss[u] : ss[u][j].val[c] <= w[u].stats[c].max
  BY <1>3, <1>8
<1>10. PICK h : h = [u \in D |-> w[u].stats[c].max]
  OBVIOUS
<1>11. HostMax(w, c) = Max({h[u] : u \in D})
  <2>1. {u \in DOMAIN w : w[u].stats[c].count > 0} = D
    BY <1>1, <1>9
  <2>2. {h[u] : u \in D} = {w[u].stats[c].max : u \in D}
    BY <1>10
  <2>3. D # {}
    BY <1>1
  <2> QED
    BY <2>1, <2>2, <2>3 DEF HostMax
<1>12. PICK m : m = Max({h[u] : u \in D})
  OBVIOUS
<1>13. m \in Nat /\ \A u \in D : h[u] <= m
  <2>1. h \in [D -> Nat] /\ D # {}
    BY <1>1, <1>9, <1>10
  <2> QED
    BY <1>1, <1>12, <2>1, MaxOver
<1>14. ss[t][k].val[c] <= w[t].stats[c].max /\ w[t].stats[c].max <= m /\ w[t].stats[c].max \in Nat
  BY <1>1, <1>9, <1>10, <1>13
<1>15. ss[t][k].val[c] \in Nat
  <2>1. PICK s : s = ss[t]
    OBVIOUS
  <2>2. s \in Seq(HostSample) /\ k \in DOMAIN s /\ s[k].val[c] # None
    BY <1>1, <1>8, <2>1
  <2>3. s[k] \in HostSample
    BY <2>2
  <2> QED
    BY <1>2, <2>1, <2>2, <2>3 DEF HostSample
<1> QED
  BY <1>1, <1>8, <1>11, <1>12, <1>13, <1>14, <1>15

\* Reliable evidence of the host: it is fresh in its newest bucket and throughout
\* the day.
LEMMA FreshHost ==
  ASSUME NEW now \in Nat, NEW ro, NEW ss, Rolled(ro, ss, now), HostSnapshot(ro, now).quality = "fresh"
  PROVE  /\ \E t \in DOMAIN ss : now - t <= MaxAge
         /\ MetricQuality(HostWindow(Window(ro, now - Day, now))) = "fresh"
         /\ HostSnapshot(ro, now).metrics = HostWindow(Window(ro, now - Day, now))
<1>1. PICK last : last = LatestAt(ro, now)
  OBVIOUS
<1>2. PICK has, short, source :
        /\ has = IF last = None THEN {} ELSE {c \in HostMetrics : ro[last].stats[c].count > 0}
        /\ short = IF last = None THEN {} ELSE {c \in HostMetrics : ro[last].stats[c].count < ro[last].n}
        /\ source = SourceQuality(last, has, short, HostMetrics, MaxAge, now)
  OBVIOUS
<1>3. PICK m : m = HostWindow(Window(ro, now - Day, now))
  OBVIOUS
<1>4. /\ HostSnapshot(ro, now).quality =
           IF source \in {"fresh", "partial"} /\ ~(source = "fresh" /\ MetricQuality(m) = "fresh")
             THEN "partial" ELSE source
      /\ HostSnapshot(ro, now).metrics = IF source \in {"fresh", "partial"} THEN m ELSE None
  BY <1>1, <1>2, <1>3 DEF HostSnapshot
<1>5. source = "fresh" /\ MetricQuality(m) = "fresh"
  BY <1>4
<1>6. last # None /\ ~(now - last > MaxAge)
  BY <1>2, <1>5 DEF SourceQuality
<1>7. last \in DOMAIN ss /\ last \in Nat
  <2>1. DOMAIN ro \subseteq 0 .. now /\ DOMAIN ss = DOMAIN ro
    BY DEF Rolled
  <2>2. /\ DOMAIN ro = {} => LatestAt(ro, now) = None
        /\ DOMAIN ro # {} => LatestAt(ro, now) \in DOMAIN ro /\ LatestAt(ro, now) \in Nat
    BY <2>1, NewestIs
  <2> QED
    BY <1>1, <1>6, <2>1, <2>2
<1>8. now - last <= MaxAge
  BY <1>6, <1>7, WindowAssumption
<1> QED
  BY <1>3, <1>4, <1>5, <1>7, <1>8

\* A node without pressure shows no signal.
LEMMA NoSignal ==
  ASSUME NEW g, NEW h, FirstShown(Signals(g, h)) = "healthy"
  PROVE  /\ ~(g["full"] > 0)
         /\ \A c \in {"swap", "diskUtil", "diskAwait", "mem", "netUtil"} : ~(h.max[c] > Crit[c])
<1>1. PICK s : s = Signals(g, h)
  OBVIOUS
<1>2. DOMAIN s = 1 .. 8
  BY <1>1 DEF Signals
<1>3. \A k \in DOMAIN s : s[k][1] # "healthy"
  <2>1. \A k \in 1 .. 8 : k \in {1, 2, 3, 4, 5, 6, 7, 8}
    OBVIOUS
  <2>2. /\ s[1][1] = "swap" /\ s[2][1] = "disk" /\ s[3][1] = "cpu" /\ s[4][1] = "iowait"
        /\ s[5][1] = "host_memory" /\ s[6][1] = "network" /\ s[7][1] = "heap" /\ s[8][1] = "watch"
    BY <1>1 DEF Signals
  <2> QED
    BY <1>2, <2>1, <2>2
<1>4. \A k \in DOMAIN s : ~s[k][2]
  <2> SUFFICES ASSUME NEW k \in DOMAIN s, s[k][2] PROVE FALSE
    OBVIOUS
  <2>1. PICK K : K = {j \in DOMAIN s : s[j][2]}
    OBVIOUS
  <2>2. IsFiniteSet(K)
    <3>1. 1 \in Int /\ 8 \in Int
      OBVIOUS
    <3>2. IsFiniteSet(1 .. 8)
      BY <3>1, FS_Interval, Zenon
    <3>3. K \in SUBSET (1 .. 8)
      BY <1>2, <2>1, Zenon
    <3> QED
      BY <3>2, <3>3, FS_Subset, Zenon
  <2>3. K # {} /\ \A j \in K : j \in Int
    BY <1>2, <2>1
  <2>4. K \subseteq Int
    BY <2>3, Zenon
  <2>5. Min(K) \in K
    BY <2>2, <2>3, <2>4, MinExists, Zenon
  <2>6. FirstShown(s) = s[Min(K)][1]
    BY <2>1, <2>3 DEF FirstShown
  <2> QED
    BY <1>1, <1>3, <2>1, <2>5, <2>6
<1>5. ~s[1][2] /\ ~s[2][2] /\ ~s[5][2] /\ ~s[6][2] /\ ~s[7][2]
  BY <1>2, <1>4
<1>6. ~(h.max["swap"] > Crit["swap"])
  BY <1>1, <1>5 DEF Signals
<1>7. ~(h.max["diskUtil"] > Crit["diskUtil"]) /\ ~(h.max["diskAwait"] > Crit["diskAwait"])
  BY <1>1, <1>5 DEF Signals
<1>8. ~(h.max["mem"] > Crit["mem"]) /\ ~(h.max["netUtil"] > Crit["netUtil"])
  BY <1>1, <1>5 DEF Signals
<1>9. ~(g["full"] > 0)
  BY <1>1, <1>5 DEF Signals
<1> QED
  BY <1>6, <1>7, <1>8, <1>9


\* A node the advisor counts on: reliable, and without pressure.
LEMMA SettledNode ==
  ASSUME Inv, NEW i \in Instances, Reliable(i, clock), Pressure(i, clock) = "healthy"
  PROVE  /\ batches[i] # {} /\ \A x \in LastBatches(i) : clock - x.at <= MaxAge /\ ~x.batch.bad
         /\ \A x \in InWindow(i, Day) : \A k \in DOMAIN x.batch.stw : ~x.batch.stw[k].full
         /\ \E t \in DOMAIN samples[i] : clock - t <= MaxAge
         /\ \A t \in DOMAIN samples[i] : clock - t <= Day =>
              \A k \in DOMAIN samples[i][t] :
                /\ \A c \in HostMetrics : samples[i][t][k].val[c] # None
                /\ \A c \in {"swap", "diskUtil", "diskAwait", "mem", "netUtil"} :
                     samples[i][t][k].val[c] <= Crit[c]
<1>1. PICK now, r, o, bs, ro, ss : /\ now = clock /\ r = rows[i] /\ o = outcome[i] /\ bs = batches[i]
                                  /\ ro = rolls[i] /\ ss = samples[i]
  OBVIOUS
<1>2. now \in Nat /\ Kept(r, o, bs, now) /\ Rolled(ro, ss, now)
  BY <1>1 DEF Inv, RowInv, HostInv
<1>3. PICK g, h : g = GcNow(i, clock) /\ h = HostNow(i, clock)
  OBVIOUS
<1>4. g.quality = "fresh" /\ h.quality = "fresh"
  BY <1>3 DEF Reliable, BothReliable
<1>5. /\ ~(g.metrics["full"] > 0)
      /\ \A c \in {"swap", "diskUtil", "diskAwait", "mem", "netUtil"} : ~(h.metrics.max[c] > Crit[c])
  <2>1. PICK gm, hm : gm = g.metrics /\ hm = h.metrics
    OBVIOUS
  <2>2. FirstShown(Signals(gm, hm)) = "healthy"
    BY <1>3, <2>1 DEF Pressure
  <2>3. /\ ~(gm["full"] > 0)
        /\ \A c \in {"swap", "diskUtil", "diskAwait", "mem", "netUtil"} : ~(hm.max[c] > Crit[c])
    BY <2>2, NoSignal
  <2> QED
    BY <2>1, <2>3
<1>6. PICK w : w = Window(r, now - Day, now)
  OBVIOUS
<1>7. GcQuality(r, o, now) = "fresh" /\ g.metrics = WindowMetrics(w)
  <2>1. PICK q : q = GcQuality(r, o, now)
    OBVIOUS
  <2>2. g = Snapshot(r, o, Role[i], now)
    BY <1>1, <1>3 DEF GcNow
  <2>3. q = "fresh"
    BY <1>4, <2>1, <2>2 DEF Snapshot
  <2>4. g.metrics = WindowMetrics(w)
    BY <1>6, <2>1, <2>2, <2>3 DEF Snapshot
  <2> QED
    BY <2>1, <2>3, <2>4
<1>8. /\ bs # {}
      /\ \A x \in bs : (\A y \in bs : y.at <= x.at) => now - x.at <= MaxAge /\ ~x.batch.bad
  BY <1>2, <1>7, FreshIsEarned
<1>9. ASSUME NEW x \in bs, now - x.row <= Day, NEW k \in DOMAIN x.batch.stw
      PROVE  ~x.batch.stw[k].full
  <2>1. DOMAIN <<>> = {}
    OBVIOUS
  <2>2. x.batch \in GcBatch /\ x.batch.stw # <<>>
        /\ x.row \in DOMAIN r /\ r[x.row] = RowOf(Analyze(x.batch))
    <3>1. x.batch.stw # <<>>
      BY <1>9, <2>1
    <3> QED
      BY <1>2, <1>9, <3>1, KeptYoung, RetentionIs
  <2>3. /\ IsFiniteSet(DOMAIN w)
        /\ \A u \in DOMAIN w : u \in DOMAIN r /\ w[u] = r[u]
        /\ \A u \in DOMAIN r : now - Day <= u /\ u <= now => u \in DOMAIN w
    BY <1>2, <1>6, KeptRows, WindowIs
  <2>4. x.row \in 0 .. now
    BY <1>2, <2>2, KeptRows
  <2>5. x.row \in DOMAIN w /\ w[x.row] = r[x.row]
    BY <1>2, <1>9, <2>2, <2>3, <2>4, WindowAssumption
  <2>6. \A u \in DOMAIN w : w[u]["full"] \in Nat
    BY <1>2, <2>3, KeptRows
  <2>7. AggSum(w, "full") \in Nat /\ w[x.row]["full"] <= AggSum(w, "full")
    BY <2>3, <2>5, <2>6, AggregatesCover
  <2>8. g.metrics["full"] = AggSum(w, "full")
    BY <1>7 DEF WindowMetrics
  <2>9. ~(w[x.row]["full"] > 0)
    BY <1>5, <2>5, <2>6, <2>7, <2>8
  <2>10. PICK m : m = Analyze(x.batch)
    OBVIOUS
  <2>11. r[x.row]["full"] = m.full
    BY <2>2, <2>10 DEF RowOf, Columns
  <2>12. x.batch.stw[k].full => m.full > 0
    BY <1>9, <2>2, <2>10, AnalyzeIs
  <2> QED
    BY <2>5, <2>9, <2>11, <2>12
<1>10. PICK v : v = Window(ro, now - Day, now)
  OBVIOUS
<1>11. /\ \E t \in DOMAIN ss : now - t <= MaxAge
       /\ MetricQuality(HostWindow(v)) = "fresh"
       /\ h.metrics = HostWindow(v)
  <2>1. h = HostSnapshot(ro, now)
    BY <1>1, <1>3 DEF HostNow
  <2> QED
    BY <1>2, <1>4, <1>10, <2>1, FreshHost
<1>12. ASSUME NEW t \in DOMAIN ss, now - t <= Day, NEW k \in DOMAIN ss[t], NEW c \in HostMetrics
       PROVE  /\ ss[t][k].val[c] # None
              /\ HostMax(v, c) \in Nat /\ ss[t][k].val[c] <= HostMax(v, c)
  <2>1. DOMAIN ss = DOMAIN ro /\ DOMAIN ro \subseteq 0 .. now
        /\ \A u \in DOMAIN ss : ss[u] \in Seq(HostSample) \ {<<>>} /\ ro[u] = Rollup(ss[u])
    BY <1>2 DEF Rolled
  <2>2. IsFiniteSet(DOMAIN ro)
    BY <1>2, <2>1, NewestIs
  <2>3. /\ IsFiniteSet(DOMAIN v)
        /\ \A u \in DOMAIN v : u \in DOMAIN ro /\ v[u] = ro[u]
        /\ \A u \in DOMAIN ro : now - Day <= u /\ u <= now => u \in DOMAIN v
    BY <1>10, <2>2, WindowIs
  <2>4. t \in DOMAIN v
    BY <1>2, <1>12, <2>1, <2>3, WindowAssumption
  <2>5. \A u \in DOMAIN v : ss[u] \in Seq(HostSample) \ {<<>>} /\ v[u] = Rollup(ss[u])
    BY <2>1, <2>3
  <2> QED
    BY <1>11, <1>12, <2>3, <2>4, <2>5, FreshWindow
<1>13. ASSUME NEW t \in DOMAIN ss, now - t <= Day, NEW k \in DOMAIN ss[t],
              NEW c \in {"swap", "diskUtil", "diskAwait", "mem", "netUtil"}
       PROVE  ss[t][k].val[c] <= Crit[c]
  <2>1. c \in HostMetrics /\ c \in HostColumns
    BY DEF HostMetrics, HostColumns
  <2>2. h.metrics.max[c] = HostMax(v, c)
    BY <1>11, <2>1 DEF HostWindow
  <2>3. Crit[c] \in Nat
    BY DEF Crit
  <2>4. ss[t][k].val[c] # None /\ HostMax(v, c) \in Nat /\ ss[t][k].val[c] <= HostMax(v, c)
    BY <1>12, <1>13, <2>1
  <2>5. ss[t][k].val[c] \in Nat
    <3>1. PICK s : s = ss[t]
      OBVIOUS
    <3>2. s \in Seq(HostSample) /\ k \in DOMAIN s
      BY <1>2, <3>1 DEF Rolled
    <3>3. s[k] \in HostSample
      BY <3>2
    <3> QED
      BY <2>1, <2>4, <3>1, <3>3 DEF HostSample
  <2> QED
    BY <1>5, <2>2, <2>3, <2>4, <2>5
<1> QED
  BY <1>1, <1>8, <1>9, <1>11, <1>12, <1>13 DEF LastBatches, InWindow

LEMMA NoActionEarned == Inv => NoActionIsEarned
<1> SUFFICES ASSUME Inv, NEW i \in Instances, Role[i] = Advised, Advice(Place[i][3], clock) = "no_action"
             PROVE  Reliable(i, clock) /\ Pressure(i, clock) = "healthy"
  BY SettledNode DEF NoActionIsEarned
<1>1. PICK nodes : nodes = {j \in Members(Place[i][3]) : Role[j] = Advised}
  OBVIOUS
<1>2. i \in nodes
  BY <1>1 DEF Members
<1>3. Decide(nodes, clock) = "no_action"
  BY <1>1, <1>2 DEF Advice
<1> QED
  BY <1>2, <1>3 DEF Decide

\* The advisor's "no action" is earned by every node it looked at
\* (NoActionIsEarned, for all constants).
THEOREM AdviceIsEarned == Spec => []NoActionIsEarned
  BY InitHolds, NextHolds, NoActionEarned, PTL DEF Spec


-----------------------------------------------------------------------------
(* A window of host rows and one rollup of its samples *)

LEMMA NumberedIs ==
  ASSUME NEW D, IsFiniteSet(D), NEW H, DOMAIN H = D, \A t \in D : IsFiniteSet(H[t])
  PROVE  /\ IsFiniteSet(Numbered(H))
         /\ \A p : p \in Numbered(H) <=> \E t \in D : \E k \in H[t] : p = <<t, k>>
<1>1. PICK P : P = {{t} \X H[t] : t \in D}
  OBVIOUS
<1>2. Numbered(H) = UNION P
  BY <1>1 DEF Numbered
<1>3. IsFiniteSet(P)
  <2>1. PICK f : f = [t \in D |-> {t} \X H[t]]
    OBVIOUS
  <2>2. f \in Surjection(D, P)
    BY <1>1, <2>1 DEF Surjection
  <2> QED
    BY <2>2, FS_Surjection
<1>4. ASSUME NEW Q \in P PROVE IsFiniteSet(Q)
  <2>1. PICK t \in D : Q = {t} \X H[t]
    BY <1>1
  <2>2. IsFiniteSet({t}) /\ IsFiniteSet(H[t])
    BY FS_Singleton
  <2> QED
    BY <2>1, <2>2, FS_Product
<1>5. IsFiniteSet(UNION P)
  BY <1>3, <1>4, FS_UNION
<1>6. \A p : p \in UNION P <=> \E t \in D : \E k \in H[t] : p = <<t, k>>
  BY <1>1
<1> QED
  BY <1>2, <1>5, <1>6

LEMMA SumOfEmpty ==
  ASSUME NEW S, IsFiniteSet(S), NEW f \in [S -> Nat]
  PROVE  SumFunction(f) \in Nat /\ (S = {} => SumFunction(f) = 0)
<1>1. PICK g : Sums(f, g, S) /\ SumFunction(f) = g[S]
  BY SumUnfolds
<1>2. S = {} => SumFunction(f) = 0
  BY <1>1 DEF Sums, Step
<1> QED
  BY <1>2, SumAtLeast

\* The sum over all samples is the sum, over the buckets, of the buckets' sums.
LEMMA SumOfSums ==
  ASSUME NEW D, IsFiniteSet(D), NEW H, DOMAIN H = D, \A t \in D : IsFiniteSet(H[t]),
         NEW f \in [Numbered(H) -> Nat],
         NEW e, \A t \in D : e[t] \in [H[t] -> Nat] /\ \A k \in H[t] : e[t][k] = f[<<t, k>>],
         NEW d \in [D -> Nat], \A t \in D : d[t] = SumFunction(e[t])
  PROVE  SumFunction(f) = SumFunction(d)
<1>1. PICK P : P = Numbered(H)
  OBVIOUS
<1>2. IsFiniteSet(P) /\ \A p : p \in P <=> \E t \in D : \E k \in H[t] : p = <<t, k>>
  <2>1. IsFiniteSet(Numbered(H)) /\ \A p : p \in Numbered(H) <=> \E t \in D : \E k \in H[t] : p = <<t, k>>
    BY NumberedIs
  <2> QED
    BY <1>1, <2>1
<1>3. f \in [P -> Nat]
  BY <1>1
<1>7. PICK g : Sums(f, g, P) /\ SumFunction(f) = g[P]
  BY <1>2, <1>3, SumUnfolds
<1>8. PICK h : Sums(d, h, D) /\ SumFunction(d) = h[D]
  BY SumUnfolds
<1> DEFINE Part(s) == {p \in P : p[1] \in s}
           Good(s) == g[Part(s)] = h[s]
           Bad == {s \in SUBSET D : ~ Good(s)}
<1>9. Bad = {}
  <2> SUFFICES ASSUME Bad # {} PROVE FALSE
    OBVIOUS
  <2>1. PICK s \in Bad : \A t \in SUBSET s : t \in Bad => t = s
    <3>1. Bad \in SUBSET SUBSET D
      OBVIOUS
    <3> HIDE DEF Bad
    <3> QED
      BY <3>1, LeastSet
  <2>2. s \in SUBSET D /\ ~ Good(s)
    BY <2>1
  <2>3. s # {}
    <3>1. h[{}] = 0 /\ g[{}] = 0
      BY <1>7, <1>8 DEF Sums, Step
    <3>2. Part({}) = {}
      OBVIOUS
    <3>3. Good({})
      BY <3>1, <3>2
    <3> QED
      BY <2>2, <3>3
  <2>4. PICK x : x \in s
    BY <2>3
  <2>5. PICK u : u = s \ {x}
    OBVIOUS
  <2>6. u \in SUBSET D /\ Good(u)
    <3>1. u \in SUBSET s /\ u # s /\ u \in SUBSET D
      BY <2>2, <2>4, <2>5
    <3>2. u \notin Bad
      BY <2>1, <3>1
    <3> QED
      BY <3>1, <3>2
  <2>7. h[s] = d[x] + h[u]
    <3>1. IsFiniteSet(D) /\ d \in [D -> Nat] /\ Sums(d, h, D)
      BY <1>8
    <3>2. s \in SUBSET D /\ x \in s
      BY <2>2, <2>4
    <3>3. h[s] = d[x] + h[s \ {x}]
      BY ONLY <3>1, <3>2, SumRemoves
    <3> QED
      BY <2>5, <3>3
  <2>8. PICK Q, A, B : Q = Part(s) /\ A = {p \in P : p[1] = x} /\ B = Part(u)
    OBVIOUS
  <2>9. Q \in SUBSET P /\ A \in SUBSET Q /\ Q \ A = B
    BY <2>4, <2>5, <2>8
  <2>10. g[Q] = g[A] + g[B]
    <3>1. PICK r : r = [p \in Q |-> f[p]]
      OBVIOUS
    <3>2. r \in [Q -> Nat] /\ IsFiniteSet(Q)
      BY <1>2, <1>3, <2>9, <3>1, FS_Subset
    <3>3. SumFunction(r) = SumFunction([p \in A |-> r[p]]) + SumFunction([p \in Q \ A |-> r[p]])
      <4>1. A \in SUBSET Q
        BY <2>9
      <4> QED
        BY ONLY <3>2, <4>1, SumSplits
    <3>4. [p \in A |-> r[p]] = [p \in A |-> f[p]] /\ [p \in Q \ A |-> r[p]] = [p \in B |-> f[p]]
      BY <2>9, <3>1
    <3>5. B \in SUBSET P /\ A \in SUBSET P
      BY <2>9
    <3>6. SumFunction([p \in Q |-> f[p]]) = g[Q]
      BY <1>2, <1>3, <1>7, <2>9, SumOfPart
    <3>7. SumFunction([p \in A |-> f[p]]) = g[A]
      BY <1>2, <1>3, <1>7, <3>5, SumOfPart
    <3>8. SumFunction([p \in B |-> f[p]]) = g[B]
      BY <1>2, <1>3, <1>7, <3>5, SumOfPart
    <3> QED
      BY <3>1, <3>3, <3>4, <3>6, <3>7, <3>8
  <2>11. g[A] = d[x]
    <3>1. PICK S, a, q : S = H[x] /\ a = [p \in A |-> f[p]] /\ q = [k \in H[x] |-> <<x, k>>]
      OBVIOUS
    <3>2. x \in D /\ A \in SUBSET P
      BY <2>2, <2>4, <2>9
    <3>3. q \in [S -> A]
      BY <1>2, <2>8, <3>1, <3>2
    <3>4. \A y, z \in S : q[y] = q[z] => y = z
      BY <3>1
    <3>5. \A p \in A : \E k \in S : q[k] = p
      <4>1. ASSUME NEW p \in A PROVE \E k \in S : q[k] = p
        <5>1. PICK t \in D : \E k \in H[t] : p = <<t, k>>
          BY <1>2, <3>2
        <5>2. t = x
          BY <2>8, <5>1
        <5> QED
          BY <3>1, <5>1, <5>2
      <4> QED
        BY <4>1
    <3>6. a \in [A -> Nat] /\ IsFiniteSet(S)
      BY <1>3, <3>1, <3>2
    <3>7. SumFunction(a) = SumFunction([k \in S |-> a[q[k]]])
      BY <3>3, <3>4, <3>5, <3>6, SumRenumbers
    <3>8. [k \in S |-> a[q[k]]] = e[x]
      <4>1. \A k \in S : q[k] \in A /\ q[k] = <<x, k>>
        BY <3>1, <3>3
      <4>2. \A k \in S : a[q[k]] = f[<<x, k>>]
        BY <3>1, <4>1
      <4>3. e[x] \in [S -> Nat] /\ \A k \in S : e[x][k] = f[<<x, k>>]
        BY <3>1, <3>2
      <4>4. e[x] = [k \in S |-> e[x][k]]
        BY <4>3
      <4>5. [k \in S |-> a[q[k]]] = [k \in S |-> e[x][k]]
        <5>1. \A k \in S : a[q[k]] = e[x][k]
          BY <4>2, <4>3
        <5> QED
          BY ONLY <5>1
      <4> QED
        BY <4>4, <4>5
    <3>9. SumFunction(a) = g[A]
      BY <1>2, <1>3, <1>7, <3>1, <3>2, SumOfPart
    <3> QED
      BY <3>2, <3>7, <3>8, <3>9
  <2> QED
    BY <2>2, <2>6, <2>7, <2>8, <2>10, <2>11
<1>10. Good(D)
  <2>1. D \notin Bad
    BY <1>9
  <2> QED
    BY <2>1
<1>11. Part(D) = P
  BY <1>2
<1> QED
  BY <1>1, <1>7, <1>8, <1>10, <1>11

Buckets(D, ss) == IsFiniteSet(D) /\ DOMAIN ss = D /\ \A t \in D : ss[t] \in Seq(HostSample)
Timed(s) == \A k \in DOMAIN s : s[k].dur > 0
Havings(D, ss, c) == [t \in D |-> Having(ss[t], c)]

LEMMA BucketIs ==
  ASSUME NEW s \in Seq(HostSample), NEW c \in HostColumns
  PROVE  /\ IsFiniteSet(DOMAIN s) /\ Having(s, c) \in SUBSET DOMAIN s /\ IsFiniteSet(Having(s, c))
         /\ \A k \in DOMAIN s : s[k] \in HostSample /\ s[k].dur \in Nat
         /\ \A k \in Having(s, c) : s[k].val[c] \in Nat
<1>1. Len(s) \in Nat /\ DOMAIN s = 1 .. Len(s) /\ \A k \in DOMAIN s : s[k] \in HostSample
  OBVIOUS
<1>2. IsFiniteSet(DOMAIN s)
  BY <1>1, FS_Interval
<1>3. Having(s, c) \in SUBSET DOMAIN s
  BY DEF Having
<1>4. IsFiniteSet(Having(s, c))
  BY <1>2, <1>3, FS_Subset
<1>5. \A k \in DOMAIN s : s[k].dur \in Nat /\ s[k].val[c] \in Nat \cup {None}
  BY <1>1 DEF HostSample
<1> QED
  BY <1>1, <1>2, <1>3, <1>4, <1>5 DEF Having

\* The samples of all buckets together, and those of them with a signal.
LEMMA JoinedIs ==
  ASSUME NEW D, NEW ss, Buckets(D, ss)
  PROVE  /\ \A p : p \in DOMAIN Joined(ss) <=> \E t \in D : \E k \in DOMAIN ss[t] : p = <<t, k>>
         /\ \A t \in D : \A k \in DOMAIN ss[t] :
              <<t, k>> \in DOMAIN Joined(ss) /\ Joined(ss)[<<t, k>>] = ss[t][k]
         /\ \A c \in HostColumns : Having(Joined(ss), c) = Numbered(Havings(D, ss, c))
<1>0. PICK j : j = Joined(ss)
  OBVIOUS
<1>1. PICK H : H = [t \in D |-> DOMAIN ss[t]]
  OBVIOUS
<1>2. IsFiniteSet(D) /\ DOMAIN ss = D /\ \A t \in D : ss[t] \in Seq(HostSample)
  BY DEF Buckets
<1>3. \A t \in D : IsFiniteSet(H[t])
  <2>1. "cpu" \in HostColumns
    BY DEF HostColumns, HostMetrics
  <2>2. \A t \in D : IsFiniteSet(DOMAIN ss[t])
    BY <1>2, <2>1, BucketIs
  <2> QED
    BY <1>1, <2>2
<1>4. DOMAIN H = D
  BY <1>1
<1>5. \A p : p \in Numbered(H) <=> \E t \in D : \E k \in H[t] : p = <<t, k>>
  BY <1>2, <1>3, <1>4, NumberedIs
<1>6. j = [p \in Numbered(H) |-> ss[p[1]][p[2]]]
  BY <1>0, <1>1, <1>2 DEF Joined
<1>7. DOMAIN j = Numbered(H)
  BY <1>6
<1>8. \A p : p \in DOMAIN j <=> \E t \in D : \E k \in DOMAIN ss[t] : p = <<t, k>>
  BY <1>1, <1>5, <1>7
<1>9. ASSUME NEW t \in D, NEW k \in DOMAIN ss[t] PROVE j[<<t, k>>] = ss[t][k]
  <2>1. <<t, k>> \in Numbered(H)
    BY <1>7, <1>8
  <2> QED
    BY <1>6, <2>1
<1>10. ASSUME NEW c \in HostColumns PROVE Having(j, c) = Numbered(Havings(D, ss, c))
  <2>1. PICK G : G = Havings(D, ss, c)
    OBVIOUS
  <2>2. DOMAIN G = D /\ \A t \in D : G[t] = Having(ss[t], c)
    BY <2>1 DEF Havings
  <2>3. \A t \in D : IsFiniteSet(G[t])
    BY <1>2, <2>2, BucketIs
  <2>4. \A p : p \in Numbered(G) <=> \E t \in D : \E k \in G[t] : p = <<t, k>>
    BY <1>2, <2>2, <2>3, NumberedIs
  <2>5. \A t \in D : \A k : k \in G[t] <=> k \in DOMAIN ss[t] /\ ss[t][k].val[c] # None
    BY <2>2 DEF Having
  <2>6. \A p : p \in Having(j, c) <=> p \in DOMAIN j /\ j[p].val[c] # None
    BY DEF Having
  <2>7. ASSUME NEW p PROVE p \in Having(j, c) <=> p \in Numbered(G)
    <3>1. ASSUME p \in Having(j, c) PROVE p \in Numbered(G)
      <4>1. PICK t \in D : \E k \in DOMAIN ss[t] : p = <<t, k>>
        BY <1>8, <2>6, <3>1
      <4>2. PICK k \in DOMAIN ss[t] : p = <<t, k>>
        BY <4>1
      <4>3. ss[t][k].val[c] # None
        BY <1>9, <2>6, <3>1, <4>2
      <4> QED
        BY <2>4, <2>5, <4>2, <4>3
    <3>2. ASSUME p \in Numbered(G) PROVE p \in Having(j, c)
      <4>1. PICK t \in D : \E k \in G[t] : p = <<t, k>>
        BY <2>4, <3>2
      <4>2. PICK k \in G[t] : p = <<t, k>>
        BY <4>1
      <4>3. k \in DOMAIN ss[t] /\ ss[t][k].val[c] # None
        BY <2>5
      <4>4. j[p] = ss[t][k] /\ p \in DOMAIN j
        BY <1>8, <1>9, <4>2, <4>3
      <4> QED
        BY <2>6, <4>3, <4>4
    <3> QED
      BY <3>1, <3>2
  <2>8. Having(j, c) = Numbered(G)
    BY <2>7
  <2> QED
    BY <2>1, <2>8
<1>11. \A t \in D : \A k \in DOMAIN ss[t] : <<t, k>> \in DOMAIN j /\ j[<<t, k>>] = ss[t][k]
  BY <1>8, <1>9
<1> QED
  BY <1>0, <1>8, <1>10, <1>11

LEMMA TimedTogether ==
  ASSUME NEW D, NEW ss, Buckets(D, ss)
  PROVE  Timed(Joined(ss)) <=> \A t \in D : Timed(ss[t])
<1>1. PICK j : j = Joined(ss)
  OBVIOUS
<1>2. \A p : p \in DOMAIN j <=> \E t \in D : \E k \in DOMAIN ss[t] : p = <<t, k>>
  BY <1>1, JoinedIs
<1>5. ASSUME NEW t \in D, NEW k \in DOMAIN ss[t] PROVE <<t, k>> \in DOMAIN j /\ j[<<t, k>>] = ss[t][k]
  BY <1>1, JoinedIs
<1>3. ASSUME Timed(j) PROVE \A t \in D : Timed(ss[t])
  <2>1. ASSUME NEW t \in D, NEW k \in DOMAIN ss[t] PROVE ss[t][k].dur > 0
    <3>1. <<t, k>> \in DOMAIN j /\ j[<<t, k>>] = ss[t][k]
      BY <1>5
    <3> QED
      BY <1>3, <3>1 DEF Timed
  <2> QED
    BY <2>1 DEF Timed
<1>4. ASSUME \A t \in D : Timed(ss[t]) PROVE Timed(j)
  <2>1. ASSUME NEW p \in DOMAIN j PROVE j[p].dur > 0
    <3>1. PICK t \in D : \E k \in DOMAIN ss[t] : p = <<t, k>>
      BY <1>2
    <3>2. PICK k \in DOMAIN ss[t] : p = <<t, k>>
      BY <3>1
    <3>3. j[p] = ss[t][k]
      BY <1>5, <3>2
    <3> QED
      BY <1>4, <3>3 DEF Timed
  <2> QED
    BY <2>1 DEF Timed
<1> QED
  BY <1>1, <1>3, <1>4

\* A statistic of all samples is the sum of the buckets' statistics.
AddsUp(D, ss, c, field) ==
  /\ \A t \in D : /\ Stats(ss[t], c)[field] \in Nat
                  /\ Having(ss[t], c) = {} => Stats(ss[t], c)[field] = 0
  /\ Stats(Joined(ss), c)[field] = SumFunction([t \in D |-> Stats(ss[t], c)[field]])

LEMMA SumAddsUp ==
  ASSUME NEW D, NEW ss, Buckets(D, ss), NEW c \in HostColumns, NEW field,
         NEW f \in [Numbered(Havings(D, ss, c)) -> Nat],
         Stats(Joined(ss), c)[field] = SumFunction(f),
         \A t \in D : Stats(ss[t], c)[field] = SumFunction([k \in Having(ss[t], c) |-> f[<<t, k>>]])
  PROVE  AddsUp(D, ss, c, field)
<1>1. PICK H : H = Havings(D, ss, c)
  OBVIOUS
<1>2. IsFiniteSet(D) /\ DOMAIN H = D /\ \A t \in D : H[t] = Having(ss[t], c)
  BY <1>1 DEF Havings, Buckets
<1>3. \A t \in D : IsFiniteSet(H[t])
  BY <1>2, BucketIs DEF Buckets
<1>4. PICK e : e = [t \in D |-> [k \in H[t] |-> f[<<t, k>>]]]
  OBVIOUS
<1>5. ASSUME NEW t \in D
      PROVE  /\ e[t] = [k \in Having(ss[t], c) |-> f[<<t, k>>]]
             /\ e[t] \in [H[t] -> Nat] /\ \A k \in H[t] : e[t][k] = f[<<t, k>>]
  <2>1. e[t] = [k \in H[t] |-> f[<<t, k>>]]
    BY <1>4
  <2>2. ASSUME NEW k \in H[t] PROVE <<t, k>> \in Numbered(H)
    BY <1>2, <1>3, NumberedIs
  <2>3. \A k \in H[t] : f[<<t, k>>] \in Nat
    BY <1>1, <2>2
  <2> QED
    BY <1>2, <2>1, <2>3
<1>6. f \in [Numbered(H) -> Nat]
  BY <1>1
<1>7. PICK d : d = [t \in D |-> Stats(ss[t], c)[field]]
  OBVIOUS
<1>8. ASSUME NEW t \in D PROVE d[t] = SumFunction(e[t]) /\ d[t] \in Nat /\ (H[t] = {} => d[t] = 0)
  <2>1. PICK a, S : a = e[t] /\ S = H[t]
    OBVIOUS
  <2>2. a \in [S -> Nat] /\ IsFiniteSet(S)
    BY <1>3, <1>5, <2>1
  <2>3. SumFunction(a) \in Nat /\ (S = {} => SumFunction(a) = 0)
    BY <2>2, SumOfEmpty
  <2>4. d[t] = SumFunction(a)
    BY <1>5, <1>7, <2>1
  <2> QED
    BY <2>1, <2>3, <2>4
<1>9. d \in [D -> Nat]
  BY <1>7, <1>8
<1>10. SumFunction(f) = SumFunction(d)
  <2>1. \A t \in D : e[t] \in [H[t] -> Nat] /\ \A k \in H[t] : e[t][k] = f[<<t, k>>]
    BY <1>5
  <2>2. \A t \in D : d[t] = SumFunction(e[t])
    BY <1>8
  <2> QED
    BY <1>2, <1>3, <1>6, <1>9, <2>1, <2>2, SumOfSums
<1> QED
  BY <1>2, <1>7, <1>8, <1>10 DEF AddsUp

LEMMA StatsAddUp ==
  ASSUME NEW D, NEW ss, Buckets(D, ss), NEW c \in HostColumns
  PROVE  /\ AddsUp(D, ss, c, "count") /\ AddsUp(D, ss, c, "sampleSum")
         /\ (\A t \in D : Timed(ss[t])) => AddsUp(D, ss, c, "sum") /\ AddsUp(D, ss, c, "weight")
<1>1. PICK j, N : j = Joined(ss) /\ N = Numbered(Havings(D, ss, c))
  OBVIOUS
<1>2. Having(j, c) = N
  BY <1>1, JoinedIs
<1>10. ASSUME NEW t \in D, NEW k \in DOMAIN ss[t] PROVE <<t, k>> \in DOMAIN j /\ j[<<t, k>>] = ss[t][k]
  BY <1>1, JoinedIs
<1>3. /\ \A t \in D : IsFiniteSet(Having(ss[t], c)) /\ Having(ss[t], c) \in SUBSET DOMAIN ss[t]
      /\ \A t \in D : \A k \in DOMAIN ss[t] : ss[t][k].dur \in Nat
      /\ \A t \in D : \A k \in Having(ss[t], c) : ss[t][k].val[c] \in Nat
  BY BucketIs DEF Buckets
<1>4. IsFiniteSet(N) /\ \A p \in N : \E t \in D : \E k \in Having(ss[t], c) : p = <<t, k>>
  <2>1. PICK H : H = Havings(D, ss, c)
    OBVIOUS
  <2>2. IsFiniteSet(D) /\ DOMAIN H = D /\ \A t \in D : H[t] = Having(ss[t], c)
    BY <2>1 DEF Havings, Buckets
  <2>3. \A t \in D : IsFiniteSet(H[t])
    BY <1>3, <2>2
  <2>4. IsFiniteSet(Numbered(H)) /\ \A p : p \in Numbered(H) <=> \E t \in D : \E k \in H[t] : p = <<t, k>>
    BY <2>2, <2>3, NumberedIs
  <2> QED
    BY <1>1, <2>1, <2>2, <2>4
<1>5. ASSUME NEW t \in D, NEW k \in Having(ss[t], c)
      PROVE  <<t, k>> \in N /\ j[<<t, k>>] = ss[t][k]
  <2>1. j[<<t, k>>] = ss[t][k]
    BY <1>3, <1>10
  <2>2. <<t, k>> \in DOMAIN j
    BY <1>3, <1>10
  <2>3. ss[t][k].val[c] # None
    BY DEF Having
  <2>4. <<t, k>> \in Having(j, c)
    BY <2>1, <2>2, <2>3 DEF Having
  <2> QED
    BY <1>2, <2>1, <2>4
<1>6. \A p \in N : j[p].dur \in Nat /\ j[p].val[c] \in Nat
  <2>1. ASSUME NEW p \in N PROVE j[p].dur \in Nat /\ j[p].val[c] \in Nat
    <3>1. PICK t \in D : \E k \in Having(ss[t], c) : p = <<t, k>>
      BY <1>4
    <3>2. PICK k \in Having(ss[t], c) : p = <<t, k>>
      BY <3>1
    <3>3. j[p] = ss[t][k]
      BY <1>5, <3>2
    <3>4. k \in DOMAIN ss[t]
      BY <1>3
    <3> QED
      BY <1>3, <3>3, <3>4
  <2> QED
    BY <2>1
<1>7. AddsUp(D, ss, c, "count")
  <2>1. PICK f : f = [p \in N |-> 1]
    OBVIOUS
  <2>2. f \in [N -> Nat]
    BY <2>1
  <2>3. Stats(j, c).count = SumFunction(f)
    <3>1. Stats(j, c).count = Cardinality(N)
      BY <1>2 DEF Stats
    <3> QED
      BY <1>4, <2>1, <3>1, CountIsSum
  <2>4. ASSUME NEW t \in D
        PROVE  Stats(ss[t], c).count = SumFunction([k \in Having(ss[t], c) |-> f[<<t, k>>]])
    <3>1. Stats(ss[t], c).count = Cardinality(Having(ss[t], c))
      BY DEF Stats
    <3>2. [k \in Having(ss[t], c) |-> f[<<t, k>>]] = [k \in Having(ss[t], c) |-> 1]
      BY <1>5, <2>1
    <3>3. SumFunction([k \in Having(ss[t], c) |-> 1]) = Cardinality(Having(ss[t], c))
      BY <1>3, CountIsSum
    <3> QED
      BY <3>1, <3>2, <3>3
  <2> QED
    BY <1>1, <2>2, <2>3, <2>4, SumAddsUp
<1>8. AddsUp(D, ss, c, "sampleSum")
  <2>1. PICK f : f = [p \in N |-> j[p].val[c]]
    OBVIOUS
  <2>2. f \in [N -> Nat]
    BY <1>6, <2>1
  <2>3. Stats(j, c).sampleSum = SumFunction(f)
    BY <1>2, <2>1 DEF Stats
  <2>4. ASSUME NEW t \in D
        PROVE  Stats(ss[t], c).sampleSum = SumFunction([k \in Having(ss[t], c) |-> f[<<t, k>>]])
    <3>1. Stats(ss[t], c).sampleSum = SumFunction([k \in Having(ss[t], c) |-> ss[t][k].val[c]])
      BY DEF Stats
    <3>2. [k \in Having(ss[t], c) |-> f[<<t, k>>]] = [k \in Having(ss[t], c) |-> ss[t][k].val[c]]
      BY <1>5, <2>1
    <3> QED
      BY <3>1, <3>2
  <2> QED
    BY <1>1, <2>2, <2>3, <2>4, SumAddsUp
<1>9. ASSUME \A t \in D : Timed(ss[t])
      PROVE  AddsUp(D, ss, c, "sum") /\ AddsUp(D, ss, c, "weight")
  <2>1. Timed(j)
    BY <1>1, <1>9, TimedTogether
  <2>2. \A s : Timed(s) =>
          /\ Stats(s, c).sum = SumFunction([k \in Having(s, c) |-> s[k].val[c] * s[k].dur])
          /\ Stats(s, c).weight = SumFunction([k \in Having(s, c) |-> s[k].dur])
    BY DEF Stats, Timed
  <2>3. AddsUp(D, ss, c, "sum")
    <3>1. PICK f : f = [p \in N |-> j[p].val[c] * j[p].dur]
      OBVIOUS
    <3>2. f \in [N -> Nat]
      <4>1. \A a, b \in Nat : a * b \in Nat
        OBVIOUS
      <4>2. \A p \in N : j[p].val[c] * j[p].dur \in Nat
        BY <1>6, <4>1
      <4> QED
        BY <3>1, <4>2
    <3>3. Stats(j, c).sum = SumFunction(f)
      BY <1>2, <2>1, <2>2, <3>1
    <3>4. ASSUME NEW t \in D
          PROVE  Stats(ss[t], c).sum = SumFunction([k \in Having(ss[t], c) |-> f[<<t, k>>]])
      <4>1. Stats(ss[t], c).sum = SumFunction([k \in Having(ss[t], c) |-> ss[t][k].val[c] * ss[t][k].dur])
        BY <1>9, <2>2
      <4>2. [k \in Having(ss[t], c) |-> f[<<t, k>>]]
              = [k \in Having(ss[t], c) |-> ss[t][k].val[c] * ss[t][k].dur]
        BY <1>5, <3>1
      <4> QED
        BY <4>1, <4>2
    <3> QED
      BY <1>1, <3>2, <3>3, <3>4, SumAddsUp
  <2>4. AddsUp(D, ss, c, "weight")
    <3>1. PICK f : f = [p \in N |-> j[p].dur]
      OBVIOUS
    <3>2. f \in [N -> Nat]
      BY <1>6, <3>1
    <3>3. Stats(j, c).weight = SumFunction(f)
      BY <1>2, <2>1, <2>2, <3>1
    <3>4. ASSUME NEW t \in D
          PROVE  Stats(ss[t], c).weight = SumFunction([k \in Having(ss[t], c) |-> f[<<t, k>>]])
      <4>1. Stats(ss[t], c).weight = SumFunction([k \in Having(ss[t], c) |-> ss[t][k].dur])
        BY <1>9, <2>2
      <4>2. [k \in Having(ss[t], c) |-> f[<<t, k>>]] = [k \in Having(ss[t], c) |-> ss[t][k].dur]
        BY <1>5, <3>1
      <4> QED
        BY <4>1, <4>2
    <3> QED
      BY <1>1, <3>2, <3>3, <3>4, SumAddsUp
  <2> QED
    BY <2>3, <2>4
<1> QED
  BY <1>7, <1>8, <1>9

LEMMA HaveSum ==
  ASSUME NEW D, NEW ss, Buckets(D, ss), NEW c, NEW field, AddsUp(D, ss, c, field),
         NEW h \in SUBSET D, \A t \in D \ h : Having(ss[t], c) = {},
         NEW p, DOMAIN p = h, p = [t \in h |-> p[t]], \A t \in h : p[t] = Stats(ss[t], c)[field]
  PROVE  SumFunction(p) = Stats(Joined(ss), c)[field] /\ Stats(Joined(ss), c)[field] \in Nat
<1>1. PICK d : d = [t \in D |-> Stats(ss[t], c)[field]]
  OBVIOUS
<1>2. d \in [D -> Nat] /\ IsFiniteSet(D)
  BY <1>1 DEF AddsUp, Buckets
<1>3. \A t \in D \ h : d[t] = 0
  BY <1>1 DEF AddsUp
<1>4. p = [t \in h |-> d[t]]
  <2>1. \A t \in h : p[t] = d[t]
    BY <1>1
  <2> QED
    BY <2>1
<1>5. SumFunction(d) = SumFunction(p)
  BY <1>2, <1>3, <1>4, SumOfSupport
<1>6. SumFunction(d) = Stats(Joined(ss), c)[field]
  BY <1>1 DEF AddsUp
<1>7. SumFunction(d) \in Nat
  BY <1>2, SumAtLeast
<1> QED
  BY <1>5, <1>6, <1>7

LEMMA DurationIs ==
  ASSUME NEW s, IsFiniteSet(DOMAIN s), \A k \in DOMAIN s : s[k].dur \in Nat
  PROVE  Rollup(s).dur # None <=> Timed(s)
<1>1. PICK f : f = [k \in DOMAIN s |-> s[k].dur]
  OBVIOUS
<1>2. PICK S : S = DOMAIN s
  OBVIOUS
<1>3. f \in [S -> Nat] /\ IsFiniteSet(S)
  BY <1>1, <1>2
<1>4. SumFunction(f) \in Nat
  BY <1>3, SumAtLeast
<1>5. Rollup(s).dur = IF Timed(s) THEN SumFunction(f) ELSE None
  BY <1>1 DEF Rollup, Timed
<1> QED
  BY <1>4, <1>5, NoneIs

LEMMA StatMax ==
  ASSUME NEW s, NEW c, IsFiniteSet(Having(s, c)), Having(s, c) # {},
         \A k \in Having(s, c) : s[k].val[c] \in Nat
  PROVE  /\ Stats(s, c).max \in Nat
         /\ \A k \in Having(s, c) : s[k].val[c] <= Stats(s, c).max
         /\ \E k \in Having(s, c) : Stats(s, c).max = s[k].val[c]
<1>1. PICK S : S = Having(s, c)
  OBVIOUS
<1>2. PICK f : f = [k \in S |-> s[k].val[c]]
  OBVIOUS
<1>3. f \in [S -> Nat] /\ IsFiniteSet(S) /\ S # {}
  BY <1>1, <1>2
<1>4. PICK m : m = Max({f[k] : k \in S})
  OBVIOUS
<1>5. m \in Nat /\ (\A k \in S : f[k] <= m) /\ \E k \in S : m = f[k]
  BY <1>3, <1>4, MaxOver
<1>6. {f[k] : k \in S} = {s[k].val[c] : k \in S}
  BY <1>2
<1>7. Stats(s, c).max = m
  BY <1>1, <1>3, <1>4, <1>6 DEF Stats
<1> QED
  BY <1>1, <1>2, <1>5, <1>7

\* One rollup of all samples, as a row of its own.
Once(ss) == [t \in {0} |-> Rollup(Joined(ss))]
Rows(D, ss, w) == Buckets(D, ss) /\ DOMAIN w = D /\ \A t \in D : w[t] = Rollup(ss[t])
Shown(w, c) == {t \in DOMAIN w : w[t].stats[c].count > 0}

LEMMA OnceIs ==
  ASSUME NEW D, NEW ss, NEW w, Rows(D, ss, w), NEW c \in HostColumns
  PROVE  /\ \A t \in D : w[t].stats[c] = Stats(ss[t], c)
         /\ Once(ss)[0].stats[c] = Stats(Joined(ss), c) /\ DOMAIN Once(ss) = {0}
         /\ IsFiniteSet(Having(Joined(ss), c))
         /\ \A p \in Having(Joined(ss), c) : Joined(ss)[p].val[c] \in Nat
         /\ Shown(w, c) \in SUBSET D /\ \A t \in D : t \in Shown(w, c) <=> Having(ss[t], c) # {}
         /\ Shown(Once(ss), c) = IF Shown(w, c) = {} THEN {} ELSE {0}
         /\ (\A t \in DOMAIN w : w[t].dur # None) <=> \A t \in D : Timed(ss[t])
         /\ (\A t \in DOMAIN Once(ss) : Once(ss)[t].dur # None) <=> \A t \in D : Timed(ss[t])
<1>1. PICK j, one : j = Joined(ss) /\ one = Once(ss)
  OBVIOUS
<1>2. Buckets(D, ss) /\ IsFiniteSet(D) /\ DOMAIN ss = D /\ DOMAIN w = D
      /\ \A t \in D : ss[t] \in Seq(HostSample) /\ w[t] = Rollup(ss[t])
  BY DEF Rows, Buckets
<1>3. DOMAIN one = {0} /\ one[0] = Rollup(j)
  BY <1>1 DEF Once
<1>4. one[0].stats[c] = Stats(j, c) /\ \A t \in D : w[t].stats[c] = Stats(ss[t], c)
  <2>1. \A s : Rollup(s).stats[c] = Stats(s, c)
    BY DEF Rollup
  <2> QED
    BY <1>2, <1>3, <2>1
<1>5. ASSUME NEW t \in D
      PROVE  /\ IsFiniteSet(DOMAIN ss[t]) /\ Having(ss[t], c) \in SUBSET DOMAIN ss[t]
             /\ IsFiniteSet(Having(ss[t], c))
             /\ \A k \in DOMAIN ss[t] : ss[t][k].dur \in Nat
             /\ \A k \in Having(ss[t], c) : ss[t][k].val[c] \in Nat
  <2>1. PICK s : s = ss[t]
    OBVIOUS
  <2>2. s \in Seq(HostSample)
    BY <1>2, <2>1
  <2> QED
    BY <2>1, <2>2, BucketIs
<1>6. PICK H, G : H = [t \in D |-> DOMAIN ss[t]] /\ G = Havings(D, ss, c)
  OBVIOUS
<1>7. /\ DOMAIN H = D /\ \A t \in D : IsFiniteSet(H[t]) /\ H[t] = DOMAIN ss[t]
      /\ DOMAIN G = D /\ \A t \in D : IsFiniteSet(G[t]) /\ G[t] = Having(ss[t], c)
  BY <1>5, <1>6 DEF Havings
<1>8. IsFiniteSet(Numbered(H)) /\ \A p : p \in Numbered(H) <=> \E t \in D : \E k \in H[t] : p = <<t, k>>
  BY <1>2, <1>7, NumberedIs
<1>9. IsFiniteSet(Numbered(G)) /\ \A p : p \in Numbered(G) <=> \E t \in D : \E k \in G[t] : p = <<t, k>>
  BY <1>2, <1>7, NumberedIs
<1>10. Having(j, c) = Numbered(G)
  BY <1>1, <1>2, <1>6, JoinedIs
<1>11. /\ \A p : p \in DOMAIN j <=> \E t \in D : \E k \in DOMAIN ss[t] : p = <<t, k>>
       /\ \A t \in D : \A k \in DOMAIN ss[t] : j[<<t, k>>] = ss[t][k]
  BY <1>1, <1>2, JoinedIs
<1>12. DOMAIN j = Numbered(H)
  BY <1>7, <1>8, <1>11
<1>13. ASSUME NEW p \in DOMAIN j PROVE j[p].dur \in Nat
  <2>1. PICK t \in D : \E k \in DOMAIN ss[t] : p = <<t, k>>
    BY <1>11
  <2>2. PICK k \in DOMAIN ss[t] : p = <<t, k>>
    BY <2>1
  <2>3. j[p] = ss[t][k]
    BY <1>11, <2>2
  <2> QED
    BY <1>5, <2>3
<1>14. ASSUME NEW p \in Having(j, c) PROVE j[p].val[c] \in Nat
  <2>1. PICK t \in D : \E k \in G[t] : p = <<t, k>>
    BY <1>9, <1>10
  <2>2. PICK k \in G[t] : p = <<t, k>>
    BY <2>1
  <2>3. k \in Having(ss[t], c) /\ k \in DOMAIN ss[t]
    BY <1>5, <1>7
  <2>4. j[p] = ss[t][k]
    BY <1>11, <2>2, <2>3
  <2> QED
    BY <1>5, <2>3, <2>4
<1>15. \A t \in D : t \in Shown(w, c) <=> Having(ss[t], c) # {}
  <2>1. ASSUME NEW t \in D PROVE Stats(ss[t], c).count > 0 <=> Having(ss[t], c) # {}
    <3>1. PICK S : S = Having(ss[t], c)
      OBVIOUS
    <3>2. IsFiniteSet(S)
      BY <1>5, <3>1
    <3>3. Cardinality(S) \in Nat /\ (Cardinality(S) = 0 <=> S = {})
      BY <3>2, FS_CardinalityType, FS_EmptySet
    <3>4. Stats(ss[t], c).count = Cardinality(S)
      BY <3>1 DEF Stats
    <3> QED
      BY <3>1, <3>3, <3>4
  <2> QED
    BY <1>2, <1>4, <2>1 DEF Shown
<1>16. Shown(w, c) \in SUBSET D
  BY <1>2 DEF Shown
<1>17. Having(j, c) = {} <=> Shown(w, c) = {}
  <2>1. ASSUME NEW t \in D, Having(ss[t], c) # {} PROVE Numbered(G) # {}
    <3>1. PICK k : k \in G[t]
      BY <1>7, <2>1
    <3> QED
      BY <1>9, <3>1
  <2>2. ASSUME NEW p \in Numbered(G) PROVE \E t \in D : Having(ss[t], c) # {}
    <3>1. PICK t \in D : \E k \in G[t] : p = <<t, k>>
      BY <1>9
    <3> QED
      BY <1>7, <3>1
  <2> QED
    BY <1>10, <1>15, <1>16, <2>1, <2>2
<1>18. Shown(one, c) = IF Shown(w, c) = {} THEN {} ELSE {0}
  <2>1. Cardinality(Having(j, c)) \in Nat /\ (Cardinality(Having(j, c)) = 0 <=> Having(j, c) = {})
    <3>1. PICK S : S = Having(j, c)
      OBVIOUS
    <3>2. IsFiniteSet(S)
      BY <1>9, <1>10, <3>1
    <3> QED
      BY <3>1, <3>2, FS_CardinalityType, FS_EmptySet
  <2>2. Stats(j, c).count = Cardinality(Having(j, c))
    BY DEF Stats
  <2>3. Stats(j, c).count > 0 <=> Shown(w, c) # {}
    BY <1>17, <2>1, <2>2
  <2>4. \A t : t \in Shown(one, c) <=> t = 0 /\ one[0].stats[c].count > 0
    BY <1>3 DEF Shown
  <2> QED
    BY <1>4, <2>3, <2>4
<1>19. (\A t \in DOMAIN w : w[t].dur # None) <=> \A t \in D : Timed(ss[t])
  <2>1. ASSUME NEW t \in D PROVE w[t].dur # None <=> Timed(ss[t])
    <3>1. PICK s : s = ss[t]
      OBVIOUS
    <3>2. IsFiniteSet(DOMAIN s) /\ \A k \in DOMAIN s : s[k].dur \in Nat
      BY <1>5, <3>1
    <3>3. Rollup(s).dur # None <=> Timed(s)
      BY <3>2, DurationIs
    <3> QED
      BY <1>2, <3>1, <3>3
  <2> QED
    BY <1>2, <2>1
<1>20. (\A t \in DOMAIN one : one[t].dur # None) <=> \A t \in D : Timed(ss[t])
  <2>1. IsFiniteSet(DOMAIN j)
    BY <1>8, <1>12
  <2>2. Rollup(j).dur # None <=> Timed(j)
    BY <1>13, <2>1, DurationIs
  <2>3. Timed(j) <=> \A t \in D : Timed(ss[t])
    BY <1>1, <1>2, TimedTogether
  <2> QED
    BY <1>3, <2>2, <2>3
<1>21. IsFiniteSet(Having(j, c))
  BY <1>9, <1>10
<1> QED
  BY <1>1, <1>3, <1>4, <1>14, <1>15, <1>16, <1>18, <1>19, <1>20, <1>21

LEMMA CountOnce ==
  ASSUME NEW D, NEW ss, NEW w, Rows(D, ss, w)
  PROVE  SumFunction([t \in DOMAIN w |-> w[t].n]) = SumFunction([t \in DOMAIN Once(ss) |-> Once(ss)[t].n])
<1>1. PICK j, one : j = Joined(ss) /\ one = Once(ss)
  OBVIOUS
<1>2. Buckets(D, ss) /\ IsFiniteSet(D) /\ DOMAIN w = D
      /\ \A t \in D : ss[t] \in Seq(HostSample) /\ w[t] = Rollup(ss[t])
  BY DEF Rows, Buckets
<1>3. PICK H : H = [t \in D |-> DOMAIN ss[t]]
  OBVIOUS
<1>4. ASSUME NEW t \in D PROVE IsFiniteSet(H[t]) /\ H[t] = DOMAIN ss[t]
  <2>1. PICK s : s = ss[t]
    OBVIOUS
  <2>2. s \in Seq(HostSample) /\ "cpu" \in HostColumns
    BY <1>2, <2>1 DEF HostColumns, HostMetrics
  <2>3. IsFiniteSet(DOMAIN s)
    BY <2>2, BucketIs
  <2> QED
    BY <1>3, <2>1, <2>3
<1>5. DOMAIN H = D
  BY <1>3
<1>6. IsFiniteSet(Numbered(H)) /\ \A p : p \in Numbered(H) <=> \E t \in D : \E k \in H[t] : p = <<t, k>>
  BY <1>2, <1>4, <1>5, NumberedIs
<1>7. \A p : p \in DOMAIN j <=> \E t \in D : \E k \in DOMAIN ss[t] : p = <<t, k>>
  BY <1>1, <1>2, JoinedIs
<1>8. DOMAIN j = Numbered(H)
  BY <1>4, <1>6, <1>7
<1>9. PICK f, e, d : f = [p \in Numbered(H) |-> 1] /\ e = [t \in D |-> [k \in H[t] |-> 1]]
                     /\ d = [t \in D |-> w[t].n]
  OBVIOUS
<1>10. f \in [Numbered(H) -> Nat] /\ SumFunction(f) = Cardinality(Numbered(H))
  BY <1>6, <1>9, CountIsSum
<1>11. ASSUME NEW t \in D
       PROVE  /\ e[t] \in [H[t] -> Nat] /\ \A k \in H[t] : e[t][k] = f[<<t, k>>]
              /\ d[t] \in Nat /\ d[t] = SumFunction(e[t])
  <2>1. e[t] = [k \in H[t] |-> 1]
    BY <1>9
  <2>2. \A k \in H[t] : <<t, k>> \in Numbered(H)
    BY <1>6
  <2>3. \A k \in H[t] : f[<<t, k>>] = 1
    BY <1>9, <2>2
  <2>4. PICK S : S = H[t]
    OBVIOUS
  <2>5. Cardinality(S) \in Nat /\ SumFunction([k \in S |-> 1]) = Cardinality(S)
    BY <1>4, <2>4, CountIsSum, FS_CardinalityType
  <2>6. d[t] = Cardinality(S)
    <3>1. \A r : Rollup(r).n = Cardinality(DOMAIN r)
      BY DEF Rollup
    <3>2. w[t].n = Cardinality(DOMAIN ss[t])
      BY <1>2, <3>1
    <3> QED
      BY <1>4, <1>9, <2>4, <3>2
  <2> QED
    BY <2>1, <2>3, <2>4, <2>5, <2>6
<1>12. SumFunction(f) = SumFunction(d)
  <2>1. d \in [D -> Nat]
    BY <1>9, <1>11
  <2>2. \A t \in D : IsFiniteSet(H[t])
    BY <1>4
  <2>3. \A t \in D : e[t] \in [H[t] -> Nat] /\ \A k \in H[t] : e[t][k] = f[<<t, k>>]
    BY <1>11
  <2>4. \A t \in D : d[t] = SumFunction(e[t])
    BY <1>11
  <2>5. IsFiniteSet(D) /\ f \in [Numbered(H) -> Nat]
    BY <1>2, <1>10
  <2> QED
    BY ONLY <1>5, <2>1, <2>2, <2>3, <2>4, <2>5, SumOfSums
<1>13. one = [t \in {0} |-> Rollup(j)]
  BY <1>1 DEF Once
<1>14. PICK q : q = [t \in {0} |-> one[t].n]
  OBVIOUS
<1>15. q[0] = Cardinality(Numbered(H)) /\ q \in [{0} -> Nat]
  <2>1. Cardinality(Numbered(H)) \in Nat
    BY <1>6, FS_CardinalityType
  <2>2. one[0].n = Cardinality(Numbered(H))
    BY <1>8, <1>13 DEF Rollup
  <2> QED
    BY <1>14, <2>1, <2>2
<1>16. SumFunction(q) = q[0]
  BY <1>15, SumOfOne
<1>17. DOMAIN one = {0}
  BY <1>13
<1> QED
  BY <1>1, <1>2, <1>9, <1>10, <1>12, <1>14, <1>15, <1>16, <1>17

LEMMA SignalsOnce ==
  ASSUME NEW D, NEW ss, NEW w, Rows(D, ss, w), NEW c \in HostColumns
  PROVE  SumFunction([t \in DOMAIN w |-> w[t].stats[c].count])
           = SumFunction([t \in DOMAIN Once(ss) |-> Once(ss)[t].stats[c].count])
<1>1. PICK one : one = Once(ss)
  OBVIOUS
<1>2. Buckets(D, ss) /\ DOMAIN w = D
  BY DEF Rows
<1>3. AddsUp(D, ss, c, "count")
  BY <1>2, StatsAddUp
<1>4. \A t \in D : w[t].stats[c] = Stats(ss[t], c)
  BY OnceIs
<1>5. DOMAIN one = {0} /\ one[0].stats[c] = Stats(Joined(ss), c)
  BY <1>1, OnceIs
<1>6. PICK p : p = [t \in D |-> w[t].stats[c].count]
  OBVIOUS
<1>7. DOMAIN p = D /\ p = [t \in D |-> p[t]] /\ \A t \in D : p[t] = Stats(ss[t], c)["count"]
  BY <1>4, <1>6
<1>8. D \in SUBSET D /\ \A t \in D \ D : Having(ss[t], c) = {}
  OBVIOUS
<1>9. SumFunction(p) = Stats(Joined(ss), c)["count"] /\ Stats(Joined(ss), c)["count"] \in Nat
  BY <1>2, <1>3, <1>7, <1>8, HaveSum
<1>10. PICK q : q = [t \in {0} |-> one[t].stats[c].count]
  OBVIOUS
<1>11. q \in [{0} -> Nat] /\ q[0] = Stats(Joined(ss), c)["count"]
  BY <1>5, <1>9, <1>10
<1>12. SumFunction(q) = q[0]
  BY <1>11, SumOfOne
<1> QED
  BY <1>1, <1>2, <1>5, <1>6, <1>9, <1>10, <1>11, <1>12

\* The sum of a statistic over the rows that have the signal is that of the one row.
LEMMA PartOnce ==
  ASSUME NEW D, NEW ss, NEW w, Rows(D, ss, w), NEW c \in HostColumns, NEW field, AddsUp(D, ss, c, field),
         Shown(w, c) # {},
         NEW p, p = [t \in Shown(w, c) |-> w[t].stats[c][field]],
         NEW q, q = [t \in Shown(Once(ss), c) |-> Once(ss)[t].stats[c][field]]
  PROVE  SumFunction(p) = SumFunction(q)
<1>1. PICK one, h : one = Once(ss) /\ h = Shown(w, c)
  OBVIOUS
<1>2. Buckets(D, ss)
  BY DEF Rows
<1>3. h \in SUBSET D /\ \A t \in D \ h : Having(ss[t], c) = {}
  BY <1>1, OnceIs
<1>4. \A t \in D : w[t].stats[c] = Stats(ss[t], c)
  BY OnceIs
<1>5. DOMAIN p = h /\ p = [t \in h |-> p[t]] /\ \A t \in h : p[t] = Stats(ss[t], c)[field]
  BY <1>1, <1>3, <1>4
<1>6. SumFunction(p) = Stats(Joined(ss), c)[field] /\ Stats(Joined(ss), c)[field] \in Nat
  <2>1. AddsUp(D, ss, c, field)
    OBVIOUS
  <2> QED
    BY ONLY <1>2, <1>3, <1>5, <2>1, HaveSum
<1>7. one[0].stats[c] = Stats(Joined(ss), c)
  BY <1>1, OnceIs
<1>8. Shown(one, c) = {0}
  BY <1>1, OnceIs
<1>9. q \in [{0} -> Nat] /\ q[0] = Stats(Joined(ss), c)[field]
  BY <1>1, <1>6, <1>7, <1>8
<1>10. SumFunction(q) = q[0]
  BY <1>9, SumOfOne
<1> QED
  BY <1>6, <1>9, <1>10

LEMMA AverageOnce ==
  ASSUME NEW D, NEW ss, NEW w, Rows(D, ss, w), NEW c \in HostColumns
  PROVE  HostAvg(w, c) = HostAvg(Once(ss), c)
<1>1. PICK one : one = Once(ss)
  OBVIOUS
<1>2. Buckets(D, ss)
  BY DEF Rows
<1>3. Shown(one, c) = {} <=> Shown(w, c) = {}
  BY <1>1, OnceIs
<1>4. AddsUp(D, ss, c, "count") /\ AddsUp(D, ss, c, "sampleSum")
      /\ ((\A t \in D : Timed(ss[t])) => AddsUp(D, ss, c, "sum") /\ AddsUp(D, ss, c, "weight"))
  BY <1>2, StatsAddUp
<1>5. CASE Shown(w, c) = {}
  BY <1>1, <1>3, <1>5 DEF HostAvg, Shown
<1>6. CASE Shown(w, c) # {} /\ \A t \in D : Timed(ss[t])
  <2>1. (\A t \in DOMAIN w : w[t].dur # None) /\ (\A t \in DOMAIN one : one[t].dur # None)
    BY <1>1, <1>6, OnceIs
  <2>2. \A r : Shown(r, c) # {} /\ (\A t \in DOMAIN r : r[t].dur # None) =>
          HostAvg(r, c) = SumFunction([t \in Shown(r, c) |-> r[t].stats[c]["sum"]])
                            \div SumFunction([t \in Shown(r, c) |-> r[t].stats[c]["weight"]])
    BY DEF HostAvg, Shown
  <2>3. PICK p, q, a, b :
          /\ p = [t \in Shown(w, c) |-> w[t].stats[c]["sum"]]
          /\ q = [t \in Shown(Once(ss), c) |-> Once(ss)[t].stats[c]["sum"]]
          /\ a = [t \in Shown(w, c) |-> w[t].stats[c]["weight"]]
          /\ b = [t \in Shown(Once(ss), c) |-> Once(ss)[t].stats[c]["weight"]]
    OBVIOUS
  <2>4. SumFunction(p) = SumFunction(q)
    BY <1>4, <1>6, <2>3, PartOnce
  <2>5. SumFunction(a) = SumFunction(b)
    BY <1>4, <1>6, <2>3, PartOnce
  <2>6. HostAvg(w, c) = SumFunction(p) \div SumFunction(a)
    BY <1>6, <2>1, <2>2, <2>3
  <2>7. HostAvg(one, c) = SumFunction(q) \div SumFunction(b)
    BY <1>1, <1>3, <1>6, <2>1, <2>2, <2>3
  <2> QED
    BY <1>1, <2>4, <2>5, <2>6, <2>7
<1>7. CASE Shown(w, c) # {} /\ ~ \A t \in D : Timed(ss[t])
  <2>1. (~ \A t \in DOMAIN w : w[t].dur # None) /\ (~ \A t \in DOMAIN one : one[t].dur # None)
    BY <1>1, <1>7, OnceIs
  <2>2. \A r : Shown(r, c) # {} /\ (~ \A t \in DOMAIN r : r[t].dur # None) =>
          HostAvg(r, c) = SumFunction([t \in Shown(r, c) |-> r[t].stats[c]["sampleSum"]])
                            \div SumFunction([t \in Shown(r, c) |-> r[t].stats[c]["count"]])
    BY DEF HostAvg, Shown
  <2>3. PICK p, q, a, b :
          /\ p = [t \in Shown(w, c) |-> w[t].stats[c]["sampleSum"]]
          /\ q = [t \in Shown(Once(ss), c) |-> Once(ss)[t].stats[c]["sampleSum"]]
          /\ a = [t \in Shown(w, c) |-> w[t].stats[c]["count"]]
          /\ b = [t \in Shown(Once(ss), c) |-> Once(ss)[t].stats[c]["count"]]
    OBVIOUS
  <2>4. SumFunction(p) = SumFunction(q)
    BY <1>4, <1>7, <2>3, PartOnce
  <2>5. SumFunction(a) = SumFunction(b)
    BY <1>4, <1>7, <2>3, PartOnce
  <2>6. HostAvg(w, c) = SumFunction(p) \div SumFunction(a)
    BY <1>7, <2>1, <2>2, <2>3
  <2>7. HostAvg(one, c) = SumFunction(q) \div SumFunction(b)
    BY <1>1, <1>3, <1>7, <2>1, <2>2, <2>3
  <2> QED
    BY <1>1, <2>4, <2>5, <2>6, <2>7
<1> QED
  BY <1>5, <1>6, <1>7

LEMMA MaximumOnce ==
  ASSUME NEW D, NEW ss, NEW w, Rows(D, ss, w), NEW c \in HostColumns
  PROVE  HostMax(w, c) = HostMax(Once(ss), c)
<1>1. PICK one, j, h : one = Once(ss) /\ j = Joined(ss) /\ h = Shown(w, c)
  OBVIOUS
<1>2. Buckets(D, ss) /\ IsFiniteSet(D) /\ \A t \in D : ss[t] \in Seq(HostSample)
  BY DEF Rows, Buckets
<1>3. Shown(one, c) = IF h = {} THEN {} ELSE {0}
  BY <1>1, OnceIs
<1>4. \A t \in D : w[t].stats[c] = Stats(ss[t], c)
  BY OnceIs
<1>5. one[0].stats[c] = Stats(j, c)
  BY <1>1, OnceIs
<1>6. h \in SUBSET D /\ \A t \in D : t \in h <=> Having(ss[t], c) # {}
  BY <1>1, OnceIs
<1>7. \A r : HostMax(r, c) = IF Shown(r, c) = {} THEN None ELSE Max({r[t].stats[c].max : t \in Shown(r, c)})
  BY DEF HostMax, Shown
<1>8. CASE h = {}
  BY <1>1, <1>3, <1>7, <1>8
<1>9. CASE h # {}
  <2>1. ASSUME NEW t \in h
        PROVE  /\ Stats(ss[t], c).max \in Nat
               /\ \A k \in Having(ss[t], c) : ss[t][k].val[c] <= Stats(ss[t], c).max
               /\ \E k \in Having(ss[t], c) : Stats(ss[t], c).max = ss[t][k].val[c]
               /\ Having(ss[t], c) \in SUBSET DOMAIN ss[t]
    <3>1. PICK s : s = ss[t]
      OBVIOUS
    <3>2. s \in Seq(HostSample) /\ Having(s, c) # {}
      BY <1>2, <1>6, <3>1
    <3>3. /\ IsFiniteSet(Having(s, c)) /\ Having(s, c) \in SUBSET DOMAIN s
          /\ \A k \in Having(s, c) : s[k].val[c] \in Nat
      BY <3>2, BucketIs
    <3> QED
      BY <3>1, <3>2, <3>3, StatMax
  <2>2. ASSUME NEW t \in D, NEW k \in DOMAIN ss[t] PROVE <<t, k>> \in DOMAIN j /\ j[<<t, k>>] = ss[t][k]
    BY <1>1, <1>2, JoinedIs
  <2>3. ASSUME NEW t \in h, NEW k \in Having(ss[t], c)
        PROVE  <<t, k>> \in Having(j, c) /\ j[<<t, k>>] = ss[t][k]
    <3>1. t \in D /\ k \in DOMAIN ss[t] /\ ss[t][k].val[c] # None
      BY <1>6, <2>1 DEF Having
    <3> QED
      BY <2>2, <3>1 DEF Having
  <2>4. ASSUME NEW p \in Having(j, c)
        PROVE  \E t \in h : \E k \in Having(ss[t], c) : p = <<t, k>>
    <3>1. p \in DOMAIN j /\ j[p].val[c] # None
      BY DEF Having
    <3>2. PICK t \in D : \E k \in DOMAIN ss[t] : p = <<t, k>>
      BY <1>1, <1>2, <3>1, JoinedIs
    <3>3. PICK k \in DOMAIN ss[t] : p = <<t, k>>
      BY <3>2
    <3>4. k \in Having(ss[t], c)
      BY <2>2, <3>1, <3>3 DEF Having
    <3>5. t \in h
      BY <1>6, <3>4
    <3> QED
      BY <3>3, <3>4, <3>5
  <2>5. Having(j, c) # {}
    <3>1. PICK t \in h : TRUE
      BY <1>9
    <3>2. PICK k \in Having(ss[t], c) : TRUE
      BY <2>1
    <3> QED
      BY <2>3
  <2>6. PICK M : M = Stats(j, c).max
    OBVIOUS
  <2>7. /\ M \in Nat
        /\ \A p \in Having(j, c) : j[p].val[c] <= M
        /\ \E p \in Having(j, c) : M = j[p].val[c]
    <3>1. IsFiniteSet(Having(j, c)) /\ \A p \in Having(j, c) : j[p].val[c] \in Nat
      BY <1>1, OnceIs
    <3> QED
      BY <2>5, <2>6, <3>1, StatMax
  <2>8. PICK f : f = [t \in h |-> w[t].stats[c].max]
    OBVIOUS
  <2>9. \A t \in h : f[t] = Stats(ss[t], c).max
    BY <1>4, <1>6, <2>8
  <2>10. f \in [h -> Nat]
    BY <2>1, <2>8, <2>9
  <2>11. PICK m : m = Max({f[t] : t \in h})
    OBVIOUS
  <2>12. m \in Nat /\ (\A t \in h : f[t] <= m) /\ \E t \in h : m = f[t]
    <3>1. IsFiniteSet(h)
      BY <1>2, <1>6, FS_Subset
    <3> QED
      BY <1>9, <2>10, <2>11, <3>1, MaxOver
  <2>13. M <= m
    <3>1. PICK p \in Having(j, c) : M = j[p].val[c]
      BY <2>7
    <3>2. PICK t \in h : \E k \in Having(ss[t], c) : p = <<t, k>>
      BY <2>4
    <3>3. PICK k \in Having(ss[t], c) : p = <<t, k>>
      BY <3>2
    <3>4. M = ss[t][k].val[c]
      BY <2>3, <3>1, <3>3
    <3>5. M <= f[t] /\ f[t] <= m /\ f[t] \in Nat
      BY <2>1, <2>9, <2>12, <3>4
    <3> QED
      BY <2>7, <2>12, <3>5
  <2>14. m <= M
    <3>1. PICK t \in h : m = f[t]
      BY <2>12
    <3>2. PICK k \in Having(ss[t], c) : f[t] = ss[t][k].val[c]
      BY <2>1, <2>9
    <3>3. <<t, k>> \in Having(j, c) /\ j[<<t, k>>].val[c] = m
      BY <2>3, <3>1, <3>2
    <3> QED
      BY <2>7, <3>3
  <2>15. HostMax(w, c) = m
    <3>1. {f[t] : t \in h} = {w[t].stats[c].max : t \in h}
      BY <2>8
    <3> QED
      BY <1>1, <1>7, <1>9, <2>11, <3>1
  <2>16. HostMax(one, c) = M
    <3>1. PICK g : g = [t \in {0} |-> M]
      OBVIOUS
    <3>2. g \in [{0} -> Nat] /\ IsFiniteSet({0}) /\ {0} # {}
      BY <2>7, <3>1, FS_Singleton
    <3>3. PICK n : n = Max({g[t] : t \in {0}})
      OBVIOUS
    <3>4. \E t \in {0} : n = g[t]
      BY <3>2, <3>3, MaxOver
    <3>5. n = M
      BY <3>1, <3>4
    <3>6. {one[t].stats[c].max : t \in {0}} = {g[t] : t \in {0}}
      BY <1>5, <2>6, <3>1
    <3>7. Shown(one, c) = {0}
      BY <1>3, <1>9
    <3> QED
      BY <1>7, <3>2, <3>3, <3>5, <3>6, <3>7
  <2> QED
    BY <1>1, <2>7, <2>12, <2>13, <2>14, <2>15, <2>16
<1> QED
  BY <1>8, <1>9

\* Splitting samples into rows changes nothing that a page reads.
LEMMA WindowOnce ==
  ASSUME NEW D, NEW ss, NEW w, Rows(D, ss, w)
  PROVE  HostWindow(w) = HostWindow(Once(ss))
<1>1. SumFunction([t \in DOMAIN w |-> w[t].n]) = SumFunction([t \in DOMAIN Once(ss) |-> Once(ss)[t].n])
  BY CountOnce
<1>2. [c \in HostColumns |-> HostAvg(w, c)] = [c \in HostColumns |-> HostAvg(Once(ss), c)]
  BY AverageOnce
<1>3. [c \in HostColumns |-> HostMax(w, c)] = [c \in HostColumns |-> HostMax(Once(ss), c)]
  BY MaximumOnce
<1>4. [c \in HostColumns |-> SumFunction([t \in DOMAIN w |-> w[t].stats[c].count])]
        = [c \in HostColumns |-> SumFunction([t \in DOMAIN Once(ss) |-> Once(ss)[t].stats[c].count])]
  BY SignalsOnce
<1> QED
  BY <1>1, <1>2, <1>3, <1>4 DEF HostWindow

LEMMA DaysExact == Inv => HostWindowExact
<1> SUFFICES ASSUME Inv, NEW i \in Instances PROVE
      LET day == {t \in DOMAIN rolls[i] : clock - t <= Day}
          once == Rollup(Joined(Restrict(samples[i], day)))
      IN HostWindow(Window(rolls[i], clock - Day, clock)) = HostWindow([t \in {0} |-> once])
  BY DEF HostWindowExact
<1>1. PICK ro, ss, now : ro = rolls[i] /\ ss = samples[i] /\ now = clock
  OBVIOUS
<1>2. PICK day : day = {t \in DOMAIN ro : now - t <= Day}
  OBVIOUS
<1>3. PICK part, w : part = Restrict(ss, day) /\ w = Window(ro, now - Day, now)
  OBVIOUS
<1>4. now \in Nat /\ DOMAIN ss = DOMAIN ro /\ DOMAIN ro \subseteq 0 .. now
      /\ \A t \in DOMAIN ss : ss[t] \in Seq(HostSample) \ {<<>>} /\ ro[t] = Rollup(ss[t])
  BY <1>1 DEF Inv, HostInv, Rolled
<1>5. IsFiniteSet(day)
  <2>1. IsFiniteSet(0 .. now)
    BY <1>4, FS_Interval
  <2>2. day \in SUBSET (0 .. now)
    BY <1>2, <1>4
  <2> QED
    BY <2>1, <2>2, FS_Subset
<1>6. DOMAIN part = day /\ \A t \in day : part[t] = ss[t] /\ t \in DOMAIN ss
  BY <1>2, <1>3, <1>4 DEF Restrict
<1>7. DOMAIN w = day /\ \A t \in day : w[t] = ro[t]
  <2>1. DOMAIN w = {u \in DOMAIN ro : now - Day <= u /\ u <= now} /\ \A t \in DOMAIN w : w[t] = ro[t]
    BY <1>3 DEF Window
  <2>2. \A u \in DOMAIN ro : now - Day <= u /\ u <= now <=> now - u <= Day
    BY <1>4, WindowAssumption
  <2> QED
    BY <1>2, <2>1, <2>2
<1>8. Rows(day, part, w)
  BY <1>4, <1>5, <1>6, <1>7 DEF Rows, Buckets
<1>9. HostWindow(w) = HostWindow(Once(part))
  BY <1>8, WindowOnce
<1> QED
  BY <1>1, <1>2, <1>3, <1>9 DEF Once

\* What a host page says of a day is what one rollup of the day's samples would
\* say, for any reports and any windows (HostWindowExact, for all constants).
THEOREM HostWindowsAreExact == Spec => []HostWindowExact
  BY InitHolds, NextHolds, DaysExact, PTL DEF Spec


-----------------------------------------------------------------------------
(* One batch, two judges *)

LEMMA P99Is ==
  ASSUME NEW n \in Nat, n > 0, NEW ms \in [1 .. n -> Nat]
  PROVE  P99(ms) \in Int
<1>1. Len(ms) = n /\ IsFiniteSet(1 .. n) /\ Cardinality(1 .. n) = n /\ 1 .. n # {}
  <2>1. ms \in Seq(Nat)
    BY SeqDef
  <2>2. Len(ms) = n
    BY <2>1, LenProperties
  <2>3. IsFiniteSet(1 .. n) /\ Cardinality(1 .. n) = n
    BY FS_Interval
  <2> QED
    BY <2>2, <2>3
<1>2. PICK k : k = (n - 1) * 99
  OBVIOUS
<1>3. k \in Nat /\ k \div 100 \in Nat /\ k \div 100 <= n - 1
  <2>1. k \in Nat /\ k <= 99 * (n - 1)
    BY <1>2
  <2>2. k \div 100 \in Nat /\ 100 * (k \div 100) <= k
    BY <2>1, Quotient
  <2> QED
    BY <2>1, <2>2
<1>4. PICK low : low = Ranked(ms, k \div 100 + 1)
  OBVIOUS
<1>5. PICK high : high = Ranked(ms, Least(k \div 100 + 2, n))
  OBVIOUS
<1>6. low \in Nat
  <2>1. k \div 100 + 1 \in Nat /\ k \div 100 + 1 <= Cardinality(1 .. n)
    BY <1>1, <1>3
  <2> QED
    BY <1>1, <1>4, <2>1, RankedIs
<1>7. high \in Nat
  <2>1. PICK a : a = k \div 100 + 2
    OBVIOUS
  <2>2. a \in Nat
    BY <1>3, <2>1
  <2>3. Least(a, n) \in Nat /\ Least(a, n) <= Cardinality(1 .. n)
    BY <1>1, <2>2, OrderedPair
  <2> QED
    BY <1>1, <1>5, <2>1, <2>3, RankedIs
<1>8. P99(ms) = low + ((high - low) * (k % 100)) \div 100
  BY <1>1, <1>2, <1>4, <1>5 DEF P99
<1> QED
  BY <1>3, <1>6, <1>7, <1>8

\* The average heap after pauses is no more than the peak.
LEMMA HeapIs ==
  ASSUME NEW b \in GcBatch, HeapObserved(b), NEW m, m = Analyze(b)
  PROVE  m.heap \in Nat /\ m.peak \in Nat /\ m.heap <= m.peak
<1>1. PICK S, f : S = DOMAIN After(b) /\ f = After(b)
  OBVIOUS
<1>2. IsFiniteSet(S) /\ f \in [S -> Nat] /\ S # {}
  BY <1>1, AfterIs DEF HeapObserved
<1>3. PICK M : M = Max({0} \cup {f[x] : x \in S})
  OBVIOUS
<1>4. M \in Nat /\ \A x \in S : f[x] <= M
  BY <1>2, <1>3, MaxOfImage
<1>5. PICK n : n = Cardinality(S)
  OBVIOUS
<1>6. n \in Nat /\ n > 0
  BY <1>2, <1>5, FS_CardinalityType, FS_EmptySet
<1>7. PICK sum : sum = SumFunction(f)
  OBVIOUS
<1>8. sum \in Nat /\ sum <= M * n
  BY <1>2, <1>4, <1>5, <1>7, SumAtLeast, SumWithin
<1>9. PICK q : q = sum \div n
  OBVIOUS
<1>10. q \in Nat /\ n * q <= sum
  BY <1>6, <1>8, <1>9, Quotient
<1>11. q <= M
  <2>1. SUFFICES ASSUME M + 1 <= q PROVE FALSE
    BY <1>4, <1>10
  <2>2. n * (M + 1) <= n * q
    BY <1>4, <1>6, <1>10, <2>1
  <2>3. n * (M + 1) = M * n + n
    BY <1>4, <1>6
  <2>4. M * n \in Nat /\ n * q \in Nat
    BY <1>4, <1>6, <1>10
  <2> QED
    BY <1>6, <1>8, <1>10, <2>2, <2>3, <2>4
<1>12. b.heapMax \in Nat /\ b.heapMax > 0
  BY PausesAre DEF HeapObserved
<1>13. Most(1, n) = n
  <2>1. Most(1, n) \in {1, n} /\ 1 <= Most(1, n) /\ n <= Most(1, n)
    BY <1>6, OrderedPair
  <2> QED
    BY <1>6, <2>1
<1>14. m.heap = (1000 * q) \div b.heapMax
  BY <1>1, <1>5, <1>7, <1>9, <1>13 DEF Analyze
<1>15. m.peak = (1000 * M) \div b.heapMax
  <2>1. Range(f) = {f[x] : x \in S}
    BY <1>2 DEF Range
  <2>2. m.peak = (1000 * Max({0} \cup Range(f))) \div b.heapMax
    BY <1>1 DEF Analyze
  <2> QED
    BY <1>3, <2>1, <2>2
<1>16. PICK u, v : u = 1000 * q /\ v = 1000 * M
  OBVIOUS
<1>17. u \in Nat /\ v \in Nat /\ u <= v
  BY <1>4, <1>10, <1>11, <1>16
<1>18. u \div b.heapMax \in Nat /\ v \div b.heapMax \in Nat /\ u \div b.heapMax <= v \div b.heapMax
  BY <1>12, <1>17, Quotient, QuotientMonotone
<1> QED
  BY <1>14, <1>15, <1>16, <1>18

\* The other metrics of a batch with a pause.
LEMMA MetricsAre ==
  ASSUME NEW b \in GcBatch, b.stw # <<>>, NEW m, m = Analyze(b)
  PROVE  /\ m.p99 \in Int /\ m.young \in Nat
         /\ m.heapObserved = HeapObserved(b)
         /\ RatesAvailable(b) => m.thr \in Nat /\ m.tig \in Nat /\ m.freq \in Nat
         /\ ~RatesAvailable(b) => m.thr = None
<1>1. PICK n : n = Len(b.stw)
  OBVIOUS
<1>2. PICK D : D = DOMAIN b.stw
  OBVIOUS
<1>3. n \in Nat /\ n > 0 /\ D = 1 .. n /\ IsFiniteSet(D) /\ Cardinality(D) = n
      /\ \A k \in D : b.stw[k] \in GcPause
  BY <1>1, <1>2, PausesAre
<1>4. PICK ms : ms = [k \in D |-> b.stw[k].ms]
  OBVIOUS
<1>5. ms \in [D -> Nat] /\ ms \in [1 .. n -> Nat]
  BY <1>3, <1>4 DEF GcPause
<1>6. Len(ms) = n
  <2>1. ms \in Seq(Nat)
    BY <1>3, <1>5, SeqDef
  <2> QED
    BY <1>3, <1>5, <2>1, LenProperties
<1>7. m.p99 \in Int
  <2>1. m.p99 = P99(ms)
    BY <1>2, <1>4 DEF Analyze
  <2> QED
    BY <1>3, <1>5, <2>1, P99Is
<1>8. m.young \in Nat
  <2>1. PICK F : F = {k \in D : b.stw[k].full}
    OBVIOUS
  <2>2. m.young = n - Cardinality(F)
    BY <1>2, <1>4, <1>6, <2>1 DEF Analyze
  <2>3. Cardinality(F) \in Nat /\ Cardinality(F) <= n
    BY <1>3, <2>1, FS_Subset, FS_CardinalityType
  <2> QED
    BY <1>3, <2>2, <2>3
<1>9. PICK total \in Nat : total = SumFunction(ms)
  BY <1>3, <1>5, SumAtLeast
<1>10. RatesAvailable(b) => m.thr \in Nat /\ m.tig \in Nat /\ m.freq \in Nat
  <2> SUFFICES ASSUME RatesAvailable(b) PROVE m.thr \in Nat /\ m.tig \in Nat /\ m.freq \in Nat
    OBVIOUS
  <2>1. b.span \in Nat /\ b.span > 0
    BY PausesAre DEF RatesAvailable, MinRateSpan
  <2>2. m.thr \in Nat
    <3>1. m.thr \in Number /\ m.thr # None
      <4>1. m.thr = Most(0, 1000 - total \div b.span)
        BY <1>2, <1>4, <1>9 DEF Analyze
      <4>2. PICK a \in Int : a = 1000 - total \div b.span
        BY <2>1
      <4>3. 0 \in Int /\ a \in Int
        OBVIOUS
      <4>4. Most(0, a) \in {0, a} /\ 0 <= Most(0, a)
        BY <4>3, MaxOfTwo, Zenon DEF Most
      <4> QED
        BY <4>1, <4>2, <4>4, NoneIs DEF Number
    <3> QED
      BY <3>1, NoneIs
  <2>3. m.tig = total \div b.span
    BY <1>2, <1>4, <1>9 DEF Analyze
  <2>4. m.freq = (600 * n) \div b.span
    BY <1>2, <1>4, <1>6 DEF Analyze
  <2>5. PICK a : a = 600 * n
    OBVIOUS
  <2>6. a \in Nat
    BY <1>3, <2>5
  <2>7. total \div b.span \in Nat /\ a \div b.span \in Nat
    BY <2>1, <2>6, Quotient
  <2> QED
    BY <2>2, <2>3, <2>4, <2>5, <2>7
<1>11. ~RatesAvailable(b) => m.thr = None
  BY DEF Analyze
<1>12. m.heapObserved = HeapObserved(b)
  BY DEF Analyze
<1> QED
  BY <1>7, <1>8, <1>10, <1>11, <1>12

\* Aggregates over a single row.
LEMMA OneRow ==
  ASSUME NEW w, NEW t, DOMAIN w = {t}, NEW c
  PROVE  /\ w[t][c] \in Int => AggMax(w, c) = w[t][c]
         /\ w[t][c] \in Nat => AggSum(w, c) = w[t][c] /\ AggAvg(w, c) = w[t][c]
<1>1. PICK v : v = w[t][c]
  OBVIOUS
<1>2. ASSUME v \in Int PROVE Observed(w, c) = {t}
  BY <1>1, <1>2, NoneIs DEF Observed
<1>3. ASSUME v \in Int PROVE AggMax(w, c) = v
  <2>1. IsFiniteSet({v})
    BY FS_Singleton
  <2>2. {v} \subseteq Int /\ {v} # {}
    BY <1>3, Zenon
  <2>3. Max({v}) \in {v}
    BY <2>1, <2>2, MaxExists, Zenon
  <2>4. {w[u][c] : u \in Observed(w, c)} = {v}
    BY <1>1, <1>2, <1>3
  <2> QED
    BY <1>2, <1>3, <2>3, <2>4 DEF AggMax
<1>4. ASSUME v \in Nat PROVE AggSum(w, c) = v /\ AggAvg(w, c) = v
  <2>1. PICK f : f = [u \in {t} |-> w[u][c]]
    OBVIOUS
  <2>2. f \in [{t} -> Nat] /\ f[t] = v
    BY <1>1, <1>4, <2>1
  <2>3. Observed(w, c) = {t} /\ {t} # {}
    BY <1>2, <1>4
  <2>4. AggSum(w, c) = SumFunction(f)
    BY <2>1, <2>3 DEF AggSum
  <2>5. SumFunction(f) = v
    BY <2>2, SumOfOne
  <2>6. Cardinality({t}) = 1
    BY FS_Singleton
  <2>7. AggAvg(w, c) = v \div 1
    BY <2>3, <2>4, <2>5, <2>6 DEF AggAvg
  <2>8. v \div 1 = v
    BY <1>4
  <2> QED
    BY <2>4, <2>5, <2>7, <2>8
<1> QED
  BY <1>1, <1>3, <1>4


\* The store's score is the log's, or None as the log's, but for a spared peak.
Alike(m, store) ==
  LET spared == IF m.peak > HighHeapUse /\ m.heap <= HighHeapUse THEN HeapPenalty(m) ELSE 0
      log == HealthScore(m).score
  IN IF log = None THEN store = None ELSE store \in log .. log + spared

\* The verdict of the store differs in the peak only.
LEMMA SparedPeak ==
  ASSUME NEW m, NEW s, {m.thr, m.full, m.heap, m.peak} \subseteq Nat, {m.max, m.p99} \subseteq Int,
         m.heapObserved, s.heapObserved, m.heap <= m.peak,
         s.thr = m.thr, s.full = m.full, s.max = m.max, s.p99 = m.p99, s.heap = m.heap, s.peak = m.heap
  PROVE  Alike(m, HealthScore(s).score)
<1>1. PICK spared : spared = IF m.peak > HighHeapUse /\ m.heap <= HighHeapUse THEN HeapPenalty(m) ELSE 0
  OBVIOUS
<1>2. PICK thr, full, pause :
        thr = ThroughputPenalty(m) /\ full = FullPenalty(m) /\ pause = PausePenalty(m)
  OBVIOUS
<1>3. thr = ThroughputPenalty(s) /\ full = FullPenalty(s) /\ pause = PausePenalty(s)
  BY <1>2 DEF ThroughputPenalty, FullPenalty, PausePenalty
<1>4. \A a, b \in Int : Most(a, b) \in {a, b} /\ a <= Most(a, b) /\ b <= Most(a, b)
  BY MaxOfTwo, Zenon DEF Most
<1>5. \A a, b \in Int : Least(a, b) \in {a, b}
  BY MinOfTwo, Zenon DEF Least
<1>6. thr \in Int
  <2>1. PICK a : a = TargetThroughput - m.thr
    OBVIOUS
  <2>2. a \in Int
    BY <2>1 DEF TargetThroughput
  <2>3. Most(0, a) \in Int
    BY <1>4, <2>2
  <2>4. PICK d : d = Most(0, a) * 7
    OBVIOUS
  <2>5. d \in Int
    BY <2>3, <2>4
  <2>6. Least(350, d) \in Int
    BY <1>5, <2>5
  <2> QED
    BY <1>2, <2>1, <2>4, <2>6 DEF ThroughputPenalty
<1>7. full \in Int
  <2>1. PICK a : a = 80 + m.full * 30
    OBVIOUS
  <2>2. a \in Int
    BY <2>1
  <2>3. Least(250, a) \in Int
    BY <1>5, <2>2
  <2> QED
    BY <1>2, <2>1, <2>3 DEF FullPenalty
<1>8. pause \in Int
  BY <1>2 DEF PausePenalty
<1>9. HeapPenalty(m) = HeapPenalty(s) + spared /\ HeapPenalty(s) \in Nat /\ spared \in Nat
  BY <1>1 DEF HeapPenalty, HighHeapUse
<1>10. PICK x, y : x = 1000 - thr - pause - full - HeapPenalty(m) /\ y = 1000 - thr - pause - full - HeapPenalty(s)
  OBVIOUS
<1>11. x \in Int /\ y \in Int /\ y = x + spared
  BY <1>6, <1>7, <1>8, <1>9, <1>10
<1>12. None \notin Int
  BY NoneIs
<1>13. HealthScore(m).score = Most(0, x)
  <2>1. ~(m.thr = None \/ ~m.heapObserved \/ \E c \in {"max", "p99", "full", "peak", "heap"} : m[c] = None)
    BY <1>12
  <2> QED
    BY <1>2, <1>10, <2>1 DEF HealthScore
<1>14. HealthScore(s).score = Most(0, y)
  <2>1. ~(s.thr = None \/ ~s.heapObserved \/ \E c \in {"max", "p99", "full", "peak", "heap"} : s[c] = None)
    BY <1>12
  <2> QED
    BY <1>3, <1>10, <2>1 DEF HealthScore
<1>15. Most(0, x) \in {0, x} /\ 0 <= Most(0, x) /\ x <= Most(0, x)
  BY <1>4, <1>11
<1>16. Most(0, y) \in {0, y} /\ 0 <= Most(0, y) /\ y <= Most(0, y)
  BY <1>4, <1>11
<1>17. Most(0, x) \in Int /\ Most(0, y) \in Int
  BY <1>11, <1>15, <1>16
<1>18. Most(0, x) <= Most(0, y) /\ Most(0, y) <= Most(0, x) + spared
  BY <1>9, <1>11, <1>15, <1>16
<1>19. Most(0, y) \in Most(0, x) .. Most(0, x) + spared
  BY <1>9, <1>17, <1>18
<1> QED
  BY <1>1, <1>12, <1>13, <1>14, <1>17, <1>19 DEF Alike

\* What the store says of a batch alone, collected now and complete.
LEMMA StoreSays ==
  ASSUME NEW now \in Nat, NEW b \in GcBatch, b.stw # <<>>, HeapObserved(b), NEW m, m = Analyze(b),
         NEW r, DOMAIN r = {now}, r[now] = RowOf(m),
         NEW o, DOMAIN o \subseteq 0 .. now, now \in DOMAIN o, o[now] = OutcomeOf(b), NEW role
  PROVE  Alike(m, Snapshot(r, o, role, now).health.score)
<1>1. /\ {m.full, m.max, m.avg} \subseteq Nat
      /\ m.p99 \in Int /\ m.young \in Nat /\ m.heapObserved
      /\ RatesAvailable(b) => m.thr \in Nat /\ m.tig \in Nat /\ m.freq \in Nat
      /\ ~RatesAvailable(b) => m.thr = None
  BY AnalyzeIs, MetricsAre
<1>2. m.heap \in Nat /\ m.peak \in Nat /\ m.heap <= m.peak
  BY HeapIs
<1>3. None \notin Int
  BY NoneIs
<1>4. LatestAt(r, now) = now /\ LatestAt(o, now) = now /\ now # None
  <2>1. \A f : DOMAIN f \subseteq 0 .. now /\ now \in DOMAIN f => LatestAt(f, now) = now
    <3> SUFFICES ASSUME NEW f, DOMAIN f \subseteq 0 .. now, now \in DOMAIN f PROVE LatestAt(f, now) = now
      OBVIOUS
    <3>1. DOMAIN f # {} => /\ LatestAt(f, now) \in DOMAIN f /\ LatestAt(f, now) \in Nat
                           /\ \A t \in DOMAIN f : t <= LatestAt(f, now)
      BY NewestIs
    <3>2. LatestAt(f, now) \in 0 .. now /\ now <= LatestAt(f, now)
      BY <3>1
    <3> QED
      BY <3>2
  <2>2. now # None
    BY <1>3
  <2>3. DOMAIN r \subseteq 0 .. now /\ now \in DOMAIN r
    OBVIOUS
  <2> QED
    BY <2>1, <2>2, <2>3, Zenon
<1>5. \A c \in Columns : r[now][c] = m[c]
  BY DEF RowOf
<1>6. PICK has : has = {c \in Columns : m[c] # None}
  OBVIOUS
<1>7. GcSource(r, now) = SourceQuality(now, has, {}, Columns, MaxAge, now)
  <2>1. {c \in Columns : r[now][c] # None} = has
    BY <1>5, <1>6
  <2> QED
    BY <1>4, <2>1 DEF GcSource
<1>8. ~(now - now > MaxAge) /\ now # None
  BY <1>3, WindowAssumption
<1>9. PICK q : q = GcQuality(r, o, now)
  OBVIOUS
<1>10. PICK w : w = Window(r, now - Day, now)
  OBVIOUS
<1>11. PICK s : s = WindowMetrics(w)
  OBVIOUS
<1>12. CASE ~RatesAvailable(b)
  <2>1. HealthScore(m).score = None
    BY <1>1, <1>12 DEF HealthScore, UnknownHealth
  <2>2. "thr" \in Columns /\ "thr" \notin has
    BY <1>1, <1>6, <1>12 DEF Columns
  <2>3. GcSource(r, now) # "fresh"
    BY <1>7, <1>8, <2>2 DEF SourceQuality
  <2>4. q # "fresh"
    BY <1>9, <2>3 DEF GcQuality
  <2>5. Snapshot(r, o, role, now).health = UnknownHealth
    BY <1>9, <2>4 DEF Snapshot
  <2> QED
    BY <2>1, <2>5 DEF Alike, UnknownHealth
<1>13. CASE RatesAvailable(b)
  <2>1. /\ m.thr \in Nat /\ m.tig \in Nat /\ m.freq \in Nat
        /\ o[now] = "complete"
    BY <1>1, <1>13 DEF RatesAvailable, OutcomeOf
  <2>2. \A c \in Columns : m[c] \in Int
    BY <1>1, <1>2, <2>1 DEF Columns
  <2>3. has = Columns
    BY <1>3, <1>6, <2>2
  <2>4. GcSource(r, now) = "fresh"
    <3>1. has \cap Columns # {} /\ Columns \subseteq has /\ {} \cap Columns = {}
      BY <2>3 DEF Columns
    <3> QED
      BY <1>7, <1>8, <3>1 DEF SourceQuality
  <2>5. q = "fresh"
    BY <1>4, <1>9, <2>1, <2>4 DEF GcQuality
  <2>6. DOMAIN w = {now} /\ \A c \in Columns : w[now][c] = m[c]
    <3>1. now - Day <= now
      BY WindowAssumption
    <3>2. {u \in DOMAIN r : now - Day <= u /\ u <= now} = {now}
      BY <3>1
    <3> QED
      BY <1>5, <1>10, <3>2 DEF Window
  <2>7. \A c \in {"thr", "tig", "freq", "avg", "heap"} : AggAvg(w, c) = m[c]
    <3>1. \A c \in {"thr", "tig", "freq", "avg", "heap"} : w[now][c] = m[c] /\ m[c] \in Nat
      BY <1>1, <1>2, <2>1, <2>6 DEF Columns
    <3> QED
      BY <2>6, <3>1, OneRow
  <2>8. \A c \in {"max", "p99", "heap"} : AggMax(w, c) = m[c]
    <3>1. \A c \in {"max", "p99", "heap"} : w[now][c] = m[c] /\ w[now][c] \in Int
      BY <2>2, <2>6 DEF Columns
    <3> QED
      BY <2>6, <3>1, OneRow
  <2>9. \A c \in {"full", "young"} : AggSum(w, c) = m[c]
    <3>1. \A c \in {"full", "young"} : w[now][c] = m[c] /\ m[c] \in Nat
      BY <1>1, <2>6 DEF Columns
    <3> QED
      BY <2>6, <3>1, OneRow
  <2>10. /\ s.thr = m.thr /\ s.tig = m.tig /\ s.freq = m.freq /\ s.avg = m.avg /\ s.heap = m.heap
         /\ s.max = m.max /\ s.p99 = m.p99 /\ s.peak = m.heap /\ s.full = m.full /\ s.young = m.young
         /\ s.heapObserved
         /\ DOMAIN s = {"thr", "tig", "freq", "avg", "max", "p99", "full", "young", "heap", "peak", "heapObserved"}
    BY <1>11, <2>7, <2>8, <2>9 DEF WindowMetrics
  <2>11. \A c \in DOMAIN s \ {"heapObserved"} : s[c] # None
    BY <1>1, <1>2, <1>3, <2>1, <2>10
  <2>12. Snapshot(r, o, role, now).health = HealthScore(s)
    BY <1>9, <1>10, <1>11, <2>5, <2>11 DEF Snapshot
  <2>13. {m.thr, m.full, m.heap, m.peak} \subseteq Nat /\ {m.max, m.p99} \subseteq Int
    BY <1>1, <1>2, <2>1
  <2>14. Alike(m, HealthScore(s).score)
    BY <1>1, <1>2, <2>10, <2>13, SparedPeak
  <2> QED
    BY <2>12, <2>14
<1> QED
  BY <1>12, <1>13

LEMMA JudgedAlike == Inv => SameVerdictButPeak
<1> SUFFICES ASSUME Inv, NEW i \in Instances, NEW x \in batches[i], batches[i] = {x},
                    {x.at, x.row} = {clock}, x.batch.stw # <<>>, HeapObserved(x.batch)
             PROVE  Alike(Analyze(x.batch), GcNow(i, clock).health.score)
  BY DEF SameVerdictButPeak, Alike
<1>1. PICK now, r, o, bs, b, m : /\ now = clock /\ r = rows[i] /\ o = outcome[i] /\ bs = batches[i]
                                /\ b = x.batch /\ m = Analyze(b)
  OBVIOUS
<1>2. now \in Nat /\ Kept(r, o, bs, now) /\ bs = {x} /\ x.at = now /\ x.row = now
  BY <1>1 DEF Inv, RowInv
<1>3. /\ b \in GcBatch /\ o[now] = OutcomeOf(b) /\ now \in DOMAIN o
      /\ now \in DOMAIN r /\ r[now] = RowOf(m)
  <2>1. Recorded(x, r, o, now - Retention) /\ now >= now - Retention
    BY <1>2, RetentionIs DEF Kept
  <2> QED
    BY <1>1, <1>2, <2>1 DEF Recorded
<1>4. DOMAIN r = {now} /\ DOMAIN o \subseteq 0 .. now
  <2>1. \A t \in DOMAIN r : t = now
    BY <1>2 DEF Kept, Stands
  <2>2. DOMAIN o \subseteq 0 .. now
    BY <1>2 DEF Kept
  <2> QED
    BY <1>3, <2>1, <2>2
<1>5. Alike(m, Snapshot(r, o, Role[i], now).health.score)
  <2>1. b.stw # <<>> /\ HeapObserved(b)
    BY <1>1
  <2> QED
    BY <1>1, <1>2, <1>3, <1>4, <2>1, StoreSays
<1> QED
  BY <1>1, <1>5 DEF GcNow

\* The store's verdict on a lone batch is the log's, but for a peak it may spare
\* (SameVerdictButPeak, for all constants).
THEOREM VerdictsAgree == Spec => []SameVerdictButPeak
  BY InitHolds, NextHolds, JudgedAlike, PTL DEF Spec

=============================================================================
