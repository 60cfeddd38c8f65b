--------------------------- MODULE RecoveryProofs ---------------------------
(***************************************************************************)
(* Proofs about the verification of a fix, for any size of the app, any    *)
(* number of its processes and any evidence.                               *)
(*                                                                         *)
(* The verification compares two sums over the series of the processes.    *)
(* The first part of the module is about such sums.                        *)
(***************************************************************************)
EXTENDS Recovery, FiniteSetTheorems, WellFoundedInduction, TLAPS

-----------------------------------------------------------------------------
(* MapThenSumSet takes elements out of a set, one at a time: g has the sum *)
(* of h over each subset of T.                                             *)
Pick(s) == CHOOSE x \in s : TRUE

Sums(h, T, g) == g = [s \in SUBSET T |-> IF s = {} THEN 0 ELSE h[Pick(s)] + g[s \ {Pick(s)}]]

(* A nonempty set of natural numbers has a smallest one.                   *)
LEMMA LeastNat ==
    ASSUME NEW N, N \subseteq Nat, N # {}
    PROVE  \E m \in N : \A k \in N : m <= k
<1>1. PICK m \in N : \A k \in N : ~(<<k, m>> \in OpToRel(<, Nat))
  BY NatLessThanWellFounded, WFMin, Zenon
<1>2. ASSUME NEW k \in N PROVE m <= k
  <2>1. k \in Nat /\ m \in Nat
    OBVIOUS
  <2>2. k < m => <<k, m>> \in OpToRel(<, Nat)
    BY <2>1 DEF OpToRel
  <2>3. ~(k < m)
    BY <1>1, <2>2, Zenon
  <2> QED
    BY <2>1, <2>3
<1> QED
  BY <1>2

(* What is taken out of a finite set was in it, and makes it smaller.      *)
LEMMA Smaller ==
    ASSUME NEW s, IsFiniteSet(s), s # {}
    PROVE  /\ Pick(s) \in s /\ IsFiniteSet(s \ {Pick(s)})
           /\ Cardinality(s) \in Nat \ {0}
           /\ Cardinality(s \ {Pick(s)}) = Cardinality(s) - 1
<1>1. Pick(s) \in s
  BY DEF Pick
<1> QED
  BY <1>1, FS_RemoveElement, FS_CardinalityType, FS_EmptySet

(* A property of the empty set, and of each set that is one element more   *)
(* than one with the property, is one of all subsets of a finite set.      *)
LEMMA AllSubsets ==
    ASSUME NEW T, IsFiniteSet(T), NEW G, {} \in G,
           \A s \in SUBSET T : s # {} /\ s \ {Pick(s)} \in G => s \in G
    PROVE  SUBSET T \subseteq G
<1> SUFFICES ASSUME NEW t \in SUBSET T, t \notin G PROVE FALSE
  OBVIOUS
<1> DEFINE Bad == {s \in SUBSET T : s \notin G}
           N   == {Cardinality(s) : s \in Bad}
<1>1. \A s \in SUBSET T : IsFiniteSet(s) /\ Cardinality(s) \in Nat
  BY FS_Subset, FS_CardinalityType
<1>2. N \subseteq Nat /\ N # {}
  BY <1>1
<1>3. PICK m \in N : \A k \in N : m <= k
  BY <1>2, LeastNat
<1>4. PICK s \in Bad : m = Cardinality(s)
  BY <1>3
<1>5. s # {} /\ s \in SUBSET T /\ IsFiniteSet(s)
  BY <1>1
<1>6. s \ {Pick(s)} \in Bad
  BY <1>4, <1>5
<1>7. Cardinality(s \ {Pick(s)}) < Cardinality(s)
  BY <1>5, Smaller
<1>8. /\ Cardinality(s \ {Pick(s)}) \in N
      /\ Cardinality(s \ {Pick(s)}) \in Nat /\ Cardinality(s) \in Nat
  BY <1>1, <1>5, <1>6
<1>9. m <= Cardinality(s \ {Pick(s)})
  BY <1>3, <1>8
<1> HIDE DEF N, Bad
<1> QED
  BY <1>4, <1>7, <1>8, <1>9

(* The recursion has a solution ...                                        *)
LEMMA SumExists ==
    ASSUME NEW T, IsFiniteSet(T), NEW h \in [T -> Int]
    PROVE  \E g : Sums(h, T, g)
<1> DEFINE Small(n)   == {s \in SUBSET T : Cardinality(s) <= n}
           Next(g, s) == IF s = {} THEN 0 ELSE h[Pick(s)] + g[s \ {Pick(s)}]
           Part(n, g) == g \in [Small(n) -> Int] /\ \A s \in Small(n) : g[s] = Next(g, s)
<1>1. ASSUME NEW s \in SUBSET T
      PROVE  /\ IsFiniteSet(s) /\ Cardinality(s) \in Nat
             /\ s # {} => /\ Pick(s) \in T /\ s \ {Pick(s)} \in SUBSET T
                          /\ Cardinality(s) > 0
                          /\ Cardinality(s \ {Pick(s)}) = Cardinality(s) - 1
  <2>1. IsFiniteSet(s) /\ Cardinality(s) \in Nat
    BY FS_Subset, FS_CardinalityType
  <2>2. ASSUME s # {}
        PROVE  /\ Pick(s) \in s /\ Cardinality(s) \in Nat \ {0}
               /\ Cardinality(s \ {Pick(s)}) = Cardinality(s) - 1
    BY <2>1, <2>2, Smaller
  <2>3. ASSUME s # {} PROVE Cardinality(s) > 0
    BY <2>2, <2>3
  <2> QED
    BY <2>1, <2>2, <2>3
<1>2. \E g : Part(0, g)
  <2>1. ASSUME NEW s \in Small(0) PROVE s = {}
    <3>1. Cardinality(s) \in Nat /\ Cardinality(s) <= 0 /\ (s # {} => Cardinality(s) > 0)
      BY <1>1
    <3> QED
      BY <3>1
  <2> WITNESS [s \in Small(0) |-> 0]
  <2> QED
    BY <2>1
<1>3. ASSUME NEW n \in Nat, \E g : Part(n, g) PROVE \E g : Part(n + 1, g)
  <2> PICK g : Part(n, g)
    BY <1>3
  <2> DEFINE f == [s \in Small(n + 1) |-> Next(g, s)]
  <2>1. ASSUME NEW s \in Small(n + 1), s # {}
        PROVE  Pick(s) \in T /\ s \ {Pick(s)} \in Small(n) /\ s \ {Pick(s)} \in Small(n + 1)
    BY <1>1, <2>1
  <2>2. \A s \in Small(n) : s \in Small(n + 1) /\ f[s] = g[s]
    BY <1>1
  <2>3. ASSUME NEW s \in Small(n + 1) PROVE f[s] \in Int /\ f[s] = Next(f, s)
    <3>1. CASE s = {}
      BY <3>1
    <3>2. CASE s # {}
      <4>1. h[Pick(s)] \in Int /\ g[s \ {Pick(s)}] \in Int
        BY <2>1, <3>2
      <4>2. f[s] = h[Pick(s)] + g[s \ {Pick(s)}]
        BY <3>2
      <4>3. f[s \ {Pick(s)}] = g[s \ {Pick(s)}]
        BY <2>1, <2>2, <3>2
      <4> QED
        BY <3>2, <4>1, <4>2, <4>3
    <3> QED
      BY <3>1, <3>2
  <2>4. f \in [Small(n + 1) -> Int]
    BY <2>3
  <2> QED
    BY <2>3, <2>4
<1>4. \A n \in Nat : \E g : Part(n, g)
  <2> DEFINE Has(n) == \E g : Part(n, g)
             N      == {n \in Nat : ~Has(n)}
  <2>0. Has(0) /\ \A n \in Nat : Has(n) => Has(n + 1)
    BY <1>2, <1>3
  <2> HIDE DEF Has
  <2> SUFFICES ASSUME N # {} PROVE FALSE
    BY DEF Has
  <2>1. PICK m \in N : \A k \in N : m <= k
    BY LeastNat
  <2>2. m \in Nat /\ ~Has(m) /\ m # 0
    BY <2>0, <2>1
  <2>3. m - 1 \in Nat /\ (m - 1) + 1 = m /\ ~(m <= m - 1)
    BY <2>2
  <2>4. Has(m - 1)
    BY <2>1, <2>3
  <2> QED
    BY <2>0, <2>2, <2>3, <2>4
<1>5. PICK g : Part(Cardinality(T), g)
  BY <1>1, <1>4
<1>6. Small(Cardinality(T)) = SUBSET T
  BY FS_Subset
<1>7. g = [s \in SUBSET T |-> Next(g, s)]
  BY <1>5, <1>6
<1> QED
  BY <1>7 DEF Sums

(* ... whose values add up.                                                *)
LEMMA SumStep ==
    ASSUME NEW T, IsFiniteSet(T), NEW h, NEW g, Sums(h, T, g), NEW s \in SUBSET T
    PROVE  /\ s = {} => g[s] = 0
           /\ s # {} => /\ Pick(s) \in s /\ s \ {Pick(s)} \in SUBSET T
                        /\ g[s] = h[Pick(s)] + g[s \ {Pick(s)}]
<1>1. g[s] = IF s = {} THEN 0 ELSE h[Pick(s)] + g[s \ {Pick(s)}]
  BY Zenon DEF Sums
<1>2. s # {} => Pick(s) \in s
  BY DEF Pick
<1> QED
  BY <1>1, <1>2

LEMMA SumEmpty == ASSUME NEW T, NEW h, NEW g, Sums(h, T, g) PROVE g[{}] = 0
<1>1. g[{}] = IF {} = {} THEN 0 ELSE h[Pick({})] + g[{} \ {Pick({})}]
  BY Zenon DEF Sums
<1> QED
  BY <1>1

(* A sum of natural numbers is one, and no smaller than what it sums.      *)
LEMMA SumBounds ==
    ASSUME NEW T, IsFiniteSet(T), NEW h \in [T -> Nat], NEW g, Sums(h, T, g)
    PROVE  g[T] \in Nat /\ \A x \in T : h[x] <= g[T]
<1> DEFINE G == {s \in SUBSET T : g[s] \in Nat /\ \A x \in s : h[x] <= g[s]}
<1>1. {} \in G
  <2>1. g[{}] = 0
    BY SumEmpty, Zenon
  <2> QED
    BY <2>1
<1>2. ASSUME NEW s \in SUBSET T, s # {}, s \ {Pick(s)} \in G
      PROVE  s \in G
  <2> DEFINE p == Pick(s)
             r == s \ {p}
  <2>1. p \in s /\ g[s] = h[p] + g[r]
    BY <1>2, SumStep
  <2>2. g[r] \in Nat /\ \A x \in r : h[x] <= g[r]
    BY <1>2
  <2>3. h[p] \in Nat /\ \A x \in s : h[x] \in Nat /\ (x = p \/ x \in r)
    BY <2>1
  <2> HIDE DEF p, r
  <2>4. g[s] \in Nat
    BY <2>1, <2>2, <2>3
  <2>5. ASSUME NEW x \in s PROVE h[x] <= g[s]
    BY <2>1, <2>2, <2>3
  <2> QED
    BY <2>4, <2>5
<1> HIDE DEF G
<1>3. SUBSET T \subseteq G
  BY <1>1, <1>2, AllSubsets
<1>4. T \in G
  BY <1>3
<1> QED
  BY <1>4 DEF G

(* When one of the summands changes, so does the sum, by as much.          *)
Moves(from, to, was, is) == to = (from - was) + is

LEMMA SumUpdate ==
    ASSUME NEW T, IsFiniteSet(T), NEW h \in [T -> Int], NEW k \in [T -> Int], NEW q \in T,
           \A x \in T : x # q => k[x] = h[x],
           NEW f, Sums(h, T, f), NEW g, Sums(k, T, g)
    PROVE  f[T] \in Int /\ Moves(f[T], g[T], h[q], k[q])
<1> DEFINE G == {s \in SUBSET T : /\ f[s] \in Int
                                  /\ q \in s => g[s] = (f[s] - h[q]) + k[q]
                                  /\ q \notin s => g[s] = f[s]}
<1>1. {} \in G
  <2>1. f[{}] = 0 /\ g[{}] = 0
    BY SumEmpty, Zenon
  <2> QED
    BY <2>1
<1>2. ASSUME NEW s \in SUBSET T, s # {}, s \ {Pick(s)} \in G
      PROVE  s \in G
  <2> DEFINE p == Pick(s)
             r == s \ {p}
  <2>1. p \in s /\ f[s] = h[p] + f[r] /\ g[s] = k[p] + g[r]
    BY <1>2, SumStep
  <2>2. /\ f[r] \in Int
        /\ q \in r => g[r] = (f[r] - h[q]) + k[q]
        /\ q \notin r => g[r] = f[r]
    BY <1>2
  <2>3. /\ h[p] \in Int /\ k[p] \in Int /\ h[q] \in Int /\ k[q] \in Int
        /\ p # q => k[p] = h[p]
        /\ q \in s <=> q = p \/ q \in r
        /\ p \notin r
    BY <2>1
  <2> HIDE DEF p, r
  <2>4. f[s] \in Int
    BY <2>1, <2>2, <2>3
  <2>5. ASSUME q \in s PROVE g[s] = (f[s] - h[q]) + k[q]
    <3>1. CASE q = p
      BY <2>1, <2>2, <2>3, <3>1
    <3>2. CASE q # p
      BY <2>1, <2>2, <2>3, <2>5, <3>2
    <3> QED
      BY <3>1, <3>2
  <2>6. ASSUME q \notin s PROVE g[s] = f[s]
    BY <2>1, <2>2, <2>3, <2>6
  <2> QED
    BY <2>4, <2>5, <2>6
<1> HIDE DEF G
<1>3. SUBSET T \subseteq G
  BY <1>1, <1>2, AllSubsets
<1>4. T \in G
  BY <1>3
<1> QED
  BY <1>4 DEF G, Moves
-----------------------------------------------------------------------------
(* The two sums of the model: over the routes of a process, and over the   *)
(* series of a route.                                                      *)
Failures(h) == MapThenSumSet(LAMBDA r : h[r], Route)

LEMMA FailuresBound ==
    ASSUME NEW h \in [Route -> Nat]
    PROVE  Failures(h) \in Nat /\ \A r \in Route : h[r] <= Failures(h)
<1> DEFINE g == CHOOSE g : Sums(h, Route, g)
<1>1. IsFiniteSet(Route)
  <2>1. IsFiniteSet({"/api/orders"} \cup {"/api/orders/{order_id}"})
    BY FS_Singleton, FS_AddElement
  <2>2. Route = {"/api/orders"} \cup {"/api/orders/{order_id}"}
    BY DEF Route
  <2> QED
    BY <2>1, <2>2
<1>2. h \in [Route -> Int]
  OBVIOUS
<1>3. Sums(h, Route, g)
  BY <1>1, <1>2, SumExists
<1>4. Failures(h) = g[Route]
  BY DEF Failures, MapThenSumSet, MapThenFoldSet, Sums, Pick
<1> HIDE DEF g
<1> QED
  BY <1>1, <1>3, <1>4, SumBounds

SumOf(h, route) == MapThenSumSet(LAMBDA p : h[p][route], 1..MaxProcesses)

SeriesSums(h, route, T, g) ==
    g = [s \in SUBSET T |-> IF s = {} THEN 0 ELSE h[Pick(s)][route] + g[s \ {Pick(s)}]]

Series == [1..MaxProcesses -> [Route -> Nat]]

LEMMA SumOfSeries ==
    ASSUME NEW h \in Series, NEW route \in Route
    PROVE  \E g : /\ Sums([p \in 1..MaxProcesses |-> h[p][route]], 1..MaxProcesses, g)
                  /\ SumOf(h, route) = g[1..MaxProcesses]
<1> DEFINE T == 1..MaxProcesses
           k == [p \in T |-> h[p][route]]
           f == CHOOSE g : SeriesSums(h, route, T, g)
<1>1. IsFiniteSet(T)
  BY OrderTrackerAssumption, FS_Interval
<1>2. k \in [T -> Int]
  BY DEF Series
<1>3. PICK g : Sums(k, T, g)
  BY <1>1, <1>2, SumExists
<1>4. SumOf(h, route) = f[T]
  BY DEF SumOf, MapThenSumSet, MapThenFoldSet, SeriesSums, Pick
<1>5. \A s \in SUBSET T : s # {} => k[Pick(s)] = h[Pick(s)][route]
  BY DEF Pick
<1> HIDE DEF T
<1>6. ASSUME NEW e PROVE SeriesSums(h, route, T, e) <=> Sums(k, T, e)
  <2> DEFINE a == [s \in SUBSET T |-> IF s = {} THEN 0
                                      ELSE h[Pick(s)][route] + e[s \ {Pick(s)}]]
             b == [s \in SUBSET T |-> IF s = {} THEN 0 ELSE k[Pick(s)] + e[s \ {Pick(s)}]]
  <2>1. \A s \in SUBSET T : a[s] = b[s]
    <3> HIDE DEF k
    <3> QED
      BY <1>5
  <2>2. a = b
    BY <2>1
  <2> QED
    BY <2>2 DEF SeriesSums, Sums
<1>7. SeriesSums(h, route, T, f)
  BY <1>3, <1>6
<1>8. Sums(k, T, f)
  BY <1>6, <1>7
<1> QED
  BY <1>4, <1>8 DEF T

(* An export moves the sum of a route by what it adds to its series.       *)
LEMMA SumOfExport ==
    ASSUME NEW h \in Series, NEW route \in Route, NEW q \in 1..MaxProcesses,
           NEW v \in [Route -> Nat]
    PROVE  /\ SumOf(h, route) \in Int
           /\ SumOf([h EXCEPT ![q] = v], route) = (SumOf(h, route) - h[q][route]) + v[route]
<1> DEFINE T == 1..MaxProcesses
           x == [h EXCEPT ![q] = v]
           k == [p \in T |-> h[p][route]]
           l == [p \in T |-> x[p][route]]
<1>1. IsFiniteSet(T)
  BY OrderTrackerAssumption, FS_Interval
<1>2. x \in Series
  BY DEF Series
<1>3. PICK f : Sums(k, T, f) /\ SumOf(h, route) = f[T]
  BY SumOfSeries
<1>4. PICK g : Sums(l, T, g) /\ SumOf(x, route) = g[T]
  <2> HIDE DEF x
  <2> QED
    BY <1>2, SumOfSeries
<1>5. k \in [T -> Int] /\ l \in [T -> Int]
  BY <1>2 DEF Series
<1>6. k[q] = h[q][route] /\ l[q] = v[route] /\ \A p \in T : p # q => l[p] = k[p]
  BY DEF Series
<1>7. q \in T
  OBVIOUS
<1> HIDE DEF T, k, l
<1>8. f[T] \in Int /\ g[T] = (f[T] - k[q]) + l[q]
  <2>1. Sums(k, T, f) /\ Sums(l, T, g)
    BY <1>3, <1>4
  <2>2. \A p \in T : p # q => l[p] = k[p]
    BY <1>6
  <2>3. IsFiniteSet(T) /\ k \in [T -> Int] /\ l \in [T -> Int] /\ q \in T
    BY <1>1, <1>5, <1>7
  <2>4. f[T] \in Int
    BY <2>1, <2>2, <2>3, SumUpdate, Zenon
  <2>5. Moves(f[T], g[T], k[q], l[q])
    BY <2>1, <2>2, <2>3, SumUpdate, Zenon
  <2> QED
    BY <2>4, <2>5 DEF Moves
<1> QED
  BY <1>3, <1>4, <1>6, <1>8
-----------------------------------------------------------------------------
(* What is in the records of the app, of the incident and of its history.  *)
Stages == {"idle", "collect", "deploy", "read_before", "replay", "read_after",
           "resolved", "rollback", "rolled_back"}
Incident == [pc : Stages, route : Route \cup {NoRoute}, base : SUBSET Kind,
             samples : SUBSET Nat, left : SUBSET Nat, before : Int, ok : BOOLEAN, wait : Int]
Seen == [evidence : SUBSET Nat, failure : BOOLEAN, masked : BOOLEAN,
         replaced : BOOLEAN]

App == /\ orders \in Seq(Kind) /\ version \in SUBSET Kind
       /\ process \in 1..MaxProcesses /\ since \in 0..Delay
       /\ count \in [Route -> 0..MaxFailures]
       /\ unsent \in Seq(1..Len(orders))

(* No series has more than its process has counted, and none is there      *)
(* before its process.                                                     *)
Stored == /\ loki \in Seq(1..Len(orders)) /\ Len(loki) <= LogLimit
          /\ prom \in [1..MaxProcesses -> [Route -> 0..MaxFailures]]
          /\ \A r \in Route : prom[process][r] <= count[r]
          /\ \A p \in 1..MaxProcesses : p > process => prom[p] = NoCount

(* What the incident replays are orders that exist, and not too many.      *)
Replays == /\ inc \in Incident /\ saw \in Seen
           /\ inc.pc # "idle" => inc.route \in Route
           /\ inc.samples \cup inc.left \cup saw.evidence \subseteq 1..Len(orders)
           /\ inc.pc \in {"idle", "collect", "deploy"} => inc.left = {}
           /\ inc.pc \notin {"idle", "collect", "deploy"} => inc.samples = {}
           /\ Cardinality(inc.samples) <= MaxPaths /\ Cardinality(inc.left) <= MaxPaths
           /\ inc.wait \in 0..Settle

(* The evidence is still to be replayed, or was served by what runs.       *)
Covered == /\ inc.pc = "deploy" => saw.evidence \subseteq inc.samples
           /\ inc.pc = "read_before" => saw.evidence \subseteq inc.left
           /\ inc.pc \in {"replay", "read_after"} /\ inc.ok /\ ~saw.replaced =>
                 \A id \in saw.evidence : id \in inc.left \/ orders[id] \notin version
           /\ inc.pc = "read_after" => inc.left = {}

(* What the sum over the series will be after the next export.             *)
Total == SumOf(prom, inc.route)
Owed  == (Total - prom[process][inc.route]) + count[inc.route]

(* A failure is in the sum, or it will be before the sleep is over: as     *)
(* long as nothing was exported, the time since the last export and what   *)
(* is left of the sleep are more than an export interval.                  *)
Visible == /\ inc.pc \in {"idle", "collect", "deploy", "read_before"} =>
                 ~saw.failure /\ ~saw.masked
           /\ inc.pc \in {"replay", "read_after"} /\ ~saw.masked =>
                 inc.before <= Owed /\ (saw.failure => inc.before < Owed)
           /\ inc.pc = "read_after" /\ ~saw.masked /\ saw.failure =>
                 inc.before < Total \/ Delay < since + inc.wait

RecInv == App /\ Stored /\ Replays /\ Covered /\ Visible
-----------------------------------------------------------------------------
(* The app and its telemetry.                                              *)
LEMMA Constants ==
    /\ Delay \in Nat \ {0} /\ LogLimit \in Nat \ {0} /\ MaxFailures \in Nat \ {0}
    /\ MaxProcesses \in Nat \ {0} /\ Settle \in Nat /\ Settle > Delay
    /\ MaxPaths \in Nat \ {0} /\ Fix \subseteq SUBSET Kind
    /\ OneOrder \in Route /\ "/api/orders" \in Route /\ NoRoute \notin Route
BY OrderTrackerAssumption, RecoveryAssumption DEF OneOrder, Route, NoRoute

LEMMA Sample ==
    ASSUME App, Stored, NEW r \in Route
    PROVE  /\ prom[process][r] \in Int /\ count[r] \in Int /\ prom[process][r] <= count[r]
           /\ prom \in Series /\ count \in [Route -> Nat] /\ process \in 1..MaxProcesses
<1>1. prom \in [1..MaxProcesses -> [Route -> 0..MaxFailures]] /\ process \in 1..MaxProcesses
  BY DEF App, Stored
<1>2. prom[process] \in [Route -> 0..MaxFailures] /\ count \in [Route -> 0..MaxFailures]
  BY <1>1 DEF App
<1>3. 0..MaxFailures \subseteq Nat
  OBVIOUS
<1>4. prom \in Series /\ count \in [Route -> Nat]
  BY <1>1, <1>2, <1>3 DEF Series
<1>5. prom[process][r] \in Int /\ count[r] \in Int
  BY <1>2
<1> QED
  BY <1>1, <1>4, <1>5 DEF Stored

LEMMA MoreLines ==
    ASSUME NEW m \in Nat, NEW n \in Nat, m <= n, NEW s \in Seq(1..m)
    PROVE  s \in Seq(1..n)
OBVIOUS

(* A request adds at most one to a counter and at most one line.           *)
LEMMA AnswerType ==
    ASSUME App, NEW route \in Route, NEW kind, NEW n \in Nat, Len(orders) <= n,
           NEW id \in 1..n, Answer(route, kind, id)
    PROVE  /\ count' \in [Route -> 0..MaxFailures] /\ \A r \in Route : count[r] <= count'[r]
           /\ unsent' \in Seq(1..n)
<1>1. /\ count \in [Route -> 0..MaxFailures] /\ count \in [Route -> Nat]
      /\ MaxFailures \in Nat
  BY Constants DEF App
<1>2. unsent \in Seq(1..n)
  <2>1. Len(orders) \in Nat /\ unsent \in Seq(1..Len(orders))
    BY DEF App
  <2> QED
    BY <2>1, MoreLines
<1>3. CASE kind \notin version
  <2>1. count' = count /\ unsent' = unsent
    BY <1>3 DEF Answer
  <2> QED
    BY <1>1, <1>2, <2>1
<1>4. CASE kind \in version
  <2>1. /\ Failures(count) < MaxFailures /\ count' = [count EXCEPT ![route] = @ + 1]
        /\ unsent' = unsent \/ unsent' = Append(unsent, id)
    BY <1>4 DEF Answer, Failures
  <2>2. Failures(count) \in Nat /\ count[route] <= Failures(count) /\ count[route] \in Nat
    BY <1>1, FailuresBound
  <2>3. count[route] + 1 \in 0..MaxFailures
    BY <1>1, <2>1, <2>2
  <2>4. count' \in [Route -> 0..MaxFailures]
    BY <1>1, <2>1, <2>3
  <2>5. \A r \in Route : count[r] <= count'[r]
    BY <1>1, <2>1
  <2>6. unsent' \in Seq(1..n)
    BY <1>2, <2>1
  <2> QED
    BY <2>4, <2>5, <2>6
<1> QED
  BY <1>3, <1>4

(* The requests of users and of the replay.                                *)
Serves == /\ UNCHANGED <<version, process, since, prom>>
          /\ Len(orders) <= Len(orders')
          /\ \A id \in 1..Len(orders) : orders'[id] = orders[id]
          /\ \A r \in Route : count[r] <= count'[r]

LEMMA GetServes ==
    ASSUME App, Stored, NEW id \in 1..Len(orders), GetOrder(id)
    PROVE  App' /\ Stored' /\ Serves
<1>1. /\ Answer(OneOrder, orders[id], id)
      /\ UNCHANGED <<orders, version, process, since, prom, loki>>
  BY DEF GetOrder
<1>2. Len(orders) \in Nat /\ orders \in Seq(Kind) /\ Len(orders) <= Len(orders)
  BY DEF App
<1>3. /\ count' \in [Route -> 0..MaxFailures] /\ \A r \in Route : count[r] <= count'[r]
      /\ unsent' \in Seq(1..Len(orders))
  BY <1>1, <1>2, AnswerType, Constants
<1>4. App'
  BY <1>1, <1>3 DEF App
<1>5. Stored'
  <2>1. ASSUME NEW r \in Route PROVE prom'[process'][r] <= count'[r]
    <3>1. prom[process][r] <= count[r] /\ prom[process][r] \in Int /\ count[r] \in Int
      BY Sample
    <3>2. count[r] <= count'[r] /\ count'[r] \in Int
      BY <1>3
    <3> QED
      BY <1>1, <3>1, <3>2
  <2> QED
    BY <1>1, <2>1 DEF Stored
<1> QED
  BY <1>1, <1>2, <1>3, <1>4, <1>5 DEF Serves

LEMMA CreateServes ==
    ASSUME App, Stored, NEW priority, NEW day, Create(priority, day)
    PROVE  App' /\ Stored' /\ Serves
<1> DEFINE kind == KindOf(priority, day)
           n    == Len(orders) + 1
<1>1. /\ Answer("/api/orders", kind, n) /\ orders' = Append(orders, kind)
      /\ UNCHANGED <<version, process, since, prom, loki>>
  BY DEF Create
<1>2. kind \in Kind
  BY DEF KindOf, Kind
<1>3. Len(orders) \in Nat /\ orders \in Seq(Kind) /\ n \in 1..n /\ n \in Nat /\ Len(orders) <= n
  BY DEF App
<1> HIDE DEF kind
<1>4. /\ orders' \in Seq(Kind) /\ Len(orders') = n
      /\ \A id \in 1..Len(orders) : orders'[id] = orders[id]
  BY <1>1, <1>2, <1>3
<1> HIDE DEF n
<1>5. /\ count' \in [Route -> 0..MaxFailures] /\ \A r \in Route : count[r] <= count'[r]
      /\ unsent' \in Seq(1..n)
  BY <1>1, <1>3, AnswerType, Constants
<1>6. App'
  BY <1>1, <1>4, <1>5 DEF App
<1>7. loki \in Seq(1..n)
  BY <1>3, MoreLines DEF Stored
<1>8. ASSUME NEW r \in Route PROVE prom'[process'][r] <= count'[r]
  <2>1. /\ prom[process][r] <= count[r] /\ count[r] <= count'[r]
        /\ prom[process][r] \in Int /\ count[r] \in Int /\ count'[r] \in Int
    BY <1>5 DEF App, Stored
  <2> QED
    BY <1>1, <2>1
<1>9. Stored'
  BY <1>1, <1>4, <1>7, <1>8 DEF Stored
<1> QED
  BY <1>1, <1>3, <1>4, <1>5, <1>6, <1>9 DEF Serves

LEMMA UsersServe ==
    ASSUME App, Stored, Users
    PROVE  App' /\ Stored' /\ Serves
<1>1. DOMAIN orders = 1..Len(orders)
  BY DEF App
<1> QED
  BY <1>1, CreateServes, GetServes DEF Users, UpdateStatus

(* The newest lines are lines, and not too many.                           *)
LEMMA NewestType ==
    ASSUME NEW S, NEW s \in Seq(S)
    PROVE  Newest(s) \in Seq(S) /\ Len(Newest(s)) <= LogLimit
<1>1. Len(s) \in Nat /\ LogLimit \in Nat \ {0}
  BY Constants
<1>2. CASE Len(s) > LogLimit
  <2> DEFINE i == Len(s) - LogLimit + 1
  <2>1. i \in 1..(Len(s) + 1) /\ Len(s) - i + 1 = LogLimit /\ i <= Len(s)
    BY <1>1, <1>2
  <2>2. Newest(s) = SubSeq(s, i, Len(s))
    BY <1>2 DEF Newest
  <2> HIDE DEF i
  <2>3. SubSeq(s, i, Len(s)) \in Seq(S) /\ Len(SubSeq(s, i, Len(s))) = Len(s) - i + 1
    BY <1>1, <2>1
  <2> QED
    BY <1>1, <2>1, <2>2, <2>3
<1>3. CASE ~(Len(s) > LogLimit)
  BY <1>1, <1>3 DEF Newest
<1> QED
  BY <1>2, <1>3

(* What an export leaves, and a stop of the process may.                   *)
LEMMA FlushType ==
    ASSUME App, Stored, Flush
    PROVE  /\ loki' \in Seq(1..Len(orders)) /\ Len(loki') <= LogLimit
           /\ prom' = [prom EXCEPT ![process] = count] /\ prom'[process] = count
           /\ prom' \in [1..MaxProcesses -> [Route -> 0..MaxFailures]]
           /\ \A p \in 1..MaxProcesses : p > process => prom'[p] = NoCount
<1>1. prom' = [prom EXCEPT ![process] = count] /\ loki' = Newest(loki \o unsent)
  BY DEF Flush
<1>2. loki \o unsent \in Seq(1..Len(orders))
  BY DEF App, Stored
<1>3. /\ prom \in [1..MaxProcesses -> [Route -> 0..MaxFailures]] /\ process \in 1..MaxProcesses
      /\ count \in [Route -> 0..MaxFailures]
      /\ \A p \in 1..MaxProcesses : p > process => prom[p] = NoCount
  BY DEF App, Stored
<1>4. loki' \in Seq(1..Len(orders)) /\ Len(loki') <= LogLimit
  BY <1>1, <1>2, NewestType
<1> QED
  BY <1>1, <1>3, <1>4

LEMMA ExportStep ==
    ASSUME App, Stored, Export
    PROVE  /\ App' /\ Stored' /\ UNCHANGED <<orders, version, process, count>>
           /\ prom' = [prom EXCEPT ![process] = count]
<1>1. Flush /\ unsent' = <<>> /\ since' = 0 /\ UNCHANGED <<orders, version, process, count>>
  BY DEF Export
<1>2. App'
  <2>1. <<>> \in Seq(1..Len(orders)) /\ 0 \in 0..Delay
    BY Constants
  <2> QED
    BY <1>1, <2>1 DEF App
<1>3. \A r \in Route : count[r] <= count[r]
  BY DEF App
<1> QED
  BY <1>1, <1>2, <1>3, FlushType DEF Stored

LEMMA StartStep ==
    ASSUME App, Stored, NEW v \in SUBSET Kind, Start(v)
    PROVE  App' /\ Stored' /\ UNCHANGED orders /\ process' = process + 1
<1>1. /\ process < MaxProcesses
      /\ Flush \/ UNCHANGED <<prom, loki>>
  BY DEF Start
<1>2. /\ process' = process + 1 /\ version' = v /\ count' = NoCount
      /\ unsent' = <<>> /\ since' = 0 /\ UNCHANGED orders
  BY DEF Start
<1>3. process' \in 1..MaxProcesses /\ process \in Int /\ process' > process
  BY <1>1, <1>2, Constants DEF App
<1>4. NoCount \in [Route -> 0..MaxFailures]
  BY Constants DEF NoCount
<1>5. App'
  <2>1. <<>> \in Seq(1..Len(orders)) /\ 0 \in 0..Delay
    BY Constants
  <2> QED
    BY <1>2, <1>3, <1>4, <2>1 DEF App
<1>6. /\ loki' \in Seq(1..Len(orders)) /\ Len(loki') <= LogLimit
      /\ prom' \in [1..MaxProcesses -> [Route -> 0..MaxFailures]]
      /\ \A p \in 1..MaxProcesses : p > process => prom'[p] = NoCount
  BY <1>1, FlushType DEF Stored
<1>7. prom'[process'] = NoCount
  BY <1>3, <1>6
<1>8. \A r \in Route : NoCount[r] <= NoCount[r]
  BY DEF NoCount
<1>9. \A p \in 1..MaxProcesses : p > process' => prom'[p] = NoCount
  BY <1>3, <1>6
<1> QED
  BY <1>2, <1>5, <1>6, <1>7, <1>8, <1>9 DEF Stored

LEMMA ExpireStep ==
    ASSUME App, Stored, NEW p \in 1..MaxProcesses, Expire(p)
    PROVE  /\ App' /\ Stored' /\ UNCHANGED <<orders, version, process, count, since>>
           /\ p \in 1..(process - 1) /\ prom'[p] # prom[p]
<1>1. /\ p < process /\ prom[p] # NoCount /\ prom' = [prom EXCEPT ![p] = NoCount]
      /\ UNCHANGED <<orders, version, process, count, unsent, since, loki>>
  BY DEF Expire
<1>2. App'
  BY <1>1 DEF App
<1>3. NoCount \in [Route -> 0..MaxFailures]
  BY Constants DEF NoCount
<1>4. /\ prom \in [1..MaxProcesses -> [Route -> 0..MaxFailures]] /\ process \in 1..MaxProcesses
  BY DEF App, Stored
<1>5. /\ prom' \in [1..MaxProcesses -> [Route -> 0..MaxFailures]] /\ prom'[p] = NoCount
      /\ prom'[process] = prom[process]
      /\ \A q \in 1..MaxProcesses : q > process => prom'[q] = prom[q]
  BY <1>1, <1>3, <1>4
<1>6. Stored'
  BY <1>1, <1>5 DEF Stored
<1>7. p \in 1..(process - 1)
  BY <1>1, <1>4
<1> QED
  BY <1>1, <1>2, <1>5, <1>6, <1>7

LEMMA TickStep ==
    ASSUME App, Stored, Tick
    PROVE  /\ App' /\ Stored' /\ since' = since + 1
           /\ UNCHANGED <<orders, version, process, count, prom>>
<1>1. /\ since < Delay /\ since' = since + 1
      /\ UNCHANGED <<orders, version, process, count, unsent, prom, loki>>
  BY DEF Tick
<1>2. since' \in 0..Delay
  BY <1>1, Constants DEF App
<1> QED
  BY <1>1, <1>2 DEF App, Stored
-----------------------------------------------------------------------------
(* The incident beside the app.                                            *)
Early == inc.pc = "replay" \/ (inc.pc = "read_after" /\ inc.wait > Delay)

LEMMA NoticedFacts ==
    ASSUME saw \in Seen, saw' = Noticed
    PROVE  /\ saw' \in Seen /\ saw'.evidence = saw.evidence
           /\ ~saw'.masked => ~saw.masked
           /\ inc.pc \in {"replay", "read_after"} /\ SeriesChange => saw'.masked
           /\ inc.pc \notin {"replay", "read_after"} /\ saw'.masked => saw.masked
           /\ saw'.failure => saw.failure \/ (Early /\ count'[inc.route] > count[inc.route])
           /\ ~saw'.replaced => ~saw.replaced
           /\ inc.pc \in {"replay", "read_after"} /\ process' # process => saw'.replaced
<1> DEFINE a == saw.failure \/ (Early /\ count'[inc.route] > count[inc.route])
           b == saw.masked \/ (inc.pc \in {"replay", "read_after"} /\ SeriesChange)
           c == saw.replaced \/ (inc.pc \in {"replay", "read_after"} /\ process' # process)
<1>1. saw' = [saw EXCEPT !.failure = a, !.masked = b, !.replaced = c]
  BY DEF Noticed, Early, At
<1>2. a \in BOOLEAN /\ b \in BOOLEAN /\ c \in BOOLEAN
  BY DEF Seen
<1> HIDE DEF a, b, c
<1>3. /\ saw' \in Seen /\ saw'.evidence = saw.evidence /\ saw'.failure = a /\ saw'.masked = b
      /\ saw'.replaced = c
  BY <1>1, <1>2 DEF Seen
<1> QED
  BY <1>3 DEF a, b, c

(* The incident goes on where it was, at most some time has passed.        *)
Waits == /\ inc' \in Incident /\ inc'.pc = inc.pc /\ inc'.route = inc.route
         /\ inc'.samples = inc.samples /\ inc'.left = inc.left /\ inc'.ok = inc.ok
         /\ inc'.before = inc.before /\ inc'.wait \in 0..Settle

LEMMA ReplaysKept ==
    ASSUME Replays, Len(orders) \in Nat, Len(orders') \in Nat, Len(orders) <= Len(orders'),
           Waits, saw' \in Seen, saw'.evidence = saw.evidence
    PROVE  Replays'
BY DEF Replays, Waits

LEMMA CoveredKept ==
    ASSUME Replays, Covered, Waits, saw' \in Seen, saw'.evidence = saw.evidence,
           \A id \in 1..Len(orders) : orders'[id] = orders[id],
           ~saw'.replaced => ~saw.replaced,
           inc.pc \in {"replay", "read_after"} /\ ~saw'.replaced => version' = version
    PROVE  Covered'
<1>1. saw.evidence \subseteq 1..Len(orders)
  BY DEF Replays
<1> QED
  BY <1>1 DEF Covered, Waits

(* The sums of a route, now and after the next export.                     *)
LEMMA Sizes ==
    ASSUME App, Stored, inc.route \in Route
    PROVE  Total \in Int /\ Owed \in Int /\ Total <= Owed
<1> DEFINE r == inc.route
           c == count[r]
           m == prom[process][r]
<1>1. c \in Int /\ m \in Int /\ m <= c
  BY Sample
<1>2. prom \in Series /\ process \in 1..MaxProcesses /\ count \in [Route -> Nat]
  BY Sample
<1>3. Total \in Int
  BY <1>2, SumOfExport DEF Total
<1>4. Owed = (Total - m) + c
  BY DEF Owed
<1> HIDE DEF c, m
<1> QED
  BY <1>1, <1>3, <1>4

LEMMA OwedServed ==
    ASSUME App, Stored, Serves, inc.route \in Route, inc'.route = inc.route,
           App', Stored'
    PROVE  /\ Total' = Total /\ Owed' \in Int /\ Owed <= Owed'
           /\ count'[inc.route] > count[inc.route] => Owed < Owed'
<1> DEFINE r == inc.route
           c == count[r]
           d == count'[r]
           m == prom[process][r]
<1>1. c \in Int /\ m \in Int /\ Total \in Int
  BY Sample, Sizes
<1>2. d \in Int
  BY DEF App
<1>3. c <= d /\ prom' = prom /\ process' = process
  BY DEF Serves
<1>4. Owed = (Total - m) + c
  BY DEF Owed
<1>5. Total' = Total
  BY <1>3 DEF Total
<1>6. Owed' = (Total - m) + d
  BY <1>3, <1>5 DEF Owed
<1> HIDE DEF c, d, m
<1>7. Owed' \in Int /\ Owed <= Owed' /\ (d > c => Owed < Owed')
  BY <1>1, <1>2, <1>3, <1>4, <1>6
<1> QED
  BY <1>5, <1>7 DEF c, d

LEMMA OwedExported ==
    ASSUME App, Stored, inc.route \in Route, inc' = inc,
           prom' = [prom EXCEPT ![process] = count], UNCHANGED <<process, count>>
    PROVE  Total' = Owed /\ Owed' = Owed
<1> DEFINE r == inc.route
           c == count[r]
           m == prom[process][r]
<1>1. c \in Int /\ m \in Int /\ Total \in Int /\ Owed \in Int
  BY Sample, Sizes
<1>2. prom \in Series /\ process \in 1..MaxProcesses /\ count \in [Route -> Nat]
  BY Sample
<1>3. Total' = SumOf([prom EXCEPT ![process] = count], r)
  BY DEF Total
<1>4. Total' = (Total - m) + c
  BY <1>2, <1>3, SumOfExport DEF Total
<1>5. Owed = (Total - m) + c
  BY DEF Owed
<1>6. prom'[process'][inc'.route] = c /\ count'[inc'.route] = c
  BY <1>2 DEF Series
<1>7. Owed' = (Total' - c) + c
  BY <1>6 DEF Owed
<1> HIDE DEF c, m
<1>8. Total' = Owed
  BY <1>4, <1>5
<1> QED
  BY <1>1, <1>7, <1>8

(* A failure on the route stays in sight when the app answers requests.    *)
LEMMA VisibleServed ==
    ASSUME RecInv, App', Stored', Serves, saw' = Noticed, inc'.pc = inc.pc,
           inc'.route = inc.route, inc'.before = inc.before, inc'.wait = inc.wait
    PROVE  Visible'
<1>1. /\ App /\ Stored /\ Visible /\ saw \in Seen /\ inc \in Incident
      /\ inc.pc # "idle" => inc.route \in Route
  BY DEF RecInv, Replays
<1>2. /\ ~saw'.masked => ~saw.masked
      /\ inc.pc \notin {"replay", "read_after"} /\ saw'.masked => saw.masked
      /\ saw'.failure => saw.failure \/ (Early /\ count'[inc.route] > count[inc.route])
  BY <1>1, NoticedFacts
<1>3. CASE inc.pc \notin {"replay", "read_after"}
  BY <1>1, <1>2, <1>3 DEF Visible, Early
<1>4. CASE inc.pc \in {"replay", "read_after"}
  <2>1. /\ Total' = Total /\ Owed' \in Int /\ Owed <= Owed'
        /\ count'[inc.route] > count[inc.route] => Owed < Owed'
    BY <1>1, <1>4, OwedServed
  <2>2. Total \in Int /\ Owed \in Int /\ inc.before \in Int
    BY <1>1, <1>4, Sizes DEF Incident
  <2>3. since' = since
    BY DEF Serves
  <2>4. ~saw'.masked => inc'.before <= Owed' /\ (saw'.failure => inc'.before < Owed')
    BY <1>1, <1>2, <1>4, <2>1, <2>2 DEF Visible
  <2>5. ASSUME inc.pc = "read_after", ~saw'.masked, saw'.failure
        PROVE  inc'.before < Total' \/ Delay < since' + inc'.wait
    <3>1. CASE saw.failure
      BY <1>1, <1>2, <2>1, <2>3, <2>5, <3>1 DEF Visible
    <3>2. CASE inc.wait > Delay
      <4>1. since \in Nat /\ inc.wait \in Nat /\ Delay \in Nat
        BY Constants DEF RecInv, App, Replays
      <4> QED
        BY <2>3, <3>2, <4>1
    <3> QED
      BY <1>2, <2>5, <3>1, <3>2 DEF Early
  <2> QED
    BY <1>4, <2>4, <2>5 DEF Visible
<1> QED
  BY <1>3, <1>4

(* An export shows what was counted.                                       *)
LEMMA VisibleExported ==
    ASSUME RecInv, inc' = inc, saw' = Noticed,
           prom' = [prom EXCEPT ![process] = count], UNCHANGED <<process, count>>
    PROVE  Visible'
<1>1. /\ App /\ Stored /\ Visible /\ saw \in Seen /\ inc \in Incident
      /\ inc.pc # "idle" => inc.route \in Route
  BY DEF RecInv, Replays
<1>2. /\ ~saw'.masked => ~saw.masked
      /\ inc.pc \notin {"replay", "read_after"} /\ saw'.masked => saw.masked
      /\ saw'.failure => saw.failure \/ (Early /\ count'[inc.route] > count[inc.route])
  BY <1>1, NoticedFacts
<1>3. CASE inc.pc \notin {"replay", "read_after"}
  BY <1>1, <1>2, <1>3 DEF Visible, Early
<1>4. CASE inc.pc \in {"replay", "read_after"}
  <2>1. inc.route \in Route
    BY <1>1, <1>4
  <2>2. Total' = Owed /\ Owed' = Owed
    BY <1>1, <2>1, OwedExported
  <2>3. Total \in Int /\ Owed \in Int /\ inc.before \in Int /\ Total <= Owed
    BY <1>1, <2>1, Sizes DEF Incident
  <2>4. saw'.failure => saw.failure
    <3>1. count[inc.route] \in Int
      BY <1>1, <2>1, Sample
    <3> QED
      BY <1>2, <3>1
  <2>5. ~saw'.masked => inc'.before <= Owed' /\ (saw'.failure => inc'.before < Owed')
    BY <1>1, <1>2, <1>4, <2>2, <2>4 DEF Visible
  <2>6. ~saw'.masked /\ saw'.failure => inc'.before < Total'
    BY <2>2, <2>5
  <2> QED
    BY <1>4, <2>5, <2>6 DEF Visible
<1> QED
  BY <1>3, <1>4

(* What disturbs the verification is noted.                                *)
LEMMA VisibleDisturbed ==
    ASSUME RecInv, inc' = inc, saw' = Noticed, SeriesChange
    PROVE  Visible'
<1>1. Visible /\ saw \in Seen
  BY DEF RecInv, Replays
<1>2. /\ inc.pc \in {"replay", "read_after"} => saw'.masked
      /\ inc.pc \notin {"replay", "read_after"} /\ saw'.masked => saw.masked
      /\ saw'.failure => saw.failure \/ Early
  BY <1>1, NoticedFacts
<1> QED
  BY <1>1, <1>2 DEF Visible, Early

(* While nothing is exported, the sleep is no longer than the delay.       *)
LEMMA VisibleTicked ==
    ASSUME RecInv, Waits, saw' = Noticed, since' = since + 1,
           UNCHANGED <<process, count, prom>>,
           inc'.wait = IF inc.wait > 0 THEN inc.wait - 1 ELSE 0
    PROVE  Visible'
<1>1. /\ App /\ Stored /\ Visible /\ saw \in Seen /\ inc \in Incident
      /\ inc.pc # "idle" => inc.route \in Route
  BY DEF RecInv, Replays
<1>2. /\ ~saw'.masked => ~saw.masked
      /\ inc.pc \notin {"replay", "read_after"} /\ saw'.masked => saw.masked
      /\ saw'.failure => saw.failure \/ (Early /\ count'[inc.route] > count[inc.route])
  BY <1>1, NoticedFacts
<1>3. /\ inc'.pc = inc.pc /\ inc'.route = inc.route /\ inc'.before = inc.before
  BY DEF Waits
<1>4. CASE inc.pc \notin {"replay", "read_after"}
  BY <1>1, <1>2, <1>3, <1>4 DEF Visible, Early
<1>5. CASE inc.pc \in {"replay", "read_after"}
  <2>1. saw'.failure => saw.failure
    <3>1. count[inc.route] \in Int
      BY <1>1, <1>5, Sample
    <3> QED
      BY <1>2, <3>1
  <2>2. Total' = Total
    BY <1>3 DEF Total
  <2>3. Owed' = Owed
    BY <1>3, <2>2 DEF Owed
  <2>4. Delay < since + inc.wait => Delay < since' + inc'.wait
    <3>1. since \in Int /\ inc.wait \in Nat /\ Delay \in Nat
      BY Constants DEF RecInv, App, Replays
    <3> QED
      BY <3>1
  <2> QED
    BY <1>1, <1>2, <1>3, <1>5, <2>1, <2>2, <2>3, <2>4 DEF Visible
<1> QED
  BY <1>4, <1>5

LEMMA EnvironmentStep == ASSUME RecInv, Environment PROVE RecInv'
<1>1. /\ App /\ Stored /\ Replays /\ Covered /\ saw \in Seen /\ inc \in Incident
      /\ inc.wait \in 0..Settle /\ Len(orders) \in Nat /\ Settle \in Nat
  BY Constants DEF RecInv, Replays, App
<1>2. saw' = Noticed
  BY DEF Environment
<1>3. /\ saw' \in Seen /\ saw'.evidence = saw.evidence
      /\ ~saw'.replaced => ~saw.replaced
      /\ inc.pc \in {"replay", "read_after"} /\ process' # process => saw'.replaced
  BY <1>1, <1>2, NoticedFacts
<1>4. ASSUME App', Stored', Waits, Visible',
             Len(orders) <= Len(orders'), \A id \in 1..Len(orders) : orders'[id] = orders[id],
             version' = version \/ process' # process
      PROVE  RecInv'
  <2>1. Len(orders') \in Nat
    BY <1>4 DEF App
  <2>2. Replays'
    BY <1>1, <1>3, <1>4, <2>1, ReplaysKept
  <2>3. Covered'
    BY <1>1, <1>3, <1>4, CoveredKept
  <2> QED
    BY <1>4, <2>2, <2>3 DEF RecInv
<1>5. UNCHANGED inc => Waits
  BY <1>1 DEF Waits
<1>6. UNCHANGED orders => /\ Len(orders) <= Len(orders')
                         /\ \A id \in 1..Len(orders) : orders'[id] = orders[id]
  BY <1>1
<1>7. CASE Users /\ UNCHANGED inc
  <2>1. App' /\ Stored' /\ Serves
    BY <1>1, <1>7, UsersServe
  <2>2. Visible'
    BY <1>2, <1>7, <2>1, VisibleServed
  <2> QED
    BY <1>4, <1>5, <1>7, <2>1, <2>2 DEF Serves
<1>8. CASE Export /\ UNCHANGED inc
  <2>1. /\ App' /\ Stored' /\ UNCHANGED <<orders, version, process, count>>
        /\ prom' = [prom EXCEPT ![process] = count]
    BY <1>1, <1>8, ExportStep
  <2>2. Visible'
    BY <1>2, <1>8, <2>1, VisibleExported
  <2> QED
    BY <1>4, <1>5, <1>6, <1>8, <2>1, <2>2
<1>9. CASE (\E p \in 1..MaxProcesses : Expire(p)) /\ UNCHANGED inc
  <2> PICK p \in 1..MaxProcesses : Expire(p)
    BY <1>9
  <2>1. /\ App' /\ Stored' /\ UNCHANGED <<orders, version, process, count, since>>
        /\ p \in 1..(process - 1) /\ prom'[p] # prom[p]
    BY <1>1, ExpireStep
  <2>2. SeriesChange
    BY <2>1 DEF SeriesChange
  <2>3. Visible'
    BY <1>2, <1>9, <2>2, VisibleDisturbed
  <2> QED
    BY <1>4, <1>5, <1>6, <1>9, <2>1, <2>3
<1>10. CASE (\E v \in Fix : Start(v)) /\ UNCHANGED inc
  <2> PICK v \in Fix : Start(v)
    BY <1>10
  <2>1. App' /\ Stored' /\ UNCHANGED orders /\ process' = process + 1
    BY <1>1, Constants, StartStep
  <2>2. process' # process /\ SeriesChange
    <3>1. process \in Int
      BY DEF RecInv, App
    <3> QED
      BY <2>1, <3>1 DEF SeriesChange
  <2>3. Visible'
    BY <1>2, <1>10, <2>2, VisibleDisturbed
  <2> QED
    BY <1>4, <1>5, <1>6, <1>10, <2>1, <2>2, <2>3
<1>11. CASE Tick /\ inc' = [inc EXCEPT !.wait = IF @ > 0 THEN @ - 1 ELSE 0]
  <2>1. /\ App' /\ Stored' /\ since' = since + 1
        /\ UNCHANGED <<orders, version, process, count, prom>>
    BY <1>1, <1>11, TickStep
  <2> DEFINE w == IF inc.wait > 0 THEN inc.wait - 1 ELSE 0
  <2>2. w \in 0..Settle /\ w \in Int
    BY <1>1
  <2>3. inc' = [inc EXCEPT !.wait = w]
    BY <1>11
  <2> HIDE DEF w
  <2>4. Waits /\ inc'.wait = w
    BY <1>1, <2>2, <2>3 DEF Waits, Incident
  <2>5. Visible'
    BY <1>2, <2>1, <2>4, VisibleTicked DEF w
  <2> QED
    BY <1>4, <1>6, <2>1, <2>4, <2>5
<1> QED
  BY <1>7, <1>8, <1>9, <1>10, <1>11 DEF Environment
-----------------------------------------------------------------------------
(* The steps of the incident.                                              *)
LEMMA AlertStep == ASSUME RecInv, NEW route \in Route, Alert(route) PROVE RecInv'
<1>1. /\ inc.pc = "idle" /\ inc' = [inc EXCEPT !.pc = "collect", !.route = route]
      /\ UNCHANGED <<tvars, saw>>
  BY DEF Alert, At
<1>2. inc \in Incident
  BY DEF RecInv, Replays
<1>3. /\ inc' \in Incident /\ inc'.pc = "collect" /\ inc'.route = route
      /\ inc'.samples = inc.samples /\ inc'.left = inc.left /\ inc'.wait = inc.wait
  BY <1>1, <1>2 DEF Incident, Stages
<1>4. App' /\ Stored'
  BY <1>1 DEF RecInv, App, Stored, tvars
<1>5. Replays'
  BY <1>1, <1>3 DEF RecInv, Replays, tvars
<1>6. Covered' /\ Visible'
  BY <1>1, <1>3 DEF RecInv, Covered, Visible
<1> QED
  BY <1>4, <1>5, <1>6 DEF RecInv

LEMMA CollectStep == ASSUME RecInv, NEW answers \in BOOLEAN, Collect(answers) PROVE RecInv'
<1> DEFINE lines == CollectLogs(answers)
           ev    == Latest(lines)
<1>1. PICK traces \in CollectTraces : \E samples \in Samples(lines, traces) :
                 inc' = [inc EXCEPT !.pc = "deploy", !.samples = samples]
  BY DEF Collect
<1>2. PICK samples \in Samples(lines, traces) :
                 inc' = [inc EXCEPT !.pc = "deploy", !.samples = samples]
  BY <1>1
<1>3. inc.pc = "collect" /\ saw' = [saw EXCEPT !.evidence = ev] /\ UNCHANGED tvars
  BY DEF Collect, At
<1>4. /\ loki \in Seq(1..Len(orders)) /\ unsent \in Seq(1..Len(orders)) /\ Len(orders) \in Nat
  BY DEF RecInv, App, Stored
<1>5. ev \subseteq 1..Len(orders) /\ traces \subseteq 1..Len(orders)
  <2>1. ev \subseteq 1..Len(orders)
    <3>1. lines = loki \/ lines = <<>>
      BY DEF CollectLogs
    <3> HIDE DEF lines
    <3>2. lines \in Seq(1..Len(orders))
      <4>1. <<>> \in Seq(1..Len(orders))
        OBVIOUS
      <4> QED
        BY <1>4, <3>1, <4>1
    <3>3. \A k \in DOMAIN lines : lines[k] \in 1..Len(orders)
      BY <3>2
    <3> QED
      BY <3>3 DEF Latest
  <2>2. loki \o unsent \in Seq(1..Len(orders))
    BY <1>4
  <2>3. ToSet(loki \o unsent) \subseteq 1..Len(orders)
    <3> DEFINE l == loki \o unsent
    <3> HIDE DEF l
    <3>1. l \in Seq(1..Len(orders)) => ToSet(l) \subseteq 1..Len(orders)
      BY DEF ToSet
    <3> QED
      BY <2>2, <3>1 DEF l
  <2> QED
    BY <2>1, <2>3 DEF CollectTraces
<1>7. /\ samples \subseteq 1..Len(orders) /\ Cardinality(samples) <= MaxPaths
      /\ ev \subseteq samples /\ ev \subseteq 1..Len(orders)
  BY <1>5 DEF Samples
<1> HIDE DEF ev, lines
<1>8. inc \in Incident /\ saw \in Seen /\ samples \in SUBSET Nat /\ ev \in SUBSET Nat
  BY <1>7 DEF RecInv, Replays
<1>9. /\ inc' \in Incident /\ inc'.pc = "deploy" /\ inc'.route = inc.route
      /\ inc'.samples = samples /\ inc'.left = inc.left /\ inc'.wait = inc.wait
  BY <1>2, <1>8 DEF Incident, Stages
<1>10. /\ saw' \in Seen /\ saw'.evidence = ev
       /\ saw'.failure = saw.failure /\ saw'.masked = saw.masked
       /\ saw'.replaced = saw.replaced
  BY <1>3, <1>8 DEF Seen
<1>11. App' /\ Stored'
  BY <1>3 DEF RecInv, App, Stored, tvars
<1>12. Replays'
  <2>1. /\ inc.left = {} /\ inc.route \in Route /\ Cardinality(inc.left) <= MaxPaths
        /\ inc.wait \in 0..Settle
    BY <1>3 DEF RecInv, Replays
  <2>2. orders' = orders
    BY <1>3 DEF tvars
  <2> QED
    BY <1>7, <1>9, <1>10, <2>1, <2>2 DEF Replays
<1>13. Covered' /\ Visible'
  BY <1>3, <1>7, <1>9, <1>10 DEF RecInv, Covered, Visible
<1> QED
  BY <1>11, <1>12, <1>13 DEF RecInv

LEMMA DeployStep ==
    ASSUME RecInv, NEW v \in Fix, NEW requests \in SUBSET DOMAIN orders, NEW healthy \in BOOLEAN,
           Deploy(v, requests, healthy)
    PROVE  RecInv'
<1>1. PICK paths \in VerificationPaths(inc.samples, requests) :
          inc' = [inc EXCEPT !.pc = "read_before", !.base = version, !.samples = {},
                             !.left = paths, !.ok = healthy, !.wait = Settle]
  BY DEF Deploy
<1>2. inc.pc = "deploy" /\ Start(v) /\ UNCHANGED saw
  BY DEF Deploy, At
<1>3. App' /\ Stored' /\ UNCHANGED orders
  BY <1>2, Constants, StartStep DEF RecInv
<1>4. /\ inc \in Incident /\ saw \in Seen /\ version \in SUBSET Kind /\ Settle \in Int
      /\ Len(orders) \in Nat /\ DOMAIN orders = 1..Len(orders)
  BY Constants DEF RecInv, Replays, App
<1>5. /\ inc.samples \subseteq paths /\ paths \subseteq 1..Len(orders)
      /\ Cardinality(paths) <= MaxPaths
  BY <1>4 DEF VerificationPaths, RecInv, Replays
<1>6. paths \in SUBSET Nat
  BY <1>5
<1>7. /\ inc' \in Incident /\ inc'.pc = "read_before" /\ inc'.route = inc.route
      /\ inc'.samples = {} /\ inc'.left = paths /\ inc'.wait = Settle
  BY <1>1, <1>4, <1>6 DEF Incident, Stages
<1>8. Replays'
  <2>1. /\ inc.route \in Route /\ saw.evidence \subseteq 1..Len(orders)
        /\ Settle \in 0..Settle
    BY <1>2, Constants DEF RecInv, Replays
  <2>2. Cardinality({}) <= MaxPaths
    BY FS_EmptySet, Constants
  <2>3. saw' = saw /\ orders' = orders
    BY <1>2, <1>3
  <2> QED
    BY <1>4, <1>5, <1>7, <2>1, <2>2, <2>3 DEF Replays
<1>9. Covered' /\ Visible'
  BY <1>2, <1>5, <1>7 DEF RecInv, Covered, Visible
<1> QED
  BY <1>3, <1>8, <1>9 DEF RecInv

LEMMA ReadBeforeStep ==
    ASSUME RecInv, NEW answered \in BOOLEAN, ReadBefore(answered)
    PROVE  RecInv'
<1> DEFINE before == FiveXXTotal(inc.route)
           ok     == inc.ok /\ answered
<1>1. /\ inc.pc = "read_before" /\ UNCHANGED <<tvars, saw>>
      /\ inc' = [inc EXCEPT !.pc = "replay", !.before = before, !.ok = ok]
  BY DEF ReadBefore, At
<1>2. /\ App /\ Stored /\ inc \in Incident /\ saw \in Seen /\ inc.route \in Route
  BY <1>1 DEF RecInv, Replays
<1>3. before = Total
  BY DEF FiveXXTotal, SumOf, Total
<1>4. Total \in Int /\ Owed \in Int /\ Total <= Owed
  BY <1>2, Sizes
<1>5. ok \in BOOLEAN /\ before \in Int
  BY <1>3, <1>4
<1> HIDE DEF before, ok
<1>6. /\ inc' \in Incident /\ inc'.pc = "replay" /\ inc'.route = inc.route
      /\ inc'.samples = inc.samples /\ inc'.left = inc.left /\ inc'.wait = inc.wait
      /\ inc'.before = before
  BY <1>1, <1>2, <1>5 DEF Incident, Stages
<1>7. App' /\ Stored'
  BY <1>1, <1>2 DEF App, Stored, tvars
<1>8. Replays'
  <2>1. saw' = saw /\ orders' = orders
    BY <1>1 DEF tvars
  <2> QED
    BY <1>1, <1>2, <1>6, <2>1 DEF RecInv, Replays
<1>9. Covered'
  BY <1>1, <1>6 DEF RecInv, Covered
<1>10. Visible'
  <2>1. ~saw'.failure
    BY <1>1 DEF RecInv, Visible
  <2>2. Owed' = Owed
    BY <1>1, <1>6 DEF Owed, Total, tvars
  <2>3. inc'.before <= Owed'
    BY <1>3, <1>4, <1>6, <2>2
  <2> QED
    BY <1>6, <2>1, <2>3 DEF Visible
<1> QED
  BY <1>7, <1>8, <1>9, <1>10 DEF RecInv

LEMMA ReplayStep ==
    ASSUME RecInv, NEW id \in DOMAIN orders, NEW reached \in BOOLEAN, Replay(id, reached)
    PROVE  RecInv'
<1> DEFINE left == inc.left \ {id}
           ok   == inc.ok /\ reached /\ orders[id] \notin version
<1>1. /\ inc.pc = "replay" /\ id \in inc.left /\ saw' = Noticed
      /\ inc' = [inc EXCEPT !.left = left, !.ok = ok]
      /\ GetOrder(id) \/ UNCHANGED tvars
  BY DEF Replay, At
<1>2. /\ App /\ Stored /\ Replays /\ inc \in Incident /\ saw \in Seen /\ inc.route \in Route
      /\ Len(orders) \in Nat /\ DOMAIN orders = 1..Len(orders)
  BY <1>1 DEF RecInv, Replays, App
<1>3. App' /\ Stored' /\ Serves
  <2>1. CASE GetOrder(id)
    BY <1>2, <2>1, GetServes
  <2>2. CASE UNCHANGED tvars
    <3>1. App' /\ Stored'
      BY <1>2, <2>2 DEF App, Stored, tvars
    <3>2. \A r \in Route : count[r] \in Int
      BY <1>2, Sample
    <3> QED
      BY <1>2, <2>2, <3>1, <3>2 DEF Serves, tvars
  <2> QED
    BY <1>1, <2>1, <2>2
<1>4. left \in SUBSET Nat /\ ok \in BOOLEAN
  BY <1>2 DEF Incident
<1>5. /\ left \subseteq 1..Len(orders) /\ Cardinality(left) <= MaxPaths
  <2>1. inc.left \subseteq 1..Len(orders) /\ Cardinality(inc.left) <= MaxPaths
    BY <1>2 DEF Replays
  <2>2. IsFiniteSet(inc.left)
    <3>1. IsFiniteSet(1..Len(orders))
      BY <1>2, FS_Interval
    <3> QED
      BY <2>1, <3>1, FS_Subset
  <2>3. /\ Cardinality(left) <= Cardinality(inc.left)
        /\ Cardinality(left) \in Nat /\ Cardinality(inc.left) \in Nat
    BY <2>2, FS_Subset, FS_CardinalityType
  <2> QED
    BY <2>1, <2>3, Constants
<1> HIDE DEF left, ok
<1>6. /\ inc' \in Incident /\ inc'.pc = "replay" /\ inc'.route = inc.route
      /\ inc'.samples = inc.samples /\ inc'.left = left /\ inc'.wait = inc.wait
      /\ inc'.before = inc.before /\ inc'.ok = ok
  BY <1>1, <1>2, <1>4 DEF Incident, Stages
<1>7. /\ saw' \in Seen /\ saw'.evidence = saw.evidence
      /\ ~saw'.replaced => ~saw.replaced
  BY <1>1, <1>2, NoticedFacts
<1>8. Visible'
  BY <1>1, <1>3, <1>6, VisibleServed
<1>9. Replays'
  <2>1. Len(orders) <= Len(orders') /\ Len(orders') \in Nat
    BY <1>3 DEF Serves, App
  <2>2. 1..Len(orders) \subseteq 1..Len(orders')
    BY <1>2, <2>1
  <2>3. /\ inc.samples = {} /\ inc.wait \in 0..Settle /\ Cardinality(inc.samples) <= MaxPaths
        /\ saw.evidence \subseteq 1..Len(orders)
    BY <1>1, <1>2 DEF Replays
  <2> QED
    BY <1>2, <1>5, <1>6, <1>7, <2>2, <2>3 DEF Replays
<1>10. Covered'
  <2>1. ASSUME ok, ~saw'.replaced, NEW e \in saw.evidence
        PROVE  e \in left \/ orders'[e] \notin version'
    <3>1. inc.ok /\ orders[id] \notin version
      BY <2>1 DEF ok
    <3>2. ~saw.replaced
      BY <1>7, <2>1
    <3>3. e \in inc.left \/ orders[e] \notin version
      BY <1>1, <2>1, <3>1, <3>2 DEF RecInv, Covered
    <3>4. e \in 1..Len(orders)
      BY <1>2, <2>1 DEF Replays
    <3>5. orders'[e] = orders[e] /\ version' = version
      BY <1>3, <3>4 DEF Serves
    <3> QED
      BY <3>1, <3>3, <3>5 DEF left
  <2>2. inc'.ok /\ ~saw'.replaced =>
          \A e \in saw'.evidence : e \in inc'.left \/ orders'[e] \notin version'
    BY <1>6, <1>7, <2>1
  <2> QED
    BY <1>6, <2>2 DEF Covered
<1> QED
  BY <1>3, <1>8, <1>9, <1>10 DEF RecInv

LEMMA SleepAgainStep == ASSUME RecInv, SleepAgain PROVE RecInv'
<1>1. /\ inc.pc = "replay" /\ inc.left = {} /\ UNCHANGED <<tvars, saw>>
      /\ inc' = [inc EXCEPT !.pc = "read_after", !.wait = Settle]
  BY DEF SleepAgain, At, Pause
<1>2. /\ App /\ Stored /\ inc \in Incident /\ saw \in Seen /\ Settle \in Int
      /\ since \in Nat /\ Settle \in Nat
  BY Constants DEF RecInv, Replays, App
<1>3. /\ inc' \in Incident /\ inc'.pc = "read_after" /\ inc'.route = inc.route
      /\ inc'.samples = inc.samples /\ inc'.left = {} /\ inc'.wait = Settle
      /\ inc'.before = inc.before
  BY <1>1, <1>2 DEF Incident, Stages
<1>a. inc'.ok = inc.ok
  BY <1>1, <1>2 DEF Incident
<1>4. App' /\ Stored'
  BY <1>1, <1>2 DEF App, Stored, tvars
<1>5. saw' = saw /\ orders' = orders /\ version' = version /\ since' = since
  BY <1>1 DEF tvars
<1>6. Replays'
  <2>1. Settle \in 0..Settle
    BY <1>2
  <2> QED
    BY <1>1, <1>2, <1>3, <1>5, <2>1 DEF RecInv, Replays
<1>7. Covered'
  BY <1>1, <1>3, <1>a, <1>5 DEF RecInv, Covered
<1>8. Visible'
  <2>1. Owed' = Owed
    BY <1>1, <1>3 DEF Owed, Total, tvars
  <2>2. Delay < since' + inc'.wait
    BY <1>2, <1>3, <1>5, Constants
  <2> QED
    BY <1>1, <1>3, <1>5, <2>1, <2>2 DEF RecInv, Visible
<1> QED
  BY <1>4, <1>6, <1>7, <1>8 DEF RecInv

LEMMA ReadAfterStep ==
    ASSUME RecInv, NEW answered \in BOOLEAN, ReadAfter(answered)
    PROVE  RecInv'
<1> DEFINE pc == IF Recovered(answered) THEN "resolved" ELSE "rollback"
<1>1. /\ inc.pc = "read_after" /\ UNCHANGED <<tvars, saw>> /\ inc' = [inc EXCEPT !.pc = pc]
  BY DEF ReadAfter, At
<1>2. pc \in {"resolved", "rollback"} /\ App /\ Stored /\ inc \in Incident
  BY DEF RecInv, Replays
<1> HIDE DEF pc
<1>3. /\ inc' \in Incident /\ inc'.pc = pc /\ inc'.route = inc.route
      /\ inc'.samples = inc.samples /\ inc'.left = inc.left /\ inc'.wait = inc.wait
  BY <1>1, <1>2 DEF Incident, Stages
<1>4. App' /\ Stored'
  BY <1>1, <1>2 DEF App, Stored, tvars
<1>5. saw' = saw /\ orders' = orders
  BY <1>1 DEF tvars
<1>6. Replays'
  BY <1>1, <1>2, <1>3, <1>5 DEF RecInv, Replays
<1>7. Covered' /\ Visible'
  BY <1>2, <1>3 DEF Covered, Visible
<1> QED
  BY <1>4, <1>6, <1>7 DEF RecInv

LEMMA RollbackStep == ASSUME RecInv, Rollback PROVE RecInv'
<1>1. /\ inc.pc = "rollback" /\ Start(inc.base) /\ UNCHANGED saw
      /\ inc' = [inc EXCEPT !.pc = "rolled_back"]
  BY DEF Rollback, At
<1>2. inc \in Incident /\ inc.base \in SUBSET Kind
  BY DEF RecInv, Replays, Incident
<1>3. App' /\ Stored' /\ UNCHANGED orders
  BY <1>1, <1>2, StartStep DEF RecInv
<1>4. /\ inc' \in Incident /\ inc'.pc = "rolled_back" /\ inc'.route = inc.route
      /\ inc'.samples = inc.samples /\ inc'.left = inc.left /\ inc'.wait = inc.wait
  BY <1>1, <1>2 DEF Incident, Stages
<1>5. Replays'
  BY <1>1, <1>3, <1>4 DEF RecInv, Replays
<1>6. Covered' /\ Visible'
  BY <1>4 DEF Covered, Visible
<1> QED
  BY <1>3, <1>5, <1>6 DEF RecInv
-----------------------------------------------------------------------------
LEMMA RecInvInit == RecInit => RecInv
<1> SUFFICES ASSUME RecInit PROVE RecInv
  OBVIOUS
<1>1. OInit /\ inc = [pc |-> "idle", route |-> NoRoute, base |-> Original, samples |-> {},
                     left |-> {}, before |-> 0, ok |-> TRUE, wait |-> 0]
      /\ saw = [evidence |-> {}, failure |-> FALSE, masked |-> FALSE, replaced |-> FALSE]
  BY DEF RecInit
<1>2. NoCount \in [Route -> 0..MaxFailures] /\ Original \in SUBSET Kind
  BY Constants DEF NoCount, Original, Kind
<1>3. App
  <2>1. KindOf("standard", 1) \in Kind /\ KindOf("express", Month) \in Kind
    BY DEF KindOf, Kind
  <2>2. orders \in Seq(Kind)
    BY <1>1, <2>1 DEF OInit
  <2>3. process \in 1..MaxProcesses /\ since \in 0..Delay /\ unsent \in Seq(1..Len(orders))
    BY <1>1, Constants DEF OInit
  <2> QED
    BY <1>1, <1>2, <2>2, <2>3 DEF App, OInit
<1>4. Stored
  <2>1. loki \in Seq(1..Len(orders)) /\ Len(loki) <= LogLimit
    BY <1>1, Constants DEF OInit
  <2>2. /\ prom = [p \in 1..MaxProcesses |-> NoCount] /\ count = NoCount
        /\ process \in 1..MaxProcesses
    BY <1>1, Constants DEF OInit
  <2>3. \A r \in Route : NoCount[r] <= NoCount[r]
    BY DEF NoCount
  <2> QED
    BY <1>2, <2>1, <2>2, <2>3 DEF Stored
<1>5. Replays
  <2>1. inc \in Incident /\ saw \in Seen
    BY <1>1, <1>2 DEF Incident, Seen, Stages
  <2>2. Cardinality({}) <= MaxPaths /\ 0 \in 0..Settle
    BY FS_EmptySet, Constants
  <2> QED
    BY <1>1, <2>1, <2>2 DEF Replays
<1>6. Covered /\ Visible
  BY <1>1 DEF Covered, Visible
<1> QED
  BY <1>3, <1>4, <1>5, <1>6 DEF RecInv

LEMMA RecInvStep == RecInv /\ [RecNext]_rvars => RecInv'
<1> SUFFICES ASSUME RecInv, [RecNext]_rvars PROVE RecInv'
  OBVIOUS
<1>1. CASE UNCHANGED rvars
  BY <1>1 DEF rvars, tvars, RecInv, App, Stored, Replays, Covered, Visible, Total, Owed
<1> QED
  BY <1>1, EnvironmentStep, AlertStep, CollectStep, DeployStep, ReadBeforeStep, ReadAfterStep,
     ReplayStep, SleepAgainStep, RollbackStep DEF RecNext

(* While a fix is verified, a failure on its route is in the counters that *)
(* are read, or will be before verify-recovery.sh has slept; and the       *)
(* orders that failed last are still to be replayed or were served.        *)
THEOREM RecInvCorrect == RecSpec => []RecInv
<1>1. RecInit => RecInv
  BY RecInvInit
<1>2. RecInv /\ [RecNext]_rvars => RecInv'
  BY RecInvStep
<1> QED
  BY <1>1, <1>2, PTL DEF RecSpec

(* The types of the app and of the incident: no counter of a series is     *)
(* above that of its process, the lines are of orders that exist, and no   *)
(* more requests are replayed than the cap of _verification_paths.         *)
THEOREM RecTypeHolds == RecSpec => []RecTypeOK
<1>1. RecInv => RecTypeOK
  <2> SUFFICES ASSUME RecInv PROVE RecTypeOK
    OBVIOUS
  <2>1. DOMAIN orders = 1..Len(orders)
    BY DEF RecInv, App
  <2>2. ToSet(unsent \o loki) \subseteq DOMAIN orders
    <3> DEFINE l == unsent \o loki
    <3>1. l \in Seq(1..Len(orders))
      BY DEF RecInv, App, Stored
    <3> HIDE DEF l
    <3>2. ToSet(l) \subseteq 1..Len(orders)
      BY <3>1 DEF ToSet
    <3> QED
      BY <2>1, <3>2 DEF l
  <2>3. OTypeOK
    BY <2>2 DEF RecInv, App, Stored, OTypeOK
  <2>4. inc.samples \cup inc.left = inc.samples \/ inc.samples \cup inc.left = inc.left
    BY DEF RecInv, Replays
  <2>5. Cardinality(inc.samples \cup inc.left) <= MaxPaths
    BY <2>4 DEF RecInv, Replays
  <2> QED
    BY <2>1, <2>3, <2>5 DEF RecInv, Replays, RecTypeOK, Incident, Stages
<1> QED
  BY <1>1, RecInvCorrect, PTL

(* Only the second read declares a fix to work.                            *)
LEMMA OnlyReadAfter ==
    ASSUME RecInv, RecNext, Resolves
    PROVE  \E answered \in BOOLEAN : ReadAfter(answered)
<1>1. inc.pc = "read_after" /\ inc'.pc = "resolved" /\ inc \in Incident
  BY DEF Resolves, RecInv, Replays
<1>2. ASSUME Environment PROVE FALSE
  <2>1. inc' = inc \/ inc' = [inc EXCEPT !.wait = IF @ > 0 THEN @ - 1 ELSE 0]
    BY <1>2 DEF Environment
  <2>2. inc'.pc = inc.pc
    BY <1>1, <2>1 DEF Incident
  <2> QED
    BY <1>1, <2>2
<1> QED
  BY <1>1, <1>2 DEF RecNext, Alert, Collect, Deploy, ReadBefore, Replay, SleepAgain, Rollback, At

(* verify-recovery.sh: no failure on the route after its first read of the *)
(* counter and more than an export interval before the second is missed,   *)
(* as long as the app is not restarted and no series of an older process   *)
(* goes away.                                                              *)
THEOREM FailuresAreNoticedHolds == RecSpec => FailuresAreNoticed
<1>1. RecInv /\ [RecNext]_rvars => [Resolves => ~saw.failure \/ saw.masked]_rvars
  <2> SUFFICES ASSUME RecInv, RecNext, Resolves, saw.failure, ~saw.masked PROVE FALSE
    OBVIOUS
  <2>1. PICK answered \in BOOLEAN : ReadAfter(answered)
    BY OnlyReadAfter
  <2>2. inc.wait = 0 /\ inc.pc = "read_after" /\ Recovered(answered)
    BY <2>1 DEF ReadAfter, At, Resolves
  <2>3. App /\ Stored /\ inc.route \in Route /\ inc.before \in Int
    BY <2>2 DEF RecInv, Replays, Incident
  <2>4. FiveXXTotal(inc.route) <= inc.before /\ FiveXXTotal(inc.route) = Total
    BY <2>2 DEF Recovered, FiveXXTotal, SumOf, Total
  <2>5. Total \in Int
    BY <2>3, Sizes
  <2>6. ~(inc.before < Total)
    BY <2>3, <2>4, <2>5
  <2>7. Delay < since + inc.wait
    BY <2>2, <2>6 DEF RecInv, Visible
  <2>8. since \in 0..Delay
    BY <2>3 DEF App
  <2> QED
    BY <2>2, <2>7, <2>8, Constants
<1> QED
  BY <1>1, RecInvCorrect, PTL DEF RecSpec, FailuresAreNoticed

(* A fix that is declared to work serves the orders that failed last, as   *)
(* many as the cap lets be replayed, for any number of log lines and any   *)
(* cap, unless another version was started during the verification.        *)
THEOREM EvidenceIsServedHolds == RecSpec => EvidenceIsServed
<1>1. RecInv /\ [RecNext]_rvars =>
        [Resolves => saw.replaced \/ \A id \in saw.evidence : orders[id] \notin version]_rvars
  <2> SUFFICES ASSUME RecInv, RecNext, Resolves, ~saw.replaced, NEW id \in saw.evidence
               PROVE  orders[id] \notin version
    OBVIOUS
  <2>1. PICK answered \in BOOLEAN : ReadAfter(answered)
    BY OnlyReadAfter
  <2>2. inc.pc = "read_after" /\ inc.ok
    BY <2>1 DEF ReadAfter, At, Resolves, Recovered
  <2> QED
    BY <2>2 DEF RecInv, Covered
<1> QED
  BY <1>1, RecInvCorrect, PTL DEF RecSpec, EvidenceIsServed
=============================================================================
