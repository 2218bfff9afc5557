--------------------------- MODULE PoliciesProofs ---------------------------
(***************************************************************************)
(* What the policies of Policies answer, for every load vector and every   *)
(* number of workers.  The first part is about loops over naturals, and of *)
(* use elsewhere: induction on the set of the numbers a fact holds for,    *)
(* and the existence of the function that a recursive definition           *)
(* f[k \in 0 .. m] == IF k = 0 THEN init ELSE ... chooses, for steps given *)
(* as a function, both without operator parameters.                        *)
(***************************************************************************)
EXTENDS Policies, WellFoundedInduction, TLAPS

\* Every nonempty set of naturals has a least element.
LEMMA LeastNatural ==
  ASSUME NEW T \in SUBSET Nat, T # {}
  PROVE  \E x \in T : \A y \in T : x <= y
<1>1. PICK x \in T : \A y \in T : ~(<<y, x>> \in OpToRel(<, Nat))
  BY WFMin, NatLessThanWellFounded
<1>2. ASSUME NEW y \in T PROVE x <= y
  <2>1. ~(y < x)
    BY <1>1 DEF OpToRel
  <2> QED
    BY <2>1
<1> QED
  BY <1>2

\* A set that contains 0 and, up to m, the successor of each of its members
\* contains every number up to m.
LEMMA UpToInduction ==
  ASSUME NEW m \in Nat, NEW T, 0 \in T, \A k \in 0 .. m-1 : k \in T => k + 1 \in T
  PROVE  \A k \in 0 .. m : k \in T
<1> DEFINE Out == {k \in 0 .. m : k \notin T}
<1> SUFFICES ASSUME Out # {} PROVE FALSE
  OBVIOUS
<1>1. PICK x \in Out : \A y \in Out : x <= y
  <2>1. Out \in SUBSET Nat
    OBVIOUS
  <2> HIDE DEF Out
  <2> QED
    BY <2>1, LeastNatural
<1>2. x # 0 /\ x \in 0 .. m /\ x \notin T
  OBVIOUS
<1>3. x - 1 \in 0 .. m-1 /\ x - 1 \notin Out
  BY <1>1, <1>2
<1>4. x - 1 \in T
  BY <1>3
<1>5. (x - 1) + 1 \in T
  BY <1>3, <1>4
<1> QED
  BY <1>2, <1>5

\* The runs of m steps from init: the values f[0] .. f[m] of a loop.
Iterations(S, m, init, step) ==
    {f \in [0 .. m -> S] : f[0] = init /\ \A k \in 1 .. m : f[k] = step[<<f[k-1], k>>]}

\* A step that stays in S can be iterated any number of times.
LEMMA IterationsExist ==
  ASSUME NEW S, NEW m \in Nat, NEW init \in S, NEW step \in [S \X (1 .. m) -> S]
  PROVE  Iterations(S, m, init, step) # {}
<1> DEFINE Runs(f, k) == /\ f \in [0 .. k -> S]
                         /\ f[0] = init
                         /\ \A i \in 1 .. k : f[i] = step[<<f[i-1], i>>]
           T == {k \in 0 .. m : \E f : Runs(f, k)}
<1>1. 0 \in T
  <2>1. Runs([i \in 0 .. 0 |-> init], 0)
    OBVIOUS
  <2> HIDE DEF Runs
  <2>2. \E f : Runs(f, 0)
    BY <2>1
  <2> QED
    BY <2>2
<1>2. ASSUME NEW k \in 0 .. m-1, k \in T PROVE k + 1 \in T
  <2>1. PICK f : Runs(f, k)
    BY <1>2
  <2> DEFINE g == [i \in 0 .. k+1 |-> IF i <= k THEN f[i] ELSE step[<<f[k], k+1>>]]
  <2>2. step[<<f[k], k+1>>] \in S
    BY <2>1
  <2>3. g \in [0 .. k+1 -> S] /\ g[0] = init
    BY <2>1, <2>2
  <2>4. ASSUME NEW i \in 1 .. k+1 PROVE g[i] = step[<<g[i-1], i>>]
    <3>1. CASE i <= k
      BY <2>1, <3>1
    <3>2. CASE i = k + 1
      BY <3>2
    <3> QED
      BY <3>1, <3>2
  <2>5. Runs(g, k+1)
    BY <2>3, <2>4
  <2> HIDE DEF Runs, g
  <2>6. \E h : Runs(h, k+1)
    BY <2>5
  <2> QED
    BY <2>6
<1>3. m \in T
  <2> HIDE DEF T
  <2> QED
    BY <1>1, <1>2, UpToInduction
<1>4. PICK f : Runs(f, m)
  BY <1>3
<1>5. f \in Iterations(S, m, init, step)
  BY <1>4 DEF Iterations
<1> QED
  BY <1>5

\* Hence the value of a recursive definition
\*   f[k \in 0 .. m] == IF k = 0 THEN init ELSE step[<<f[k-1], k>>]
\* is what its equation says.
LEMMA IterationsSolve ==
  ASSUME NEW S, NEW m \in Nat, NEW init, NEW step, NEW f \in Iterations(S, m, init, step)
  PROVE  /\ f = [k \in 0 .. m |-> IF k = 0 THEN init ELSE step[<<f[k-1], k>>]]
         /\ \A k \in 0 .. m : f[k] \in S
<1>1. f \in [0 .. m -> S] /\ f[0] = init /\ \A k \in 1 .. m : f[k] = step[<<f[k-1], k>>]
  BY DEF Iterations
<1>2. f = [k \in 0 .. m |-> f[k]]
  BY <1>1
<1>3. \A k \in 0 .. m : f[k] = IF k = 0 THEN init ELSE step[<<f[k-1], k>>]
  BY <1>1
<1>4. f = [k \in 0 .. m |-> IF k = 0 THEN init ELSE step[<<f[k-1], k>>]]
  BY <1>2, <1>3
<1> QED
  BY <1>1, <1>4

-----------------------------------------------------------------------------
(* The policies.                                                           *)

\* A load vector: one machine counter per worker of a pool of at least n.
Loads(active, n) ==
    /\ n \in Nat \ {0}
    /\ \E m, u \in Nat : n <= m /\ active \in [0 .. m-1 -> 0 .. u]

\* Among some positions there is one with the least load, and a first such.
LEMMA LeastLoadExists ==
  ASSUME NEW n, NEW active, Loads(active, n), NEW S \in SUBSET Positions(n), S # {}
  PROVE  \E i \in S : \A k \in S :
             active[i] < active[k] \/ (active[i] = active[k] /\ i <= k)
<1>1. \A i \in S : active[i] \in Nat /\ i \in Nat
  BY DEF Loads, Positions
<1> DEFINE values == {active[i] : i \in S}
<1>2. values \in SUBSET Nat /\ values # {}
  BY <1>1
<1> HIDE DEF values
<1>3. PICK m \in values : \A v \in values : m <= v
  BY <1>2, LeastNatural
<1> DEFINE first == {i \in S : active[i] = m}
<1>4. first \in SUBSET Nat /\ first # {}
  BY <1>1, <1>3 DEF values
<1> HIDE DEF first
<1>5. PICK i \in first : \A k \in first : i <= k
  BY <1>4, LeastNatural
<1>6. i \in S /\ active[i] = m /\ m \in Nat
  BY <1>1, <1>5 DEF first
<1>7. ASSUME NEW k \in S
      PROVE  active[i] < active[k] \/ (active[i] = active[k] /\ i <= k)
  <2>1. m <= active[k] /\ active[k] \in Nat
    BY <1>1, <1>3 DEF values
  <2>2. active[k] = m => i <= k
    BY <1>5 DEF first
  <2> QED
    BY <1>6, <2>1, <2>2
<1> QED
  BY <1>6, <1>7

\* max_load is the largest counter, and at least one.
LEMMA MaxLoadBounds ==
  ASSUME NEW n, NEW active, Loads(active, n)
  PROVE  /\ MaxLoad(active) \in Nat \ {0}
         /\ \A k \in DOMAIN active : active[k] <= MaxLoad(active)
<1>1. PICK m, u \in Nat : n <= m /\ active \in [0 .. m-1 -> 0 .. u]
  BY DEF Loads
<1> DEFINE values == {active[k] : k \in DOMAIN active} \cup {1}
           bounds == {b \in Nat : b >= 1 /\ \A k \in DOMAIN active : b >= active[k]}
<1>2. \A k \in DOMAIN active : active[k] \in Nat /\ active[k] <= u
  BY <1>1
<1>3. u + 1 \in bounds
  BY <1>2
<1>4. PICK b \in bounds : \A c \in bounds : b <= c
  <2>1. bounds \in SUBSET Nat /\ bounds # {}
    BY <1>3
  <2> QED
    BY <2>1, LeastNatural
<1>5. b \in values
  <2> SUFFICES ASSUME b \notin values PROVE FALSE
    OBVIOUS
  <2>1. b # 1 /\ \A k \in DOMAIN active : b # active[k]
    OBVIOUS
  <2>2. b - 1 \in bounds
    BY <1>2, <1>4, <2>1
  <2> QED
    BY <1>4, <2>2
<1>6. \E v \in values : v >= 1 /\ \A k \in DOMAIN active : v >= active[k]
  BY <1>4, <1>5
<1>7. values \subseteq Nat
  BY <1>2
<1>8. MaxLoad(active) \in values /\ MaxLoad(active) >= 1
        /\ \A k \in DOMAIN active : MaxLoad(active) >= active[k]
  BY <1>6 DEF MaxLoad
<1> QED
  BY <1>2, <1>7, <1>8

\* Scores are integers no larger than 14 * max_load.
LEMMA ScoreBounds ==
  ASSUME NEW n, NEW active, NEW prefixed, NEW sessioned, Loads(active, n), NEW i \in Positions(n)
  PROVE  /\ Score(active, i, prefixed, sessioned) \in Int
         /\ 14 * MaxLoad(active) - Score(active, i, prefixed, sessioned) \in Nat
<1>1. MaxLoad(active) \in Nat
  BY MaxLoadBounds
<1>2. active[i] \in Nat
  BY DEF Positions, Loads
<1>3. Affinity(i, prefixed, sessioned) \in 0 .. 2
  BY DEF Affinity
<1>4. CASE Affinity(i, prefixed, sessioned) = 0
  BY <1>1, <1>2, <1>4 DEF Score
<1>5. CASE Affinity(i, prefixed, sessioned) = 1
  BY <1>1, <1>2, <1>5 DEF Score
<1>6. CASE Affinity(i, prefixed, sessioned) = 2
  BY <1>1, <1>2, <1>6 DEF Score
<1> QED
  BY <1>3, <1>4, <1>5, <1>6

\* So one of them is the highest.
LEMMA BestScoreExists ==
  ASSUME NEW n, NEW active, NEW prefixed, NEW sessioned, Loads(active, n)
  PROVE  \E i \in Positions(n) : \A k \in Positions(n) :
            Score(active, i, prefixed, sessioned) >= Score(active, k, prefixed, sessioned)
<1> DEFINE M == MaxLoad(active)
           score(i) == Score(active, i, prefixed, sessioned)
           gaps == {14 * M - score(i) : i \in Positions(n)}
<1>1. M \in Nat
  BY MaxLoadBounds
<1>2. \A i \in Positions(n) : score(i) \in Int /\ 14 * M - score(i) \in Nat
  BY ScoreBounds
<1> HIDE DEF score, M
<1>3. gaps \in SUBSET Nat /\ gaps # {}
  <2>1. 0 \in Positions(n)
    BY DEF Loads, Positions
  <2> QED
    BY <1>2, <2>1
<1>4. PICK g \in gaps : \A h \in gaps : g <= h
  BY <1>3, LeastNatural
<1>5. PICK i \in Positions(n) : g = 14 * M - score(i)
  BY <1>4
<1>6. ASSUME NEW k \in Positions(n) PROVE score(i) >= score(k)
  <2>1. 14 * M - score(i) <= 14 * M - score(k)
    BY <1>4, <1>5
  <2> QED
    BY <1>1, <1>2, <2>1
<1> QED
  BY <1>6 DEF score

-----------------------------------------------------------------------------

\* Whatever the loads, no policy answers outside the list it was given, so the
\* indexing of the list by next_worker_with_context cannot fail.
THEOREM PicksInRange ==
  ASSUME NEW policy \in PolicyNames, NEW threshold \in Nat, NEW active, NEW n, Loads(active, n),
         NEW counter \in Nat, NEW session \in Nat, NEW prefix \in Nat,
         NEW prefixed, NEW sessioned
  PROVE  Picks(policy, threshold, active, counter, n, session, prefix, prefixed, sessioned)
           \subseteq Positions(n)
<1>1. n \in Nat \ {0}
  BY DEF Loads
<1>2. 0 \in Positions(n) /\ \A h \in Nat : h % n \in Positions(n)
  BY <1>1 DEF Positions
<1>3. CASE policy = "least_loaded"
  BY <1>3 DEF Picks, LeastLoadedPicks
<1>4. CASE policy = "power_of_two"
  BY <1>4 DEF Picks, PowerOfTwoPicks
<1>5. CASE policy = "random"
  BY <1>5 DEF Picks
<1>6. CASE policy = "round_robin"
  BY <1>2, <1>6 DEF Picks, RoundRobinPicks
<1>7. CASE policy = "session_affinity"
  BY <1>2, <1>7 DEF Picks, SessionPicks
<1>8. CASE policy = "prefix_affinity"
  BY <1>2, <1>8 DEF Picks, PrefixPicks, JsqPicks
<1>9. CASE policy = "load_cache_aware"
  BY <1>2, <1>9 DEF Picks, CacheAwarePicks
<1> QED
  BY <1>3, <1>4, <1>5, <1>6, <1>7, <1>8, <1>9 DEF PolicyNames

\* Every policy but PrefixAffinity has an answer for every nonempty list: none
\* of their random draws is from an empty range.
THEOREM PicksNonempty ==
  ASSUME NEW policy \in PolicyNames, policy # "prefix_affinity",
         NEW threshold \in Nat, NEW active, NEW n, Loads(active, n),
         NEW counter \in Nat, NEW session \in Nat, NEW prefix \in Nat,
         NEW prefixed, NEW sessioned
  PROVE  Picks(policy, threshold, active, counter, n, session, prefix, prefixed, sessioned) # {}
<1>1. 0 \in Positions(n)
  BY DEF Loads, Positions
<1>2. CASE policy = "least_loaded"
  <2> DEFINE lighter == {i \in Positions(n) : active[i] < active[0]}
  <2>1. CASE lighter = {}
    BY <1>1, <1>2, <2>1 DEF Picks, LeastLoadedPicks
  <2>2. CASE lighter # {}
    <3>1. \E i \in lighter : \A k \in lighter :
             active[i] < active[k] \/ (active[i] = active[k] /\ i <= k)
      <4>1. lighter \in SUBSET Positions(n)
        OBVIOUS
      <4> QED
        BY <2>2, <4>1, LeastLoadExists
    <3> QED
      BY <1>2, <2>2, <3>1 DEF Picks, LeastLoadedPicks
  <2> QED
    BY <2>1, <2>2
<1>3. CASE policy = "power_of_two"
  BY <1>1, <1>3 DEF Picks, PowerOfTwoPicks
<1>4. CASE policy = "random"
  BY <1>1, <1>4 DEF Picks
<1>5. CASE policy = "round_robin"
  BY <1>5 DEF Picks, RoundRobinPicks
<1>6. CASE policy = "session_affinity"
  BY <1>6 DEF Picks, SessionPicks
<1>7. CASE policy = "load_cache_aware"
  BY <1>1, <1>7, BestScoreExists DEF Picks, CacheAwarePicks
<1> QED
  BY <1>2, <1>3, <1>4, <1>5, <1>6, <1>7 DEF PolicyNames

\* With the default weights an entry of the cache directory outweighs any load
\* vector, and a prefix entry any session entry, if the entry's index is one of
\* the list's positions.
THEOREM AffinityDominates ==
  ASSUME NEW active, NEW n, Loads(active, n), NEW prefixed, NEW sessioned,
         NEW target \in Positions(n),
         \/ target = prefixed
         \/ target = sessioned /\ prefixed \notin Positions(n)
  PROVE  CacheAwarePicks(active, n, prefixed, sessioned) \subseteq {target}
<1>1. CASE n = 1
  BY <1>1 DEF CacheAwarePicks, Positions
<1>2. CASE n # 1
  <2> DEFINE M == MaxLoad(active)
             score(i) == Score(active, i, prefixed, sessioned)
             aff(i) == Affinity(i, prefixed, sessioned)
  <2> SUFFICES ASSUME NEW k \in Positions(n), k # target
               PROVE  ~(score(k) >= score(target))
    BY <1>2 DEF CacheAwarePicks
  <2>1. M \in Nat \ {0}
    BY MaxLoadBounds
  <2>2. ASSUME NEW i \in Positions(n) PROVE active[i] \in 0 .. M
    <3>1. active[i] \in Nat /\ i \in DOMAIN active
      BY DEF Positions, Loads
    <3>2. active[i] <= M
      BY <3>1, MaxLoadBounds
    <3> QED
      BY <2>1, <3>1, <3>2
  <2>3. \/ aff(k) = 0 /\ aff(target) = 1
        \/ aff(k) = 0 /\ aff(target) = 2
        \/ aff(k) = 1 /\ aff(target) = 2
    BY DEF Affinity
  <2> HIDE DEF M
  <2>4. /\ score(k) = 7 * M * aff(k) - 6 * active[k]
        /\ score(target) = 7 * M * aff(target) - 6 * active[target]
    BY DEF Score, M
  <2> HIDE DEF aff, score
  <2>5. CASE aff(k) = 0 /\ aff(target) = 1
    BY <2>1, <2>2, <2>4, <2>5
  <2>6. CASE aff(k) = 0 /\ aff(target) = 2
    BY <2>1, <2>2, <2>4, <2>6
  <2>7. CASE aff(k) = 1 /\ aff(target) = 2
    BY <2>1, <2>2, <2>4, <2>7
  <2> QED
    BY <2>3, <2>5, <2>6, <2>7
<1> QED
  BY <1>1, <1>2

\* What "the fewest in-flight requests" (least_loaded.rs:9) comes to: the answers of
\* LeastLoaded are all least loaded exactly if some worker is lighter than worker 0, with
\* whose load every comparison starts, or all workers are loaded alike.
THEOREM FewestExactly ==
  ASSUME NEW active, NEW n, Loads(active, n)
  PROVE  (\A i \in LeastLoadedPicks(active, n) : \A k \in Positions(n) : active[i] <= active[k])
           <=> \/ \E k \in Positions(n) : active[k] < active[0]
               \/ \A k \in Positions(n) : active[k] = active[0]
<1> DEFINE lighter == {i \in Positions(n) : active[i] < active[0]}
<1>1. 0 \in Positions(n) /\ \A k \in Positions(n) : active[k] \in Nat
  BY DEF Loads, Positions
<1>2. CASE lighter # {}
  <2>1. ASSUME NEW i \in LeastLoadedPicks(active, n), NEW k \in Positions(n)
        PROVE  active[i] <= active[k]
    <3>1. i \in lighter /\ \A j \in lighter : active[i] <= active[j]
      BY <1>1, <1>2, <2>1 DEF LeastLoadedPicks
    <3>2. k \in lighter \/ active[0] <= active[k]
      BY <1>1
    <3> QED
      BY <1>1, <3>1, <3>2
  <2> QED
    BY <1>2, <2>1
<1>3. CASE lighter = {}
  <2>1. LeastLoadedPicks(active, n) = Positions(n)
    BY <1>3 DEF LeastLoadedPicks
  <2> QED
    BY <1>1, <1>3, <2>1
<1> QED
  BY <1>2, <1>3

=============================================================================
