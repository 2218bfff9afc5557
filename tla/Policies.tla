------------------------------ MODULE Policies ------------------------------
(***************************************************************************)
(* The worker-selection policies of crates/router/src/policies, as sets of *)
(* possible answers.                                                       *)
(*                                                                         *)
(* A policy is called with the list of the n workers that are healthy now  *)
(* and returns a POSITION in that list, 0 .. n-1.  Its counters, though,   *)
(* are indexed by the worker's place in the whole pool.  The code reads    *)
(* active[position] all the same, and so do these operators: `active' is   *)
(* the vector over the whole pool, indexed here by positions.              *)
(*                                                                         *)
(* Random choices are sets; the empty set is a panic (an empty gen_range). *)
(* All counters are read at one instant here; module Selection interleaves *)
(* the reads.                                                              *)
(***************************************************************************)
EXTENDS Integers, FiniteSets

PolicyNames == {"least_loaded", "power_of_two", "random", "round_robin",
                "session_affinity", "prefix_affinity", "load_cache_aware"}

\* The policies that implement on_request_start and on_request_end.
Tracking == {"least_loaded", "power_of_two", "prefix_affinity", "load_cache_aware"}

Positions(n) == 0 .. n-1

-----------------------------------------------------------------------------

\* LeastLoaded: `best' starts at random but `least' starts at worker 0's load,
\* and only a strictly smaller load moves `best'.
LeastLoadedPicks(active, n) ==
    LET lighter == {i \in Positions(n) : active[i] < active[0]}
    IN  IF lighter = {}
        THEN Positions(n)
        ELSE {i \in lighter : \A k \in lighter :
                 active[i] < active[k] \/ (active[i] = active[k] /\ i <= k)}

\* PowerOfTwo: the lighter of two positions drawn independently.
PowerOfTwoPicks(active, n) ==
    {IF active[a] <= active[b] THEN a ELSE b : a, b \in Positions(n)}

\* RoundRobin: the shared counter modulo the number of healthy workers.
RoundRobinPicks(counter, n) == {counter % n}

\* SessionAffinity: the session's hash modulo the number of healthy workers.
SessionPicks(session, n) == {session % n}

\* jsq_fallback: the minimum is over every counter of the pool, the candidates
\* only over the first n.
JsqPicks(active, n) ==
    {i \in Positions(n) : \A k \in DOMAIN active : active[i] <= active[k]}

\* PrefixAffinity: the prefix's own worker while it is below the threshold.
PrefixPicks(active, n, prefix, threshold) ==
    LET preferred == prefix % n
    IN  CASE n = 1 -> {0}
          [] n # 1 /\ active[preferred] < threshold -> {preferred}
          [] n # 1 /\ ~(active[preferred] < threshold) -> JsqPicks(active, n)

-----------------------------------------------------------------------------
(* LoadCacheAware.  Scores are the code's multiplied by 20 * max_load, so   *)
(* that 0.7 * affinity - 0.3 * load / max_load becomes an integer.          *)

\* Affinity of position i, doubled: the session entry overrides the prefix
\* entry, also when both name the same worker.
Affinity(i, prefixed, sessioned) ==
    IF i = sessioned THEN 1 ELSE IF i = prefixed THEN 2 ELSE 0

\* loads.iter().max().max(1), over the whole pool.
MaxLoad(active) ==
    CHOOSE m \in {active[k] : k \in DOMAIN active} \cup {1} :
        m >= 1 /\ \A k \in DOMAIN active : m >= active[k]

\* Mutant of Score: alpha and beta swapped.
ScoreLoadFirst(active, i, prefixed, sessioned) ==
    3 * MaxLoad(active) * Affinity(i, prefixed, sessioned) - 14 * active[i]

Score(active, i, prefixed, sessioned) ==
    7 * MaxLoad(active) * Affinity(i, prefixed, sessioned) - 6 * active[i]

\* Mutant of CacheAwarePicks: only a score above all others is taken.
UniqueBestPicks(active, n, prefixed, sessioned) ==
    IF n = 1 THEN {0}
    ELSE {i \in Positions(n) : \A k \in Positions(n) \ {i} :
             Score(active, i, prefixed, sessioned) > Score(active, k, prefixed, sessioned)}

CacheAwarePicks(active, n, prefixed, sessioned) ==
    IF n = 1 THEN {0}
    ELSE {i \in Positions(n) : \A k \in Positions(n) :
             Score(active, i, prefixed, sessioned) >= Score(active, k, prefixed, sessioned)}

-----------------------------------------------------------------------------

\* select_with_context, dispatched on the configured policy.  `prefixed' and
\* `sessioned' are the worker indices the cache directory holds for the request.
Picks(policy, threshold, active, counter, n, session, prefix, prefixed, sessioned) ==
    CASE policy = "least_loaded"     -> LeastLoadedPicks(active, n)
      [] policy = "power_of_two"     -> PowerOfTwoPicks(active, n)
      [] policy = "random"           -> Positions(n)
      [] policy = "round_robin"      -> RoundRobinPicks(counter, n)
      [] policy = "session_affinity" -> SessionPicks(session, n)
      [] policy = "prefix_affinity"  -> PrefixPicks(active, n, prefix, threshold)
      [] policy = "load_cache_aware" -> CacheAwarePicks(active, n, prefixed, sessioned)
=============================================================================
