----------------------------- MODULE Selection -----------------------------
(***************************************************************************)
(* The policies' selections read by read.  Module Policies takes all       *)
(* counters at one instant; in the code each is an atomic of its own, read *)
(* with Relaxed ordering while other requests start and end.  Here a scan  *)
(* reads one counter per step, in the order of the code's loops, and its   *)
(* answer is computed from what it read.  RoundRobin's only shared access  *)
(* is its fetch_add.                                                       *)
(*                                                                         *)
(* One scan is enough: a scan writes nothing another one reads, and what   *)
(* the others do to the counters when they are done is CounterChanges.     *)
(***************************************************************************)
EXTENDS Policies, Sequences

CONSTANTS
    Size,       \* number of workers in the pool
    Threshold,  \* PrefixAffinity's threshold
    MaxActive,  \* bound on the counters
    Usize       \* number of values of a usize

ASSUME SizeAssumption   == Size \in Nat \ {0}
ASSUME BoundsAssumption == {Threshold, MaxActive} \subseteq Nat /\ Usize \in Nat \ {0}

Scans == {"least_loaded", "prefix_affinity", "load_cache_aware"}
Pool  == 0 .. Size-1
None  == Size               \* no entry in the cache directory

VARIABLES
    policy,   \* the configured policy
    n,        \* workers in the healthy list
    active,   \* the counters
    busy,     \* a scan is under way
    one, two, \* what it starts with: its random start (least_loaded), its preferred
              \* worker (prefix_affinity), the prefix and session entries (load_cache_aware)
    vals,     \* the counters it has read so far
    counter,  \* RoundRobin.counter
    given     \* history: how often it has answered each position since it last wrapped

scanVars == <<busy, one, two, vals>>
robinVars == <<counter, given>>
vars == <<policy, n, active, scanVars, robinVars>>

\* Every variable has its type; a random or preferred worker is one of the list.
TypeOK ==
    /\ policy \in Scans \cup {"round_robin"}
    /\ n \in 1 .. Size
    /\ active \in [Pool -> 0 .. MaxActive]
    /\ busy \in BOOLEAN
    /\ one \in 0 .. Size /\ two \in 0 .. Size
    /\ busy /\ policy # "load_cache_aware" => one \in Positions(n)
    /\ vals \in Seq(0 .. MaxActive)
    /\ counter \in 0 .. Usize-1 /\ given \in [Positions(n) -> 0 .. Usize]

Init ==
    /\ policy \in Scans \cup {"round_robin"}
    /\ n \in 1 .. Size
    /\ active = [i \in Pool |-> 0]
    /\ busy = FALSE /\ one = None /\ two = None /\ vals = << >>
    /\ counter = 0 /\ given = [i \in Positions(n) |-> 0]

-----------------------------------------------------------------------------
(* Scans.                                                                  *)

\* Other requests start and end (at most MaxActive at a worker).
CounterChanges(i) ==
    /\ policy \in Scans
    /\ active' \in {[active EXCEPT ![i] = active[i] + 1], [active EXCEPT ![i] = active[i] - 1]}
    /\ active'[i] \in 0 .. MaxActive
    /\ UNCHANGED <<policy, n, scanVars, robinVars>>

\* Mutant of Begin: the random range includes its end.
BeginInclusive ==
    /\ policy \in Scans /\ ~busy
    /\ busy' = TRUE /\ vals' = << >>
    /\ one' \in 0 .. n /\ two' = None
    /\ UNCHANGED <<policy, n, active, robinVars>>

\* With the list and the context at hand, before the first read.
Begin ==
    /\ policy \in Scans /\ ~busy
    /\ busy' = TRUE /\ vals' = << >>
    /\ CASE policy = "least_loaded"     -> one' \in Positions(n) /\ two' = None
         [] policy = "prefix_affinity"  -> one' \in Positions(n) /\ two' = None
         [] policy = "load_cache_aware" -> one' \in Pool \cup {None} /\ two' \in Pool \cup {None}
    /\ UNCHANGED <<policy, n, active, robinVars>>

UpTo(m) == [k \in 1 .. m |-> k - 1]

\* The counters in the order in which the scan reads them.
Order ==
    CASE policy = "least_loaded" -> UpTo(n)
      [] policy = "load_cache_aware" -> IF n = 1 THEN << >> ELSE UpTo(Size)
      [] policy = "prefix_affinity" ->
            IF n = 1 THEN << >>
            ELSE IF vals # << >> /\ vals[1] < Threshold THEN <<one>>
            ELSE <<one>> \o UpTo(Size) \o UpTo(n)

Read ==
    /\ busy /\ Len(vals) < Len(Order)
    /\ vals' = Append(vals, active[Order[Len(vals) + 1]])
    /\ UNCHANGED <<policy, n, active, busy, one, two, robinVars>>

Complete == busy /\ Len(vals) = Len(Order)

\* The scan answers or panics; either way it is over.
End ==
    /\ Complete
    /\ busy' = FALSE /\ one' = None /\ two' = None /\ vals' = << >>
    /\ UNCHANGED <<policy, n, active, robinVars>>

-----------------------------------------------------------------------------
(* What a complete scan may answer.                                        *)

\* What was read of each counter in m reads from the k-th on.
Seen(k, m) == [i \in 0 .. m-1 |-> vals[k + i]]

\* Mutant of LeastLoadedLoop: `<=' lets a later worker replace an equal one.
LeastLoadedLoopLast ==
    LET scan[i \in Positions(n)] ==
            IF i = 0 THEN [best |-> one, least |-> vals[1]]
            ELSE IF vals[i+1] <= scan[i-1].least THEN [best |-> i, least |-> vals[i+1]] ELSE scan[i-1]
    IN  scan[n-1].best

\* for i in 1..n, with `best' and `least' carried along.
LeastLoadedLoop ==
    LET scan[i \in Positions(n)] ==
            IF i = 0 THEN [best |-> one, least |-> vals[1]]
            ELSE IF vals[i+1] < scan[i-1].least THEN [best |-> i, least |-> vals[i+1]] ELSE scan[i-1]
    IN  scan[n-1].best

\* Mutant of LoadCacheAwareLoop: max_load from counters read once more.
LoadCacheAwareLoopReread ==
    LET score(i) == 7 * MaxLoad(active) * Affinity(i, one, two) - 6 * vals[i + 1]
        best[k \in 0 .. n] ==
            IF k = 0 THEN {}
            ELSE IF \A i \in best[k-1] : score(k-1) > score(i) THEN {k-1}
            ELSE IF \A i \in best[k-1] : score(k-1) = score(i) THEN best[k-1] \cup {k-1} ELSE best[k-1]
    IN  best[n]

\* for i in 0..n, with best_indices carried along; max_load is of the loads read.
LoadCacheAwareLoop ==
    LET score(i) == Score(Seen(1, Size), i, one, two)
        best[k \in 0 .. n] ==
            IF k = 0 THEN {}
            ELSE IF \A i \in best[k-1] : score(k-1) > score(i) THEN {k-1}
            ELSE IF \A i \in best[k-1] : score(k-1) = score(i) THEN best[k-1] \cup {k-1} ELSE best[k-1]
    IN  best[n]

\* jsq_fallback reads the first n counters a second time.
FellBack == policy = "prefix_affinity" /\ n # 1 /\ vals[1] >= Threshold
FirstPass  == Seen(2, Size)
SecondPass == Seen(2 + Size, n)
Minimum == CHOOSE v \in {FirstPass[i] : i \in Pool} : \A i \in Pool : v <= FirstPass[i]

\* Mutant of Tied: the minimum itself does not count.
TiedBelow == {i \in Positions(n) : SecondPass[i] < Minimum}

Tied == {i \in Positions(n) : SecondPass[i] = Minimum}

-----------------------------------------------------------------------------
(* RoundRobin.                                                             *)

Counts(answered) == [i \in Positions(n) |-> IF i = counter % n THEN answered[i] + 1 ELSE answered[i]]
SinceWrap == IF counter = 0 THEN [i \in Positions(n) |-> 0] ELSE given

\* Mutant of FetchAdd: a load and a store, between which another request loads.
LoadThenStore ==
    /\ policy = "round_robin"
    /\ counter' \in {(counter + 1) % Usize, counter}
    /\ given' = Counts(SinceWrap)
    /\ UNCHANGED <<policy, n, active, scanVars>>

\* fetch_add returns the old value and wraps; the answer is that value modulo n.
FetchAdd ==
    /\ policy = "round_robin"
    /\ counter' = (counter + 1) % Usize
    /\ given' = Counts(SinceWrap)
    /\ UNCHANGED <<policy, n, active, scanVars>>

-----------------------------------------------------------------------------

Next ==
    \/ \E i \in Pool : CounterChanges(i)
    \/ Begin \/ Read \/ End
    \/ FetchAdd

Spec == Init /\ [][Next]_vars

-----------------------------------------------------------------------------
(* Properties.                                                             *)

\* The loops of LeastLoaded and LoadCacheAware answer what Policies says they
\* do, for the values they happened to read: an interleaved scan is a selection
\* at one instant of a (possibly fictitious) load vector.
LoopsMatchPicks ==
    Complete =>
        /\ policy = "least_loaded" => LeastLoadedLoop \in LeastLoadedPicks(Seen(1, n), n)
        /\ policy = "load_cache_aware" /\ n > 1 =>
              LoadCacheAwareLoop = CacheAwarePicks(Seen(1, Size), n, one, two)

\* jsq_fallback finds no tied worker, and panics, only if a counter moved
\* between its two passes or a worker outside the first n is lighter than those.
JsqPanicExplained ==
    Complete /\ FellBack /\ Tied = {} =>
        \/ \E i \in Positions(n) : FirstPass[i] # SecondPass[i]
        \/ \E w \in Pool \ Positions(n) : \A i \in Positions(n) : FirstPass[w] < FirstPass[i]

\* With every worker listed, a cache entry wins however the loads move while
\* they are read: each load is read once, and the largest of them is the divisor.
CacheWinsMidScan ==
    Complete /\ policy = "load_cache_aware" /\ n = Size /\ n > 1 =>
        /\ one # None => LoadCacheAwareLoop = {one}
        /\ one = None /\ two # None => LoadCacheAwareLoop = {two}

\* While the list does not change, requests are dealt out evenly however many ask
\* at once: between two wraps no worker gets two more than another.
RoundRobinFair == \A i, j \in Positions(n) : given[i] - given[j] <= 1

=============================================================================
