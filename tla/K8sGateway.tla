----------------------------- MODULE K8sGateway -----------------------------
(***************************************************************************)
(* The router in regular mode with a pool managed by service discovery:    *)
(* workers come and go while requests are under way.  The pool is a vector *)
(* of worker objects under an RwLock; the policy's counters are a vector   *)
(* of fixed capacity indexed by the worker's place in the pool, and only   *)
(* the place is kept for on_request_end, so a place may by then belong to  *)
(* another worker or to none.                                              *)
(*                                                                         *)
(* Discovery may add or remove any URL at any time (when it does is the    *)
(* business of ServiceDiscovery).  Its URLs are "ip:port" without a        *)
(* scheme, so Url::parse or the HTTP client refuses every one of them:     *)
(* no request is forwarded, and every probe fails.                         *)
(***************************************************************************)
EXTENDS Integers, FiniteSets, Sequences

CONSTANTS
    Urls,         \* worker URLs discovery may come up with
    NoUrl,        \* no URL
    Requests,     \* client connections
    Capacity,     \* length of the policy's vectors: max(n, 256), n workers at start
    Usize,        \* number of values of a usize
    MaxWorkers    \* bound on the worker objects ever created

ASSUME UrlsAssumption     == IsFiniteSet(Urls) /\ NoUrl \notin Urls
ASSUME RequestsAssumption == IsFiniteSet(Requests)
ASSUME CapacityAssumption == Capacity \in Nat \ {0}
ASSUME UsizeAssumption    == Usize \in Nat /\ Usize > Cardinality(Requests)
ASSUME BoundAssumption    == MaxWorkers \in Nat

Objects == 1 .. MaxWorkers      \* an Arc<Worker>, numbered in order of creation
Places  == 0 .. Capacity-1
NoPlace == -1

VARIABLES
    url,      \* Worker.url, NoUrl before the object exists
    healthy,  \* Worker.healthy
    pool,     \* the vector of worker objects
    round,    \* what is left of the snapshot the health checker works through
    active,   \* the policy's active-request counters
    pc,       \* where the handler of each slot is
    listed,   \* the (place, object) pairs of its healthy list
    idx,      \* the place it has charged
    target    \* the object whose URL it goes to

poolVars == <<url, healthy, pool, round>>
vars == <<poolVars, active, pc, listed, idx, target>>

Made == {o \in Objects : url[o] # NoUrl}
Pooled == {pool[i] : i \in DOMAIN pool}

\* Every variable has its type; vectors hold objects that exist.
TypeOK ==
    /\ url \in [Objects -> Urls \cup {NoUrl}]
    /\ healthy \in [Objects -> BOOLEAN]
    /\ pool \in Seq(Made) /\ round \in Seq(Made)
    /\ active \in [Places -> 0 .. Usize-1]
    /\ pc \in [Requests -> {"idle", "arrived", "reading", "charged"}]
    /\ \A r \in Requests : \A e \in listed[r] : e[1] \in Nat /\ e[2] \in Made
    /\ idx \in [Requests -> Places \cup {NoPlace}]
    /\ target \in [Requests -> Objects \cup {0}]

Init ==
    /\ url = [o \in Objects |-> NoUrl]
    /\ healthy = [o \in Objects |-> TRUE]
    /\ pool = << >>
    /\ round = << >>
    /\ active = [i \in Places |-> 0]
    /\ pc = [r \in Requests |-> "idle"]
    /\ listed = [r \in Requests |-> {}]
    /\ idx = [r \in Requests |-> NoPlace]
    /\ target = [r \in Requests |-> 0]

-----------------------------------------------------------------------------
(* Discovery: the pool's write lock is free while no handler reads.        *)

Unread == \A r \in Requests : pc[r] # "reading"

\* The next object to be created, if the bound leaves one.
Fresh == {o \in Objects : url[o] = NoUrl /\ \A p \in Objects : p < o => url[p] # NoUrl}

\* Mutant of AddWorker: no look for a worker of that URL.
AddWorkerAgain(u) ==
    /\ Unread
    /\ \E o \in Fresh : url' = [url EXCEPT ![o] = u] /\ pool' = Append(pool, o)
    /\ UNCHANGED <<healthy, round, active, pc, listed, idx, target>>

\* add_worker_to_pool: a URL that is there already is left alone.
AddWorker(u) ==
    /\ Unread
    /\ \A o \in Pooled : url[o] # u
    /\ \E o \in Fresh : url' = [url EXCEPT ![o] = u] /\ pool' = Append(pool, o)
    /\ UNCHANGED <<healthy, round, active, pc, listed, idx, target>>

\* workers.retain: the workers of any other URL, in order.
Retained(u) ==
    LET kept[i \in 0 .. Len(pool)] ==
            IF i = 0 THEN << >>
            ELSE IF url[pool[i]] = u THEN kept[i-1] ELSE Append(kept[i-1], pool[i])
    IN  kept[Len(pool)]

\* Mutant of RemoveWorker: does not wait for the handlers that read the pool.
RemoveWorkerUnlocked(u) ==
    /\ \E o \in Pooled : url[o] = u
    /\ pool' = Retained(u)
    /\ UNCHANGED <<url, healthy, round, active, pc, listed, idx, target>>

\* remove_worker_from_pool: the workers behind it move up one place.
RemoveWorker(u) ==
    /\ Unread
    /\ \E o \in Pooled : url[o] = u
    /\ pool' = Retained(u)
    /\ UNCHANGED <<url, healthy, round, active, pc, listed, idx, target>>

-----------------------------------------------------------------------------
(* The health checker works through a snapshot, which ages meanwhile.      *)

StartRound ==
    /\ round = << >> /\ pool # << >>
    /\ round' = pool
    /\ UNCHANGED <<url, healthy, pool, active, pc, listed, idx, target>>

\* There is no scheme in the worker's URL: the probe fails, always.
ProbeFails ==
    /\ round # << >>
    /\ healthy' = [healthy EXCEPT ![Head(round)] = FALSE]
    /\ round' = Tail(round)
    /\ UNCHANGED <<url, pool, active, pc, listed, idx, target>>

-----------------------------------------------------------------------------
(* The handler.                                                            *)

Moves(r, from, to) == pc[r] = from /\ pc' = [pc EXCEPT ![r] = to]

Ends(r, from) ==
    /\ Moves(r, from, "idle")
    /\ listed' = [listed EXCEPT ![r] = {}]
    /\ idx' = [idx EXCEPT ![r] = NoPlace]
    /\ target' = [target EXCEPT ![r] = 0]
    /\ UNCHANGED poolVars

Arrive(r) ==
    /\ Moves(r, "idle", "arrived")
    /\ UNCHANGED <<poolVars, active, listed, idx, target>>

Listing == {<<i - 1, pool[i]>> : i \in DOMAIN pool}
HealthyList == {e \in Listing : healthy[e[2]]}

\* pool.read() and healthy_worker_urls; the guard is held until the charge is made.
ListHealthy(r) ==
    /\ HealthyList # {}
    /\ Moves(r, "arrived", "reading")
    /\ listed' = [listed EXCEPT ![r] = HealthyList]
    /\ UNCHANGED <<poolVars, active, idx, target>>

NoHealthyWorkers(r) == HealthyList = {} /\ Ends(r, "arrived") /\ UNCHANGED active

\* Mutant of Charge: no bounds check.
ChargeUnchecked(r) ==
    /\ Moves(r, "reading", "charged")
    /\ \E e \in listed[r] : /\ active' = [active EXCEPT ![e[1]] = (@ + 1) % Usize]
                            /\ idx' = [idx EXCEPT ![r] = e[1]]
                            /\ target' = [target EXCEPT ![r] = e[2]]
    /\ UNCHANGED <<poolVars, listed>>

\* Any listed worker may be selected; its place is charged and its URL returned.
Charge(r) ==
    /\ Moves(r, "reading", "charged")
    /\ \E e \in listed[r] :
          /\ e[1] \in Places
          /\ active' = [active EXCEPT ![e[1]] = (@ + 1) % Usize]
          /\ idx' = [idx EXCEPT ![r] = e[1]]
          /\ target' = [target EXCEPT ![r] = e[2]]
    /\ UNCHANGED <<poolVars, listed>>

\* A place beyond the policy's vectors: select or on_request_start panics.  No
\* guard exists yet, and a panic under a read lock does not poison it.
ChargePanics(r) ==
    /\ \E e \in listed[r] : e[1] \notin Places
    /\ Ends(r, "reading")
    /\ UNCHANGED active

\* jsq_fallback finds no tied worker: the least of all counters may be a free place's,
\* or be gone when its second pass reads the first positions again, other handlers
\* charging and releasing in between (see Selection).  A list of one is not looked at.
PolicyPanics(r) ==
    /\ Cardinality(listed[r]) > 1
    /\ Ends(r, "reading")
    /\ UNCHANGED active

\* Mutant of RequestFails: takes back the charge where the worker is now.
RequestFailsAtWorker(r) ==
    /\ active' = [i \in Places |->
          IF i + 1 \in DOMAIN pool /\ pool[i + 1] = target[r] THEN (active[i] - 1) % Usize ELSE active[i]]
    /\ Ends(r, "charged")

\* The URL cannot be requested: the handler ends in an error and its guard
\* takes the charge back from the place it was made at.
RequestFails(r) ==
    /\ active' = [active EXCEPT ![idx[r]] = (@ - 1) % Usize]
    /\ Ends(r, "charged")

-----------------------------------------------------------------------------

Router(r) ==
    \/ ListHealthy(r) \/ NoHealthyWorkers(r)
    \/ Charge(r) \/ ChargePanics(r) \/ PolicyPanics(r)
    \/ RequestFails(r)

Next ==
    \/ \E r \in Requests : Arrive(r) \/ Router(r)
    \/ \E u \in Urls : AddWorker(u) \/ RemoveWorker(u)
    \/ StartRound \/ ProbeFails

Spec == Init /\ [][Next]_vars

-----------------------------------------------------------------------------
(* Properties.                                                             *)

\* The pool never holds two workers of one URL, whichever task adds them: it is
\* the set that ServiceDiscovery takes it for.
PoolIsASet == \A i, j \in DOMAIN pool : url[pool[i]] = url[pool[j]] => i = j

ChargedAt(i) == {r \in Requests : pc[r] = "charged" /\ idx[r] = i}

\* Although places change hands while requests are under way, every charge is
\* taken back where it was made: each counter is the number of live guards that
\* name its place, and none wraps below zero.
CountersExact == \A i \in Places : active[i] = Cardinality(ChargedAt(i))

\* When the charge is made, the charged place is still that of the worker the
\* request goes to: no removal can slip in between listing and charging.
ChargedWhereListed ==
    [][\A r \in Requests : pc[r] = "reading" /\ pc'[r] = "charged" =>
          <<idx'[r], target'[r]>> \in Listing]_vars

Phase(s) ==
    CASE s = "idle" -> "idle" [] s \in {"arrived", "reading"} -> "waiting" [] s = "charged" -> "charged"

\* The workers of the lifecycle are the places of the vectors here.
Lifecycle == INSTANCE RequestLifecycle WITH
    Workers <- Places, NoWorker <- NoPlace,
    phase <- [r \in Requests |-> Phase(pc[r])], worker <- idx, load <- active

\* In the changing pool as in the static one: one charge for each request, taken
\* back from where it was made.
LifecycleKept == Lifecycle!Spec

=============================================================================
