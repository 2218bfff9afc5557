------------------------------ MODULE Gateway ------------------------------
(***************************************************************************)
(* The router in regular mode with a static worker list: AppState, the     *)
(* reverse-proxy handler (one instance per connection), the active-request *)
(* guard, the policy's shared state and the background health checker.     *)
(*                                                                         *)
(* A slot r \in Requests is a client connection: it carries one request    *)
(* after another, and `pc[r]' says how far the handler is with the current *)
(* one.  Handlers interleave between any two accesses to shared state:     *)
(* building the healthy list, selecting, on_request_start, record and      *)
(* on_request_end are separate steps.                                      *)
(***************************************************************************)
EXTENDS Policies

CONSTANTS
    N,          \* number of workers given on the command line
    Requests,   \* client connections
    Usize,      \* number of values of a usize (2^64 in the program)
    Policy,     \* the configured policy
    Threshold,  \* PrefixAffinity's threshold (10 by default)
    Sessions,   \* hashes of session ids
    Prefixes,   \* hashes of prefix keys
    Flaky       \* the workers that may fail (all of them, but in large runs)

ASSUME NAssumption        == N \in Nat \ {0}
ASSUME RequestsAssumption == IsFiniteSet(Requests)
ASSUME UsizeAssumption    == Usize \in Nat /\ Usize > Cardinality(Requests)
ASSUME PolicyAssumption   == Policy \in PolicyNames /\ Threshold \in Nat
ASSUME ContextAssumption  == Sessions \in (SUBSET Nat) \ {{}} /\ Prefixes \in (SUBSET Nat) \ {{}}
ASSUME FlakyAssumption    == Flaky \subseteq 0 .. N-1

Workers  == 0 .. N-1
NoWorker == N

Contexts == [session : Sessions, prefix : Prefixes]
NoContext == CHOOSE c \in Contexts : TRUE   \* a slot without a request; never read

VARIABLES
    up,          \* up[w]: worker w would answer its /health probe with 200
    healthy,     \* Worker.healthy
    probe,       \* worker the checker is at, NoWorker while it sleeps
    answer,      \* answer to the outstanding probe
    active,      \* the policy's active-request counters
    counter,     \* RoundRobin.counter
    prefixMap,   \* CacheDirectory.prefix_map, NoWorker where there is no entry
    sessionMap,  \* CacheDirectory.session_map
    pc,          \* where the handler of each slot is
    ctx,         \* context of the current request
    listed,      \* the workers in the healthy list the handler built
    idx          \* the worker chosen for the current request

poolVars   == <<up, healthy, probe, answer>>
policyVars == <<active, counter, prefixMap, sessionMap>>
handlerVars == <<pc, ctx, listed, idx>>
vars == <<poolVars, policyVars, handlerVars>>

Stages == {"idle", "arrived", "listed", "chosen", "sending", "recorded", "streaming"}

\* Every variable has its type: AppState's vectors keep their length, indices stay
\* in the pool, and the atomic counters in their machine range.
TypeOK ==
    /\ up \in [Workers -> BOOLEAN]
    /\ healthy \in [Workers -> BOOLEAN]
    /\ probe \in 0 .. N
    /\ answer \in {"none", "ok", "fail"}
    /\ active \in [Workers -> 0 .. Usize-1]
    /\ counter \in 0 .. Usize-1
    /\ prefixMap \in [Prefixes -> 0 .. N]
    /\ sessionMap \in [Sessions -> 0 .. N]
    /\ pc \in [Requests -> Stages]
    /\ ctx \in [Requests -> Contexts]
    /\ listed \in [Requests -> SUBSET Workers]
    /\ idx \in [Requests -> 0 .. N]

Init ==
    /\ up \in {u \in [Workers -> BOOLEAN] : \A w \in Workers \ Flaky : u[w]}
    /\ healthy = [w \in Workers |-> TRUE]
    /\ probe = NoWorker
    /\ answer = "none"
    /\ active = [w \in Workers |-> 0]
    /\ counter = 0
    /\ prefixMap = [p \in Prefixes |-> NoWorker]
    /\ sessionMap = [s \in Sessions |-> NoWorker]
    /\ pc = [r \in Requests |-> "idle"]
    /\ ctx = [r \in Requests |-> NoContext]
    /\ listed = [r \in Requests |-> {}]
    /\ idx = [r \in Requests |-> NoWorker]

-----------------------------------------------------------------------------
(* The health checker: sleep, then probe the workers one after the other.  *)

StartRound ==
    /\ probe = NoWorker
    /\ probe' = 0
    /\ UNCHANGED <<up, healthy, answer, policyVars, handlerVars>>

\* Mutant of ProbeAnswered: the loop over the pool runs one worker too far.
ProbeAnsweredTooFar ==
    /\ answer = "none"
    /\ answer' = IF probe \in Workers /\ up[probe] THEN "ok" ELSE "fail"
    /\ UNCHANGED <<up, healthy, probe, policyVars, handlerVars>>

\* The worker answers the probe, or the client's timeout does.
ProbeAnswered ==
    /\ probe # NoWorker
    /\ answer = "none"
    /\ answer' = IF up[probe] THEN "ok" ELSE "fail"
    /\ UNCHANGED <<up, healthy, probe, policyVars, handlerVars>>

\* Mutant of SetHealthy: a worker once marked unhealthy is never marked healthy again.
SetHealthyOnlyDown ==
    /\ answer # "none"
    /\ healthy' = [healthy EXCEPT ![probe] = healthy[probe] /\ answer = "ok"]
    /\ probe' = probe + 1
    /\ answer' = "none"
    /\ UNCHANGED <<up, policyVars, handlerVars>>

\* set_healthy with an answer that may be stale by now; on to the next worker.
SetHealthy ==
    /\ answer # "none"
    /\ healthy' = [healthy EXCEPT ![probe] = (answer = "ok")]
    /\ probe' = probe + 1
    /\ answer' = "none"
    /\ UNCHANGED <<up, policyVars, handlerVars>>

\* Workers fail and recover on their own.
WorkerTurns(w) ==
    /\ up' = [up EXCEPT ![w] = ~up[w]]
    /\ UNCHANGED <<healthy, probe, answer, policyVars, handlerVars>>

-----------------------------------------------------------------------------
(* The policy's shared state.                                              *)

\* Mutant of HealthySet: selection ignores the health flags.
EveryWorker == Workers

HealthySet == {w \in Workers : healthy[w]}

\* Position of worker w in the filtered list over the workers ws.
Position(ws, w) == Cardinality({v \in ws : v < w})

Tracks == Policy \in Tracking

OnRequestStart(w) ==
    active' = IF Tracks THEN [active EXCEPT ![w] = (active[w] + 1) % Usize] ELSE active

OnRequestEnd(w) ==
    active' = IF Tracks THEN [active EXCEPT ![w] = (active[w] - 1) % Usize] ELSE active

Record(c, w) ==
    IF Policy = "load_cache_aware"
    THEN /\ prefixMap' = [prefixMap EXCEPT ![c.prefix] = w]
         /\ sessionMap' = [sessionMap EXCEPT ![c.session] = w]
    ELSE UNCHANGED <<prefixMap, sessionMap>>

\* Positions select_with_context may answer for slot r.
PicksFor(r) ==
    Picks(Policy, Threshold, active, counter, Cardinality(listed[r]),
          ctx[r].session, ctx[r].prefix,
          prefixMap[ctx[r].prefix], sessionMap[ctx[r].session])

-----------------------------------------------------------------------------
(* The handler.                                                            *)

Moves(r, from, to) == pc[r] = from /\ pc' = [pc EXCEPT ![r] = to]

\* The handler is over: the client has its answer, the slot takes a new request.
Ends(r, from) ==
    /\ Moves(r, from, "idle")
    /\ listed' = [listed EXCEPT ![r] = {}]
    /\ idx' = [idx EXCEPT ![r] = NoWorker]
    /\ ctx' = [ctx EXCEPT ![r] = NoContext]

\* The body has been collected and the context extracted.  (A request whose body
\* fails, or exceeds 16 MB, is answered 400 and touches none of this state.)
Arrive(r, c) ==
    /\ Moves(r, "idle", "arrived")
    /\ ctx' = [ctx EXCEPT ![r] = c]
    /\ UNCHANGED <<listed, idx, poolVars, policyVars>>

\* healthy_worker_urls.
ListHealthy(r) ==
    /\ HealthySet # {}
    /\ Moves(r, "arrived", "listed")
    /\ listed' = [listed EXCEPT ![r] = HealthySet]
    /\ UNCHANGED <<ctx, idx, poolVars, policyVars>>

NoHealthyWorkers(r) ==
    /\ HealthySet = {}
    /\ Ends(r, "arrived")
    /\ UNCHANGED <<poolVars, policyVars>>

\* The position the policy answers is mapped back to the worker's place in the pool.
Select(r) ==
    /\ Moves(r, "listed", "chosen")
    /\ \E w \in listed[r] :
          /\ Position(listed[r], w) \in PicksFor(r)
          /\ idx' = [idx EXCEPT ![r] = w]
    /\ counter' = IF Policy = "round_robin" THEN (counter + 1) % Usize ELSE counter
    /\ UNCHANGED <<ctx, listed, poolVars, active, prefixMap, sessionMap>>

\* The policy panics: the handler's task dies before on_request_start.
SelectPanics(r) ==
    /\ pc[r] = "listed"
    /\ PicksFor(r) = {}
    /\ Ends(r, "listed")
    /\ UNCHANGED <<poolVars, policyVars>>

\* Mutant of Start: charges the position the policy answered, not the worker there.
StartAtPosition(r) ==
    /\ Moves(r, "chosen", "sending")
    /\ OnRequestStart(Position(listed[r], idx[r]))
    /\ UNCHANGED <<ctx, listed, idx, poolVars, counter, prefixMap, sessionMap>>

\* on_request_start; the guard exists from here on.
Start(r) ==
    /\ Moves(r, "chosen", "sending")
    /\ OnRequestStart(idx[r])
    /\ UNCHANGED <<ctx, listed, idx, poolVars, counter, prefixMap, sessionMap>>

\* Mutant of SendFails: no guard, so the early return skips on_request_end.
SendFailsUnguarded(r) ==
    /\ Ends(r, "sending")
    /\ UNCHANGED <<poolVars, policyVars>>

\* Mutant of SendFails: without the client's timeout only a live worker can fail a send.
SendFailsNoTimeout(r) ==
    /\ Ends(r, "sending")
    /\ up[idx[r]]
    /\ OnRequestEnd(idx[r])
    /\ UNCHANGED <<poolVars, counter, prefixMap, sessionMap>>

\* Bad URL, refused connection, timeout, or the client hung up and the future
\* was dropped: in all of them the guard decrements the counter.
SendFails(r) ==
    /\ Ends(r, "sending")
    /\ OnRequestEnd(idx[r])
    /\ UNCHANGED <<poolVars, counter, prefixMap, sessionMap>>

\* The worker's response headers are here.
RecordDecision(r) ==
    /\ Moves(r, "sending", "recorded")
    /\ Record(ctx[r], idx[r])
    /\ UNCHANGED <<ctx, listed, idx, poolVars, active, counter>>

\* The handler returns the response, the guard is dropped, the body follows.
Respond(r) ==
    /\ Moves(r, "recorded", "streaming")
    /\ OnRequestEnd(idx[r])
    /\ UNCHANGED <<ctx, listed, idx, poolVars, counter, prefixMap, sessionMap>>

\* The response could not be built.
ResponseBuildFails(r) ==
    /\ Ends(r, "recorded")
    /\ OnRequestEnd(idx[r])
    /\ UNCHANGED <<poolVars, counter, prefixMap, sessionMap>>

\* The body has been passed on, or was cut off by the worker, client or timeout.
StreamEnds(r) ==
    /\ Ends(r, "streaming")
    /\ UNCHANGED <<poolVars, policyVars>>

-----------------------------------------------------------------------------

\* What the router does with a request of slot r on its own.
Router(r) ==
    \/ ListHealthy(r) \/ NoHealthyWorkers(r)
    \/ Select(r) \/ SelectPanics(r)
    \/ Start(r)
    \/ SendFails(r)
    \/ Respond(r) \/ ResponseBuildFails(r)
    \/ StreamEnds(r)

Handler(r) == Router(r) \/ RecordDecision(r)

Client(r) == \E c \in Contexts : Arrive(r, c)

Checker == StartRound \/ ProbeAnswered \/ SetHealthy

Next ==
    \/ \E r \in Requests : Client(r) \/ Handler(r)
    \/ Checker
    \/ \E w \in Flaky : WorkerTurns(w)

Spec == Init /\ [][Next]_vars

\* The runtime polls every woken task, and the HTTP client's timeout ends every
\* send, every body and every probe.  Clients and workers promise nothing: that
\* a worker's response headers ever arrive is not assumed.
Fairness ==
    /\ \A r \in Requests : WF_vars(Router(r))
    /\ WF_vars(Checker)

FairSpec == Spec /\ Fairness

-----------------------------------------------------------------------------
(* Safety.                                                                 *)

\* Requests that hold an ActiveRequest guard for worker w.
InFlight(w) == {r \in Requests : pc[r] \in {"sending", "recorded"} /\ idx[r] = w}

\* However handlers interleave, fail, panic or are dropped, each counter is
\* exactly the number of guards alive for its worker: none is leaked, none is
\* returned twice (fetch_sub below zero would wrap to usize::MAX), and none is
\* charged to another worker than the one it will be taken back from.
CountersExact ==
    \A w \in Workers : active[w] = IF Tracks THEN Cardinality(InFlight(w)) ELSE 0

\* A request is only ever forwarded to a worker that was healthy when the
\* handler built its list, whatever the health flags do afterwards and although
\* the policy answers in positions of that list.
RoutedToListed ==
    \A r \in Requests :
        pc[r] \in {"chosen", "sending", "recorded", "streaming"} => idx[r] \in listed[r]

\* An answer is outstanding only while the checker is at a worker.
ProbeInPool == answer # "none" => probe \in Workers

\* The inductive invariant behind the theorems of GatewayProofs.
Inv == TypeOK /\ ProbeInPool /\ RoutedToListed /\ CountersExact

\* No policy call can panic: it has an answer, whatever the other handlers and
\* the health checker have made of the counters and the list, and the answer is
\* a position of the list (next_worker_with_context indexes the list with it).
NoPanic ==
    \A r \in Requests : pc[r] = "listed" =>
        /\ PicksFor(r) # {}
        /\ PicksFor(r) \subseteq Positions(Cardinality(listed[r]))

Selected(r) == pc[r] = "listed" /\ pc'[r] = "chosen"

\* The worker whose cache the directory says holds the request's prefix, or
\* else its session.
CachedAt(r) == IF prefixMap[ctx[r].prefix] # NoWorker
               THEN prefixMap[ctx[r].prefix]
               ELSE sessionMap[ctx[r].session]

\* LoadCacheAware with its default weights and every worker healthy: no load,
\* however skewed, outweighs a cache entry, nor a session entry a prefix entry.
AffinityWins ==
    [][\A r \in Requests :
          Selected(r) /\ Policy = "load_cache_aware" /\ listed[r] = Workers
            /\ CachedAt(r) # NoWorker
          => idx'[r] = CachedAt(r)]_vars

-----------------------------------------------------------------------------
(* Gateway implements RequestLifecycle.                                    *)

Phase(s) ==
    CASE s = "idle"                             -> "idle"
      [] s \in {"arrived", "listed", "chosen"}  -> "waiting"
      [] s \in {"sending", "recorded"}          -> "charged"
      [] s = "streaming"                        -> "answering"

PhaseNow  == [r \in Requests |-> Phase(pc[r])]
WorkerNow == [r \in Requests |-> IF Phase(pc[r]) = "charged" THEN idx[r] ELSE NoWorker]

\* Where the policy keeps no counters, the load is the guards themselves.
LoadNow == IF Tracks THEN active ELSE [w \in Workers |-> Cardinality(InFlight(w))]

Lifecycle == INSTANCE RequestLifecycle WITH phase <- PhaseNow, worker <- WorkerNow, load <- LoadNow

\* Every step of handlers, checker and workers is a step of the promised
\* lifecycle or none: a request is charged once, to one worker, and released
\* from that worker, before its answer is passed on or with its failure.
LifecycleKept == Lifecycle!Spec

-----------------------------------------------------------------------------
(* What the documentation says and the code does not do.                   *)

\* least_loaded.rs:9 "scans all workers and selects the one with the fewest
\* in-flight requests".
PicksFewest ==
    [][\A r \in Requests : Selected(r) =>
          \A w \in listed[r] : active[idx'[r]] <= active[w]]_vars

\* load_cache_aware.rs:33 "`1.0` if this worker has a non-stale prefix-key
\* entry": a healthy worker holding the prefix keeps its affinity when some
\* other worker is not healthy.
AffinitySurvivesFiltering ==
    [][\A r \in Requests :
          Selected(r) /\ CachedAt(r) \in listed[r] => idx'[r] = CachedAt(r)]_vars

-----------------------------------------------------------------------------
(* Liveness, under FairSpec.                                               *)

\* Every request that arrives is answered, refused or given up.
RequestsAnswered == \A r \in Requests : pc[r] # "idle" ~> pc[r] = "idle"

\* The lifecycle's promise with its progress: no request stays waiting, charged
\* or answering for ever.
LifecycleServed == Lifecycle!FairSpec

\* Although a probe's answer may be stale when it is applied, the health flag
\* of a worker that stays up, or stays down, ends up right for good.
HealthConverges ==
    \A w \in Workers : /\ <>[]up[w] => <>[]healthy[w]
                       /\ <>[]~up[w] => <>[]~healthy[w]

\* Requests stop reaching a worker that stays down.
DownWorkerDrained ==
    \A w \in Workers : <>[]~up[w] => <>[](\A r \in Requests : idx[r] # w)

=============================================================================
