# Formal models of the tokendog router

The router is a reverse proxy for LLM inference workers. These modules model the parts of it
that decide correctness: routing and load accounting, the health checker, the prefill/decode
pipeline with the requests it makes and the answers it merges, Kubernetes service discovery, and log
rotation. TLC checks them on small instances;
TLAPS proves the main results for every instance. Source paths are relative to
`src/crates/router/src/` unless they start with `src/`.

## 1. The system

| Component | State | Operations | What makes it correct |
|---|---|---|---|
| Policies (`policies/`) | `active` counters, round-robin counter, cache directory | `select_with_context`, `on_request_start`, `on_request_end`, `record` | answers a position of the list, never panics, counters exact, keeps its routing promise |
| Gateway state (`server.rs`) | static worker lists and policies, or RwLock pools in Kubernetes mode | `next_*_worker*`, `finish_*`, `record_*`, `rebuild_policy` | start and end charge the same place |
| Proxy handler (`middleware/handler.rs`) | one future per request, the `ActiveRequest` guard | `proxy_handler` | the guard takes back exactly what was charged; every request ends |
| Health checker (`worker/mod.rs`, `main.rs`) | `Worker.healthy` | `run_health_checks` | flags converge although answers are stale when applied |
| PD pipeline (`routes/pd_handler.rs`) | one future per request, two policies, no guard | vLLM two-stage, SGLang dual dispatch | every charge is finished |
| Service discovery (`service_discovery.rs`) | `tracked_pods` (mutex), pools (RwLock) | watcher handlers, `reconcile_pods` | tracker and pools follow the cluster |
| Context extraction (`middleware/context.rs`) | none | `extract_context` | a conversation keeps its routing keys |
| Prefill preparation (`routes/prefill.rs`) | none | `prepare_prefill_request`, `build_sglang_bootstrap_params` | prefill generates one token, decode what was asked for, a pair meets |
| Logprobs merge (`routes/logprobs_merge.rs`) | none | `merge_logprobs_in_json` | arrays and offsets of two answers stay aligned |
| Log rotation (`config/logging.rs`) | open file, size | `new`, `write`, `rotate` | no record is lost, whatever fails half-way |
| Authentication, header filter, health endpoint, configuration, start-up | none worth modelling | | |
| Python binding (`src/python/router-py`) | repeats `main.rs` | | |

Interaction: handlers run concurrently on the tokio runtime and share the policy's atomics, the
health flags and the cache directory. The health checker writes flags the handlers read. In
Kubernetes mode the watcher and the reconciler change the pools the handlers select from. The
hard behaviours are the interleavings between reading a list, selecting and charging; the exits
of the handlers (errors, panics, clients that hang up, so that the future is dropped); stale
answers of probes and list calls; lost watch events; the two locks that discovery takes one
after the other; and a rotation that fails or is killed between two system calls. `PROJECT.json`
lists each hazard at its line.

## 2. Modules

| Module | Models |
|---|---|
| `RequestLifecycle` | the abstract specification: what is promised about a request and the load it causes |
| `Policies` | each policy's selection as the set of positions it may answer; no state |
| `Gateway` (extends `Policies`) | regular mode: handlers, guard, policy state, health checker; implements `RequestLifecycle` |
| `K8sGateway` | regular mode over a pool that changes under the requests; implements `RequestLifecycle` |
| `Selection` (extends `Policies`) | the policies' scans, one atomic read at a time, against `Policies` |
| `PdPipeline` | the pipeline in both modes, with the accounting of both policies |
| `JsonValues` | JSON values, read and overwritten |
| `RequestContext`, `PrefillRequest`, `LogprobsMerge` | pure functions: routing keys, prefill and bootstrap requests, merged answers |
| `Messages` (extends these three) | one exchange in each of the three modes: what is made of a request and of the answers |
| `ServiceDiscovery` | watcher, reconciler, tracker and pools; cluster and watch stream external |
| `LogRotation` | the rotating writer, with failures, crashes and restarts |
| `MC...` | constants and symmetry for TLC |
| `PoliciesProofs`, `GatewayProofs`, `K8sGatewayProofs`, `SelectionProofs`, `PdPipelineProofs`, `ServiceDiscoveryProofs`, `LogRotationProofs`, `MessagesProofs` | theorems about the module of that name; the first also has the lemmas for all proofs about loops |

### Gateway and Policies

`r \in Requests` is a client connection; `pc[r]` is the point its current handler has reached,
and every access to shared state between two points is a step of its own:

| Step | Code |
|---|---|
| `Arrive` | `handler.rs:44-62`, body collected, context extracted |
| `ListHealthy`, `NoHealthyWorkers` | `server.rs:577-580` |
| `Select`, `SelectPanics` | `server.rs:581-583`, the policy's answer mapped back to the pool |
| `Start` | `server.rs:584`, `on_request_start`; the guard exists from here |
| `SendFails` | `handler.rs:77-96`: bad URL, send error or timeout, or the future is dropped |
| `RecordDecision` | `handler.rs:98-107` |
| `Respond`, `ResponseBuildFails` | `handler.rs:111`; the guard is dropped when the handler returns |
| `StreamEnds` | the body, passed on after the handler has returned |
| `StartRound`, `ProbeAnswered`, `SetHealthy` | `main.rs:229-257`, `worker/mod.rs:64-87` |

A policy answers a *position in the list of healthy workers* while its counters are indexed by
*place in the pool*. The model keeps this: `Picks` reads `active[position]`. A policy that would
panic has an empty set of picks. Workers fail and recover at will (`WorkerTurns`, restricted to
`Flaky`).

Abstractions. A healthy list is built at one instant, and a policy reads all counters at one
instant; `Selection` is the module that reads them one by one. Contexts are pairs of hashes. Scores of
`load_cache_aware` are multiplied by `20 * max_load`, which makes them integers; the ties of the
code's floating-point comparison are then those of exact arithmetic. Cache entries never go
stale, as under the default setting: nothing in the program calls the constructor that changes it.

### RequestLifecycle

A request is idle, waiting, charged to a worker, or answering; there is no pool, no policy and no
health. `Gateway` maps its points to these phases and the counters to `load` (where the policy
keeps no counters, the number of guards is the load). The mapping is the property `LifecycleKept`, and
with fairness `LifecycleServed`. `K8sGateway` implements the same specification with *places* for
workers. `PdPipeline` does not: it can end with a charge in hand.

### K8sGateway

Worker objects are numbered in order of creation; `pool` is the vector under the RwLock and
`active` the policy's vector, whose length is fixed at start-up (`max(n, 256)`,
`server.rs:182`). `next_worker_with_context` holds the read lock from listing to charging, so
`AddWorker` and `RemoveWorker` wait while a handler is at `reading`. A place beyond the vectors
panics (`ChargePanics`). `jsq_fallback` takes its minimum over the whole vector and then reads the first
places again: a free place may hold the minimum, or other handlers may move the counters between the two
passes, and with no listed worker tied it panics (`PolicyPanics`, for lists of more than one). Workers of
discovered pods are `ip:port` without a scheme (`service_discovery.rs:219`): a request to one never gets past
building or sending (`RequestFails`) and a probe never succeeds (`ProbeFails`). The lock and the
places are what this module is about; when discovery adds and removes is the business of `ServiceDiscovery`, and
here it may do so at any time.

### Selection

One scan, and counters that change between any two of its reads. `Order` is the sequence of reads
of each policy, `vals` what was read so far. Properties are about complete scans: the loops of the
code, written as recursive functions of the position reached, against the sets `Policies` defines. The shared counter of
`round_robin` is here too, with a history of what it dealt out since it last wrapped.

### PdPipeline

`held[r]` is what the handler has started with each policy and not finished. There is no guard in this code, so
`Ends`, which every early return, panic and dropped future goes through, leaves the counters
alone: a failed prefill send (`pd_handler.rs:370`), or no decode worker in SGLang mode
(`pd_handler.rs:208`), leaves the prefill worker charged for good. `Drift(p, w)` is the difference between a counter and the
requests under way on its worker, and `Window(p)` the stages between the start of a pool's worker and its
finish. The code does leak, so no invariant says that the difference is zero; the action property
`DriftsOnlyInWindow` says that it only ever changes when a handler ends in the window of that worker, and then by one.
A charge forgotten, doubled or finished elsewhere on any other path is a change it does not allow. In SGLang mode the two
sends are joined by `try_join!`, one step. Which healthy worker a policy
picks is left open, health flags change at any time, and `Faults` selects the failures that may
happen: `build` (URL, JSON that is not an object), `send`, `body`, `client` (hang-up), `panic`
(in the policy).

### Messages and the pure functions

`PdPipeline` has the order of events and no contents; `Messages` has the contents and no failures of the
network. JSON is `[is, fields]` (`JsonValues`), an object with the fields the code looks at, null,
something else, or not JSON at all; the distinction matters since indexing null makes an object of it and
indexing a number panics. Texts are values, message contents short sequences of characters, and a token
is the length of its text, in characters and in bytes. `RoomBound` stands for `i64`'s range, so that the least value, whose `abs`
overflows, can be drawn. What clients and workers send is any value of the shapes `IsRequest` and
`IsAnswer`, assumed of the constants: a field that the code would not read, being of another type, is left
out. A minimum of tokens is a number with a flag, whether `as_u64` reads it. Four facts of this code are in the model
without a property that blames it: the first *present* header of the three decides the session key, although `context.rs:10` speaks of the first
non-empty value; and a prefill URL without a port, or with its scheme's own, is announced as port 8000
(`prefill.rs:86`), which `PairMeets` excludes; a minimum that `as_u64` refuses, such as 3.0, is passed on as it is
although it may be above the limit (`prefill.rs:16`, `PrefillOnly` speaks of minima it reads); and the generated text is
placed behind the last prompt token by its length in bytes (`logprobs_merge.rs:123`), where the workers'
offsets count characters, so that `MergeAligned` asks for an ASCII one (`PromptEndsInAscii`).

### ServiceDiscovery

A pod is one uid; `Name`, `Namespace`, `Ip` and `Role` are its attributes. The tracker and the
pools have separate locks, so `Track` (tracker) is followed by `Evict` and `Add` (pool) as steps
of their own, `HandlePodDeletion` by `Remove`, and `RemoveStale` (pool) by `Untrack` (tracker).
The pod list the reconciler works from ages between `ListPods` and `ComputeDiff`. The cluster
creates, readies, unreadies, terminates and deletes pods; `applied_objects()` drops Deleted
events, so `PodGone` emits nothing. `WatchRestarts` loses every event under way and replays the
objects that exist. After `ClusterSettles` the cluster does not change. `tasks`, chosen at
start-up, are those that get through to the API server: both, the watcher, or the reconciler. Selectors are the choice of
`Pods`; a pool is a set since `add_worker_to_pool` refuses duplicates (`PoolIsASet` of `K8sGateway` checks that).

### LogRotation

Every system call of `write` and `rotate` is a step, after each of which the process may crash or
the call fail. `file` and `backups` hold numbered records and survive a crash; `kept`, `lost` and
`cut` are history: records reported as written, records destroyed by one of the two ways the code
admits (a file that cannot be read counts as empty, `unwrap_or_default`; two rotations with the same second in
the name), and records in the file when a rotation was cut short, which may be stored twice. A record is
written whole or not at all; the queue of the non-blocking appender in front of the writer is not
modelled (its guard is leaked, `logging.rs:137`, so that lines still queued at exit are lost).

## 3. Runs

| Run | Question | Bounds |
|---|---|---|
| `gateway_accounting` | `TypeOK`, `CountersExact`, `LifecycleKept`, with selections that may panic | prefix affinity, 3 workers, one flaky, 3 connections |
| `gateway_cache_aware` | `NoPanic`, `AffinityWins` | 2 flaky workers, 2 connections, 2 prefixes |
| `gateway_progress` | `RequestsAnswered`, `HealthConverges`, `DownWorkerDrained`, `LifecycleServed` | least-loaded, 2 flaky workers, 2 connections |
| `pd_pipeline` | `TypeOK`, `DriftsOnlyInWindow`, `ReleasedBeforeResponding`, `RequestsAnswered` in both modes | 2 prefill workers, 2 connections, all faults |
| `sd_tasks` | `TypeOK`, `UniqueName`, `PoolMatchesTracker`, `TrackerConverges`, `PoolConverges`, with either task alone and with both | a pod, its restart at the same address, another pod |
| `k8s_gateway` | `TypeOK`, `PoolIsASet`, `CountersExact`, `ChargedWhereListed`, `LifecycleKept` | 3 URLs, 4 worker objects, 2 connections, vectors of length 2 |
| `selection` | `TypeOK`, `LoopsMatchPicks`, `JsqPanicExplained`, `CacheWinsMidScan`, `RoundRobinFair` | 3 workers, loads up to 3 |
| `messages` | `TypeOK`, `HeaderDecides`, `ConversationKeepsPrefix`, `PrefillOnly`, `DecodeAsAsked`, `PairMeets`, `MergeAligned` | below |
| `log_rotation` | `TypeOK`, `NothingLost`, `FileBounded`, `CounterExact`, `InOrderOnce` | limit 3, records of length 1, 3 and 4, 5 records, 2 seconds |

Why the bounds are enough to be interesting. Two connections suffice for every race between
handlers, three for a counter above the threshold together with a tie; two workers for a filtered
list, three where positions and places must differ in more than one way. `Threshold` is 1 instead
of 10, so that two requests overload a worker. `Usize` is just above the number of connections: an
unmatched decrement would wrap into a visible value; in `selection` it is 16, which lists of 3
workers do not divide, as 2^64 is no multiple of 3. `Flaky` limits the failing workers in the run
with three of them. `MaxEvents` watch events wait at a time (1, or 2 in the violation run);
restarts of the stream may deliver one for each existing pod. In `k8s_gateway` a third worker is
already beyond the vectors, and the fourth object is one re-created for a URL that was removed.
In `log_rotation` a record may just fill the file, exceed its limit alone or fit several times, and
there are records for two rotations, both in the same second or not; the clock may go back.
`messages` enumerates, per mode: all combinations of the three headers and the two body fields;
conversations of up to three turns with and without system messages; token limits of the
three APIs set, absent, or with a minimum above the limit that `as_u64` reads or does not; and answers with one
or two choices, up to two prompt tokens echoed or not, the last of them ASCII or not. An exchange ends, so that run does not check for deadlock.

`JsqPanicExplained` says when the second pass of `jsq_fallback` can find no
tied worker: a counter moved between the two passes, or the minimum is that of a worker outside
the list. The policy then panics, which `Gateway` has as `SelectPanics` (counters survive it)
and `PdPipeline` as the fault `panic` (a counter leaks).

### Where code and documentation disagree

Each of these runs is expected to find a counterexample to a sentence of the documentation.

| Run | What the code does |
|---|---|
| `doc_fewest` | `least_loaded.rs:27` starts at a random worker but compares with worker 0's load |
| `doc_affinity` | the directory's pool indices are used as positions of the filtered list |
| `doc_sd_same_ip` | a stale removal takes out the restarted pod's worker at the same address |

What the pools hold is only claimed of one task at a time: with both tasks it is the tracker that
converges, not the pools, as `doc_sd_same_ip` shows. All
discovery runs are of one namespace: `find` (`service_discovery.rs:342`) compares names only, so
pods of one name in two watched namespaces would evict each other. `server.rs:279` says that
`rebuild_policy` is called by service discovery; nothing calls it. Neither has a
run of its own.

## 4. Fairness

`Gateway` and `PdPipeline` assume weak fairness of what the router does by itself: tokio polls
every woken task, and the HTTP client is built with a timeout (`server.rs:21-27`) that covers
connecting, headers and body of requests and probes alike. So a send ends, at the latest in
`SendFails`. No worker is assumed to answer, and no client to send. `HealthConverges` needs the
checker only. `LifecycleServed` has weak fairness on the abstract side too: of serving each request that is
not idle. `ServiceDiscovery` assumes that the deployed tasks are scheduled and that the API server
keeps answering list calls; nothing is assumed of the watch stream, which may break again and
again. The conclusion is about clusters that settle (`<>[]frozen`). The other modules state safety only.

## 5. Proofs

| Theorem | Says |
|---|---|
| `GatewayProofs!TypeCorrect` | `Spec => []TypeOK` |
| `GatewayProofs!Accounting` | `Spec => []CountersExact` |
| `GatewayProofs!PolicyCallsSafe` | every policy but `prefix_affinity`: `Spec => []NoPanic` |
| `GatewayProofs!CacheAffinity` | `Spec => AffinityWins` |
| `GatewayProofs!GatewayKeepsLifecycle` | `Spec => LifecycleKept`: the detailed specification implements the abstract one |
| `K8sGatewayProofs!TypeCorrect`, `EachUrlOnce` | `Spec => []TypeOK`, `Spec => []PoolIsASet` |
| `K8sGatewayProofs!PlacesAccounted` | `Spec => []CountersExact` over a changing pool |
| `K8sGatewayProofs!ChargesWhatItListed` | `Spec => ChargedWhereListed` |
| `K8sGatewayProofs!ChangingPoolKeepsLifecycle` | `Spec => LifecycleKept` |
| `GatewayProofs!FewestUnlessFirst` | how much of the violated `PicksFewest` holds: with all workers healthy, a least loaded one is taken whenever worker 0 is not one |
| `PoliciesProofs!PicksInRange`, `PicksNonempty`, `AffinityDominates`, `FewestExactly` | what the policies return |
| `SelectionProofs!TypeCorrect`, `RoundRobinIsFair`, `LoopsAreSelections`, `EntryWinsMidScan`, `PanicIsExplained` | every invariant of `Selection` |
| `PdPipelineProofs!TypeCorrect` | `Spec => []TypeOK` |
| `PdPipelineProofs!NothingOwedAfterwards` | `Spec => []ReleasedBeforeResponding` |
| `PdPipelineProofs!CountersDriftOnlyInWindow` | `Spec => DriftsOnlyInWindow` |
| `ServiceDiscoveryProofs!TypeCorrect` | `Spec => []TypeOK` |
| `ServiceDiscoveryProofs!NamesStayUnique` | `Spec => []UniqueName` |
| `ServiceDiscoveryProofs!ReconcilerMatchesPools` | `Spec => [](tasks = {"reconciler"} => PoolMatchesTracker)`, if pods of one name have one role |
| `ServiceDiscoveryProofs!PoolsMatchTracker` | `Spec => []PoolMatchesTracker`, if also pods of one address have one name |
| `LogRotationProofs!TypeCorrect` | `Spec => []TypeOK` |
| `LogRotationProofs!RotationLosesNothing` | `Spec => []NothingLost` |
| `LogRotationProofs!CounterIsExact`, `FileStaysBounded` | `Spec => []CounterExact`, `Spec => []FileBounded` |
| `LogRotationProofs!StoredInOrder` | `Spec => []InOrderOnce` |
| `MessagesProofs!TypeCorrect` | `Spec => []TypeOK` |
| `MessagesProofs!HeaderAlwaysDecides`, `PrefixAlwaysKept` | `Spec => []HeaderDecides`, `Spec => []ConversationKeepsPrefix`, for conversations of every length |
| `MessagesProofs!PrefillAlwaysOnly`, `DecodeAlwaysAsAsked`, `PairAlwaysMeets` | `Spec => []PrefillOnly`, `Spec => []DecodeAsAsked`, `Spec => []PairMeets` |
| `MessagesProofs!MergeAlwaysAligned` | `Spec => []MergeAligned`, for any number of choices, tokens and prompt tokens |

Assumptions: at least one worker; finitely many connections, fewer than `Usize` values (otherwise a
counter could wrap legitimately); a known policy; non-empty sets of context hashes; records of a positive
length; requests, answers, URLs and rooms of the shapes that `Messages` describes. Each is a named
`ASSUME` in the module that declares the constant. Only `PolicyCallsSafe` (the policy)
and the two theorems about the pools of discovery have hypotheses of
their own, explained below.

- *Accounting.* `Inv` adds to `CountersExact` the types, that a chosen worker is one of the list
  (`RoutedToListed`: the index charged is an index of the pool), and that an outstanding probe
  is at a worker. A step creates a guard (`GuardCreated`), drops one (`GuardDropped`), or leaves the
  sets `InFlight(w)` alone (`NoGuardMoves`); the first two use `FS_AddElement` and
  `FS_RemoveElement`, and the bound on connections excludes a wrap.
- *GatewayKeepsLifecycle.* By `Inv`, before and after a step, `LoadNow` counts the guards of each
  worker, whether or not the policy keeps counters (`LoadCounts`). `PhaseMoves` gives the phase and
  worker of a slot after a step; a step that creates a guard is then the abstract `Charge`, one that drops one
  is `Release`, and the others are `Arrive`, `Refuse`, `Finish` or a stutter.
- *K8sGateway's theorems.* The argument needs nothing of the pool: counters belong to places, and a slot
  names a place exactly while it is charged (`Typed`). For *ChargesWhatItListed* the invariant adds that what
  a reading handler has listed is still in the pool (`ReadsTrue`), which holds since discovery waits
  for the read lock. *EachUrlOnce* needs `PoolOK`: whatever vector is copied to the health checker or to a
  handler holds objects that exist, and `retain` leaves a part of the pool in its order (`RetainedWorkers`).
- *PolicyCallsSafe* and *CacheAffinity* combine `Inv` with what `PoliciesProofs` shows of each
  policy. That a finite list has a best score and a least load is by an induction on the
  naturals, through the principle that a non-empty set of naturals has a least element. With
  exact arithmetic the weights decide: the affinity difference exceeds the whole range of the load term.
- *FewestUnlessFirst.* `FewestExactly` says when all answers of `LeastLoaded` are least loaded: if some worker is lighter
  than worker 0, or all are loaded alike. `doc_fewest` is thus the only way to miss while all workers are healthy: worker 0 is least loaded, and the
  random start is busier.
- *Loops.* What a loop of the code computes is a recursive function of the iteration reached
  (`LeastLoadedLoop`, `LoadCacheAwareLoop`, `Retained`, `SizeOf`, `TextBefore`). Such a definition is a
  `CHOOSE`, and says nothing until a function that solves its equation is shown to exist.
  `PoliciesProofs` shows that, from the fact that a non-empty set of naturals has a least element, and
  gives the induction (`UpToInduction`) that a loop invariant then needs.
- *Selection.* The loop invariant of `least_loaded` is `Carries`: the least load so far, and the first
  position with it, or the random start as long as worker 0 has the least load. That of `load_cache_aware` is
  `Tops`: the positions of the best score so far. Both are about an arbitrary vector of what was read, which is why no
  change of the counters between the reads matters. *RoundRobinIsFair* has as its invariant what was
  dealt out for a value of the counter (`DealtOK`): `q+1` answers for positions below `counter % n` and
  `q` for the others, or the whole cycle when the counter has just wrapped. *PanicIsExplained* needs
  no induction over steps beyond the types: it compares the two passes of a complete scan.
- *NothingOwedAfterwards, CountersDriftOnlyInWindow.* What is held is a function of stage and mode (`OwesInv`); two
  lemmas, for ending and for moving on, cover most actions. The accounting rests on it: a handler that is about to
  charge a pool owes that pool nothing, so that the charge is not written over one it forgets, and one that owes a
  worker is in its window (`OwesInWindow`). A step charges, finishes, or ends (`StepKinds`). A charge moves the counter and
  the number of holders up together, a finish down, and ending takes the handler from the holders only (`HolderMoves`);
  `DriftStep` compares the differences before and after, modulo `Usize`. Nothing is assumed of the faults.
- *NamesStayUnique.* `UniqueName` is inductive as it stands: the uid that `find` returns is
  the only one of its name.
- *ReconcilerMatchesPools, PoolsMatchTracker.* Between two locks the pools lag behind the tracker by the
  pod in hand. `Alone(t)` says for each stage whose workers the pools hold (`Served`), and that no two
  of those pods share an address, since removing the worker of one would remove that of the other. For
  the reconciler this follows from its list (`Round`): pods that are in the cluster together never share an
  address (`AddressesApart`), and what a round removes, it removes before it adds. For the watcher it does not
  follow: if it misses the deletion of a pod, another takes over the address and is then deleted, the pools lose
  a worker that the tracker still has (TLC finds it with two such pods). So
  *PoolsMatchTracker* assumes that an address stays with a name; the pods of `sd_tasks` satisfy both hypotheses.
- *LogRotation.* None of its invariants is inductive. That truncating loses nothing depends on the steps before
  it. `Kept` says where the records of the file are at each step of a rotation: read into memory; the backup of
  that name emptied, what it held being counted as lost; and, when the file is about to be truncated, in the
  backup or given up. `Ordered` is `InOrderOnce` for all stages but the one between the copy and the truncation,
  where it fails; it rests on `Shape`, by which the record being written is nowhere yet.
  `Counted` adds to the exact counter what `Offer` found before it let a record through: it fits, unless the file is empty.
- *Messages.* `TypeOK` says which messages exist at each stage of each mode (`MadeInOrder`). The invariant `Made` adds
  what they are, as functions of what they were made from: the context of the input, the requests of the body, the URL
  and prefill's answer, the client's answer of the two answers. The other properties are then facts about those functions.
  `HeaderDecides` and `ConversationKeepsPrefix` rest on the first element of a sequence that passes a
  test (`FirstInIs`), which a longer sequence does not change (`AddressedOfBeginning`). For `PrefillOnly`
  each API's limits are followed through the insertions (`ClampedFields`).
- *MergeAlwaysAligned.* An offset is the number of characters of the tokens before it (`TextBeforeSteps`, by induction
  up to the token). The code moves the generated offsets by the offset and the bytes of the last prompt token, which, that token being ASCII
  (`LastInAscii`), is the text of the prompt (`BaseIs`); the text before a token of two joined arrays is that of the first plus that of the
  second up to there (`TextBeforeJoined`). The arrays are cut to the same prompt (`UpToLenIs`) and joined to the same
  length (`JoinedAligned`), and no choice is lost or moved (`MergeChoices`).

Only model-checked: liveness (fairness and ENABLED are out of the prover's reach), including the
fairness half of the refinement: `RequestsAnswered` of `Gateway` and `PdPipeline`, `HealthConverges`,
`DownWorkerDrained`, `LifecycleServed`, `TrackerConverges`, `PoolConverges`. All other properties of the passing runs are
proved, two under the hypotheses above.
`NoPanic` is false of `prefix_affinity` (see `JsqPanicExplained`), which is why the theorem excludes it.

## 6. Not modelled, and the plan

Left to do, in this order:

1. The pipeline over the changing pools of Kubernetes mode.
2. Selectors: `should_include`, `list_label_selector` and how they decide a pod's pool.

Not reachable in the program as it is, and so left out: entries of the cache directory that go stale and
the policies' selection without a context (both used by tests only), `rebuild_policy`, and forwarding a
request in Kubernetes mode.

Left out for good: authentication, header filter and health endpoint (stateless), command-line
parsing, start-up and shutdown (run once, or axum's own), the Python binding (repeats `main.rs`).
