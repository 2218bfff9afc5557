------------------------- MODULE ServiceDiscovery -------------------------
(***************************************************************************)
(* Kubernetes service discovery: the watcher task and the reconciliation   *)
(* task, which share the tracked set (under a mutex) and the worker pools  *)
(* (under RwLocks).  Each lock is taken and released on its own, so the    *)
(* tasks interleave between an update of one and the update of the other.  *)
(*                                                                         *)
(* A pod p \in Pods is one (name, uid): a restarted pod is another pod of  *)
(* the same name.  The cluster and the watch stream are external: every    *)
(* change of a pod the router reacts to is delivered in order, until the   *)
(* stream breaks and starts again from the objects that exist then.        *)
(* applied_objects() drops the Deleted events, and events of pods that are *)
(* not ready do nothing, so neither is ever put in `events'.               *)
(***************************************************************************)
EXTENDS Integers, Sequences, FiniteSets

CONSTANTS
    Pods,        \* the pods of the history, one per uid
    NoPod,       \* no pod
    Name,        \* Name[p]: metadata.name
    Namespace,   \* Namespace[p]: metadata.namespace
    Ip,          \* Ip[p]: the pod's address
    Role,        \* Role[p]: the pool select_pool gives the pod's type
    Deployments, \* the sets of tasks that may get through to the API server
    MaxEvents    \* bound on undelivered watch events

AllTasks == {"watcher", "reconciler"}

ASSUME PodsAssumption  == NoPod \notin Pods /\ IsFiniteSet(Pods)
ASSUME DeploymentsAssumption == Deployments \subseteq SUBSET AllTasks
ASSUME BoundAssumption == MaxEvents \in Nat

VARIABLES
    tasks,     \* the tasks that run, fixed at start-up
    life,      \* the pod in the cluster
    frozen,    \* the cluster has stopped changing
    events,    \* watch events not yet handled
    tracked,   \* tracked_pods
    pool,      \* the worker pools: pairs of a pool and a worker URL
    stage,     \* where each task is
    pod,       \* the pod the task is working on
    old,       \* the pod of the same name it has found to evict
    listed,    \* the reconciler's pod list, once the API server has answered
    stale, missing   \* its diff, as far as it is still to be worked off

clusterVars == <<tasks, life, frozen>>
taskVars    == <<stage, pod, old, listed, stale, missing>>
vars == <<clusterVars, events, tracked, pool, taskVars>>

Lives  == {"absent", "pending", "ready", "terminating", "gone"}
Holding == {"evict", "add", "remove", "untrack"}
Stages  == Holding \cup {"idle", "listed", "working"}

Url(p)       == Ip[p]                        \* worker_url: the port is everywhere the same
Entry(p)     == <<Role[p], Url(p)>>
Entries(ps)  == {Entry(p) : p \in ps}
InLife(ls)   == {p \in Pods : life[p] \in ls}
Ready        == InLife({"ready"})
Live         == InLife({"pending", "ready"})
EmptyList    == [live |-> {}, ready |-> {}]

Events == Pods \X {"ready", "terminating"}

\* Every variable has its type, and a task has a pod in hand, or an old uid to
\* evict, exactly at the stages that use one.
TypeOK ==
    /\ tasks \in Deployments
    /\ life \in [Pods -> Lives]
    /\ frozen \in BOOLEAN
    /\ events \in Seq(Events)
    /\ tracked \subseteq Pods
    /\ pool \subseteq {Role[p] : p \in Pods} \X {Url(p) : p \in Pods}
    /\ stage \in [AllTasks -> Stages]
    /\ pod \in [AllTasks -> Pods \cup {NoPod}]
    /\ old \in [AllTasks -> Pods \cup {NoPod}]
    /\ \A t \in AllTasks : /\ (pod[t] \in Pods) <=> stage[t] \in Holding
                           /\ (old[t] \in Pods) <=> stage[t] = "evict"
    /\ listed \in [live : SUBSET Pods, ready : SUBSET Pods]
    /\ stale \subseteq Pods /\ missing \subseteq Pods

Init ==
    /\ tasks \in Deployments
    /\ life = [p \in Pods |-> "absent"]
    /\ frozen = FALSE
    /\ events = << >>
    /\ tracked = {}
    /\ pool = {}
    /\ stage = [t \in AllTasks |-> "idle"]
    /\ pod = [t \in AllTasks |-> NoPod]
    /\ old = [t \in AllTasks |-> NoPod]
    /\ listed = EmptyList
    /\ stale = {} /\ missing = {}

-----------------------------------------------------------------------------
(* The cluster (external).                                                 *)

\* An object's name is unique in its namespace, an address in the cluster.
MayCoexist(p, q) == Ip[p] # Ip[q] /\ (Name[p] # Name[q] \/ Namespace[p] # Namespace[q])

Changes(p, from, to) == ~frozen /\ life[p] \in from /\ life' = [life EXCEPT ![p] = to]

Emit(p, kind) ==
    IF "watcher" \in tasks
    THEN Len(events) < MaxEvents /\ events' = Append(events, <<p, kind>>)
    ELSE UNCHANGED events

PodCreated(p) ==
    /\ \A q \in InLife({"pending", "ready", "terminating"}) : MayCoexist(p, q)
    /\ Changes(p, {"absent"}, "pending")
    /\ UNCHANGED events

PodReady(p)       == Changes(p, {"pending"}, "ready") /\ Emit(p, "ready")
PodUnready(p)     == Changes(p, {"ready"}, "pending") /\ UNCHANGED events
PodTerminating(p) == Changes(p, {"pending", "ready"}, "terminating") /\ Emit(p, "terminating")

\* Gone for good, after its grace period or by force.
PodGone(p) == Changes(p, {"pending", "ready", "terminating"}, "gone") /\ UNCHANGED events

ClusterChanges(p) ==
    /\ \/ PodCreated(p) \/ PodReady(p) \/ PodUnready(p) \/ PodTerminating(p) \/ PodGone(p)
    /\ UNCHANGED <<tasks, frozen, tracked, pool, taskVars>>

ClusterSettles ==
    /\ ~frozen /\ frozen' = TRUE
    /\ UNCHANGED <<tasks, life, events, tracked, pool, taskVars>>

Orderings(S) == {q \in [1 .. Cardinality(S) -> S] : {q[i] : i \in DOMAIN q} = S}

\* The stream ends in an error: the outer loop opens a new one, which delivers
\* the objects as they are now and nothing of what was still under way.
WatchRestarts ==
    /\ "watcher" \in tasks /\ stage["watcher"] = "idle"
    /\ events' \in Orderings({<<p, life[p]>> : p \in InLife({"ready", "terminating"})})
    /\ UNCHANGED <<clusterVars, tracked, pool, taskVars>>

-----------------------------------------------------------------------------
(* handle_pod_event, of both tasks.                                        *)

Rest(t) == IF t = "watcher" THEN "idle" ELSE "working"

GoesTo(t, s, p, o) ==
    /\ stage' = [stage EXCEPT ![t] = s]
    /\ pod' = [pod EXCEPT ![t] = p]
    /\ old' = [old EXCEPT ![t] = o]

\* tracker.find: pods of the same name and another uid, in any namespace.
OldUids(p) == {q \in tracked : Name[q] = Name[p] /\ q # p}

\* Mutant of Track: the old uid stays tracked.
TrackKeepsOld(t, p) ==
    /\ \/ p \in tracked /\ GoesTo(t, Rest(t), NoPod, NoPod)
       \/ p \notin tracked /\ OldUids(p) = {} /\ GoesTo(t, "add", p, NoPod)
       \/ p \notin tracked /\ \E o \in OldUids(p) : GoesTo(t, "evict", p, o)
    /\ tracked' = tracked \cup {p}

\* Mutant of Track: evicts without having found an old uid.
TrackEvictsAlways(t, p) ==
    /\ p \notin tracked
    /\ \/ OldUids(p) = {} /\ GoesTo(t, "evict", p, NoPod)
       \/ \E o \in OldUids(p) : GoesTo(t, "evict", p, o)
    /\ tracked' = (tracked \ OldUids(p)) \cup {p}

\* Under the mutex: the tracker takes the pod in and one old uid out.
Track(t, p) ==
    \/ /\ p \in tracked
       /\ GoesTo(t, Rest(t), NoPod, NoPod)
       /\ UNCHANGED tracked
    \/ /\ p \notin tracked /\ OldUids(p) = {}
       /\ GoesTo(t, "add", p, NoPod)
       /\ tracked' = tracked \cup {p}
    \/ /\ p \notin tracked
       /\ \E o \in OldUids(p) :
             /\ GoesTo(t, "evict", p, o)
             /\ tracked' = (tracked \ {o}) \cup {p}

\* The old worker leaves the pool that the NEW pod belongs to.
Evict(t) ==
    /\ stage[t] = "evict"
    /\ pool' = pool \ {<<Role[pod[t]], Url(old[t])>>}
    /\ GoesTo(t, "add", pod[t], NoPod)
    /\ UNCHANGED <<clusterVars, events, tracked, listed, stale, missing>>

\* add_worker_to_pool: no duplicates.
Add(t) ==
    /\ stage[t] = "add"
    /\ pool' = pool \cup {Entry(pod[t])}
    /\ GoesTo(t, Rest(t), NoPod, NoPod)
    /\ UNCHANGED <<clusterVars, events, tracked, listed, stale, missing>>

-----------------------------------------------------------------------------
(* The watcher task.                                                       *)

\* The next event of the stream; handlers run one at a time.
NextEvent(kind) == stage["watcher"] = "idle" /\ events # << >> /\ Head(events)[2] = kind

HandlePodEvent ==
    /\ NextEvent("ready")
    /\ Track("watcher", Head(events)[1])
    /\ events' = Tail(events)
    /\ UNCHANGED <<clusterVars, pool, listed, stale, missing>>

HandlePodDeletion ==
    /\ NextEvent("terminating")
    /\ LET p == Head(events)[1] IN
          /\ IF p \in tracked THEN GoesTo("watcher", "remove", p, NoPod)
                              ELSE GoesTo("watcher", "idle", NoPod, NoPod)
          /\ tracked' = tracked \ {p}
    /\ events' = Tail(events)
    /\ UNCHANGED <<clusterVars, pool, listed, stale, missing>>

Remove ==
    /\ stage["watcher"] = "remove"
    /\ pool' = pool \ {Entry(pod["watcher"])}
    /\ GoesTo("watcher", "idle", NoPod, NoPod)
    /\ UNCHANGED <<clusterVars, events, tracked, listed, stale, missing>>

-----------------------------------------------------------------------------
(* The reconciliation task.                                                *)

\* The API server answers the list call; the answer ages until it is used.
ListPods ==
    /\ stage["reconciler"] = "idle"
    /\ listed' = [live |-> Live, ready |-> Ready]
    /\ GoesTo("reconciler", "listed", NoPod, NoPod)
    /\ UNCHANGED <<clusterVars, events, tracked, pool, stale, missing>>

\* compute_reconciliation_diff, under the mutex.
ComputeDiff ==
    /\ stage["reconciler"] = "listed"
    /\ stale' = tracked \ listed.live
    /\ missing' = listed.ready \ tracked
    /\ listed' = EmptyList
    /\ GoesTo("reconciler", "working", NoPod, NoPod)
    /\ UNCHANGED <<clusterVars, events, tracked, pool>>

\* Mutant of RemoveStale: only the tracker forgets the pod.
RemoveStaleTracked(p) ==
    /\ stage["reconciler"] = "working" /\ p \in stale
    /\ GoesTo("reconciler", "untrack", p, NoPod)
    /\ UNCHANGED <<clusterVars, events, tracked, pool, listed, stale, missing>>

\* A stale pod leaves the pool first, and the tracker in a step of its own.
RemoveStale(p) ==
    /\ stage["reconciler"] = "working" /\ p \in stale
    /\ pool' = pool \ {Entry(p)}
    /\ GoesTo("reconciler", "untrack", p, NoPod)
    /\ UNCHANGED <<clusterVars, events, tracked, listed, stale, missing>>

\* Mutant of Untrack: forgets the tracker.
UntrackForgotten ==
    /\ stage["reconciler"] = "untrack"
    /\ stale' = stale \ {pod["reconciler"]}
    /\ GoesTo("reconciler", "working", NoPod, NoPod)
    /\ UNCHANGED <<clusterVars, events, tracked, pool, listed, missing>>

Untrack ==
    /\ stage["reconciler"] = "untrack"
    /\ tracked' = tracked \ {pod["reconciler"]}
    /\ stale' = stale \ {pod["reconciler"]}
    /\ GoesTo("reconciler", "working", NoPod, NoPod)
    /\ UNCHANGED <<clusterVars, events, pool, listed, missing>>

\* Mutant of HandleMissing: does not wait for the stale workers to be removed.
HandleMissingFirst(p) ==
    /\ stage["reconciler"] = "working" /\ p \in missing
    /\ missing' = missing \ {p}
    /\ Track("reconciler", p)
    /\ UNCHANGED <<clusterVars, events, pool, listed, stale>>

HandleMissing(p) ==
    /\ stage["reconciler"] = "working" /\ stale = {} /\ p \in missing
    /\ missing' = missing \ {p}
    /\ Track("reconciler", p)
    /\ UNCHANGED <<clusterVars, events, pool, listed, stale>>

Reconciled ==
    /\ stage["reconciler"] = "working" /\ stale = {} /\ missing = {}
    /\ GoesTo("reconciler", "idle", NoPod, NoPod)
    /\ UNCHANGED <<clusterVars, events, tracked, pool, listed, stale, missing>>

-----------------------------------------------------------------------------

Watcher ==
    /\ "watcher" \in tasks
    /\ HandlePodEvent \/ HandlePodDeletion \/ Remove \/ Evict("watcher") \/ Add("watcher")

Reconciler ==
    /\ "reconciler" \in tasks
    /\ \/ ListPods \/ ComputeDiff \/ Untrack \/ Reconciled
       \/ \E p \in Pods : RemoveStale(p) \/ HandleMissing(p)
       \/ Evict("reconciler") \/ Add("reconciler")

Next ==
    \/ \E p \in Pods : ClusterChanges(p)
    \/ ClusterSettles \/ WatchRestarts
    \/ Watcher \/ Reconciler

Spec == Init /\ [][Next]_vars

\* Both tasks run for ever; the API server keeps answering the one that lists.
FairSpec == Spec /\ WF_vars(Watcher) /\ WF_vars(Reconciler)

-----------------------------------------------------------------------------
(* Properties.                                                             *)

\* However the tasks interleave on stale events and stale lists, the tracker
\* never holds two uids of one name, so that `find' cannot miss an old one.
UniqueName == \A p, q \in tracked : Name[p] = Name[q] => p = q

\* Once the cluster is quiet the tracker has every ready pod and no dead one,
\* with or without a watcher: what it missed, the reconciler makes good.
TrackerConverges ==
    "reconciler" \in tasks /\ <>[]frozen => <>[](Ready \subseteq tracked /\ tracked \subseteq Live)

\* With one task alone the pools hold exactly the tracked pods' workers whenever
\* it is between two events, or two rounds: also when a restarted pod keeps its
\* address, so that the worker evicted and the worker added are one URL.  (An
\* address that passes to a pod of another name breaks it for the watcher.)
PoolMatchesTracker ==
    Cardinality(tasks) = 1 /\ (\A t \in AllTasks : stage[t] = "idle") => pool = Entries(tracked)

\* service_discovery.rs:5 "A periodic reconciliation loop catches events missed
\* by the watcher": in a quiet cluster the reconciler alone leaves no dead pod's
\* worker in a pool and no ready pod's worker out.
PoolConverges ==
    tasks = {"reconciler"} /\ <>[]frozen =>
        <>[](Entries(Ready) \subseteq pool /\ pool \subseteq Entries(Live))

\* In a quiet cluster every ready pod's worker is in its pool in the end
\* (reconcile_pods: "Healthy pods in K8s but missing from tracked_pods -> add
\* to pool"), whatever the two tasks still had under way.
ReadyServed == <>[]frozen => <>[](Entries(Ready) \subseteq pool)

=============================================================================
