---------------------- MODULE ServiceDiscoveryProofs ----------------------
(***************************************************************************)
(* The tracked set never holds two uids of one name, for every history of  *)
(* pods, whichever tasks run and however their steps interleave.  That is  *)
(* inductive as it stands: the old uid that Track finds is, by the         *)
(* invariant before the step, the only one of that name.                   *)
(*                                                                         *)
(* A task that runs alone keeps the pools in step with the tracked set.    *)
(* The invariant names, for each stage, the pods whose workers are in the  *)
(* pools then, and says that no two of them share an address.  For the     *)
(* reconciler that follows from the lists it works from; for the watcher   *)
(* it has to be assumed of the cluster.                                    *)
(***************************************************************************)
EXTENDS ServiceDiscovery, FiniteSetTheorems, TLAPS

\* Taking a pod in keeps names unique, whatever the tracker's other actor did.
LEMMA TrackKeepsNamesUnique ==
    ASSUME UniqueName, NEW t, NEW p, Track(t, p)
    PROVE  UniqueName'
<1>1. CASE p \in tracked /\ UNCHANGED tracked
    BY <1>1 DEF UniqueName
<1>2. CASE p \notin tracked /\ OldUids(p) = {} /\ tracked' = tracked \cup {p}
    BY <1>2 DEF UniqueName, OldUids
<1>3. CASE /\ p \notin tracked
           /\ \E o \in OldUids(p) : tracked' = (tracked \ {o}) \cup {p}
    <2>1. PICK o \in OldUids(p) : tracked' = (tracked \ {o}) \cup {p}
        BY <1>3
    <2>2. \A q \in tracked \ {o} : Name[q] # Name[p]
        BY <2>1 DEF UniqueName, OldUids
    <2>3. QED
        BY <2>1, <2>2 DEF UniqueName
<1>4. QED
    BY <1>1, <1>2, <1>3 DEF Track

\* A tracker that only loses pods keeps their names unique.
LEMMA FewerPodsKeepNamesUnique ==
    ASSUME UniqueName, tracked' \subseteq tracked
    PROVE  UniqueName'
BY DEF UniqueName

LEMMA UniqueNameStep == UniqueName /\ [Next]_vars => UniqueName'
<1> SUFFICES ASSUME UniqueName, [Next]_vars PROVE UniqueName'
    OBVIOUS
<1>1. CASE \E p \in Pods : ClusterChanges(p)
    BY <1>1, FewerPodsKeepNamesUnique DEF ClusterChanges
<1>2. CASE ClusterSettles \/ WatchRestarts
    BY <1>2, FewerPodsKeepNamesUnique DEF ClusterSettles, WatchRestarts
<1>3. CASE Watcher
    <2>1. CASE HandlePodEvent
        BY <2>1, TrackKeepsNamesUnique DEF HandlePodEvent
    <2>2. CASE HandlePodDeletion
        BY <2>2, FewerPodsKeepNamesUnique DEF HandlePodDeletion
    <2>3. CASE Remove \/ Evict("watcher") \/ Add("watcher")
        BY <2>3, FewerPodsKeepNamesUnique DEF Remove, Evict, Add
    <2>4. QED
        BY <1>3, <2>1, <2>2, <2>3 DEF Watcher
<1>4. CASE Reconciler
    <2>1. CASE ListPods \/ ComputeDiff \/ Reconciled
        BY <2>1, FewerPodsKeepNamesUnique DEF ListPods, ComputeDiff, Reconciled
    <2>2. CASE Untrack
        BY <2>2, FewerPodsKeepNamesUnique DEF Untrack
    <2>3. CASE \E p \in Pods : RemoveStale(p)
        BY <2>3, FewerPodsKeepNamesUnique DEF RemoveStale
    <2>4. CASE \E p \in Pods : HandleMissing(p)
        BY <2>4, TrackKeepsNamesUnique DEF HandleMissing
    <2>5. CASE Evict("reconciler") \/ Add("reconciler")
        BY <2>5, FewerPodsKeepNamesUnique DEF Evict, Add
    <2>6. QED
        BY <1>4, <2>1, <2>2, <2>3, <2>4, <2>5 DEF Reconciler
<1>5. CASE UNCHANGED vars
    BY <1>5, FewerPodsKeepNamesUnique DEF vars
<1>6. QED
    BY <1>1, <1>2, <1>3, <1>4, <1>5 DEF Next

\* handle_pod_event's `find' looks for one old uid and evicts one: there is
\* never a second one it would leave behind.
THEOREM NamesStayUnique == Spec => []UniqueName
<1>1. Init => UniqueName
    BY DEF Init, UniqueName
<1>2. QED
    BY <1>1, UniqueNameStep, PTL DEF Spec

-----------------------------------------------------------------------------
(* Types.                                                                  *)

\* What a new watch stream starts with are events of the cluster's pods.
LEMMA StreamStarts ==
    ASSUME NEW q \in Orderings({<<p, life[p]>> : p \in InLife({"ready", "terminating"})})
    PROVE  q \in Seq(Events)
<1> DEFINE S == {<<p, life[p]>> : p \in InLife({"ready", "terminating"})}
<1>1. S \subseteq Events
    BY DEF InLife, Events
<1>2. IsFiniteSet({"ready", "terminating"})
    <2>1. {"ready", "terminating"} = {"ready"} \cup {"terminating"}
        OBVIOUS
    <2>2. IsFiniteSet({"ready"}) /\ IsFiniteSet({"terminating"})
        BY FS_Singleton
    <2>3. QED
        BY <2>1, <2>2, FS_Union
<1>3. IsFiniteSet(Events)
    BY <1>2, PodsAssumption, FS_Product DEF Events
<1>4. Cardinality(S) \in Nat
    BY <1>1, <1>3, FS_Subset, FS_CardinalityType
<1> HIDE DEF S
<1>5. q \in [1 .. Cardinality(S) -> S]
    BY DEF Orderings, S
<1>6. QED
    BY <1>1, <1>4, <1>5

\* What TypeOK says of the tasks: a pod in hand exactly at the stages that use one.
TasksOK ==
    /\ stage \in [AllTasks -> Stages]
    /\ pod \in [AllTasks -> Pods \cup {NoPod}]
    /\ old \in [AllTasks -> Pods \cup {NoPod}]
    /\ \A t \in AllTasks : /\ (pod[t] \in Pods) <=> stage[t] \in Holding
                           /\ (old[t] \in Pods) <=> stage[t] = "evict"

\* What it says of everything the cluster does not own but the stream and the pools.
TrackerOK ==
    /\ tracked \subseteq Pods
    /\ listed \in [live : SUBSET Pods, ready : SUBSET Pods]
    /\ stale \subseteq Pods /\ missing \subseteq Pods

LEMMA GoesToTyped ==
    ASSUME TasksOK, NEW t \in AllTasks, NEW s \in Stages,
           NEW p \in Pods \cup {NoPod}, NEW o \in Pods \cup {NoPod}, GoesTo(t, s, p, o),
           p \in Pods <=> s \in Holding, o \in Pods <=> s = "evict"
    PROVE  TasksOK'
BY DEF TasksOK, GoesTo

\* A task that lets go of its pod.
LEMMA PutsDown ==
    ASSUME TasksOK, NEW t \in AllTasks, NEW s \in {"idle", "listed", "working"},
           GoesTo(t, s, NoPod, NoPod)
    PROVE  TasksOK'
<1>1. s \in Stages /\ s \notin Holding /\ s # "evict" /\ NoPod \notin Pods
    BY PodsAssumption DEF Stages, Holding
<1>2. QED
    BY <1>1, GoesToTyped

LEMMA TrackTyped ==
    ASSUME TasksOK, tracked \subseteq Pods, NEW t \in AllTasks, NEW p \in Pods, Track(t, p)
    PROVE  tracked' \subseteq Pods /\ TasksOK'
<1>1. NoPod \notin Pods /\ "add" \in Holding \cap Stages /\ "evict" \in Holding \cap Stages
    BY PodsAssumption DEF Stages, Holding
<1>2. CASE GoesTo(t, Rest(t), NoPod, NoPod) /\ UNCHANGED tracked
    BY <1>2, PutsDown DEF Rest
<1>3. CASE GoesTo(t, "add", p, NoPod) /\ tracked' = tracked \cup {p}
    BY <1>1, <1>3, GoesToTyped
<1>4. ASSUME NEW o \in OldUids(p), GoesTo(t, "evict", p, o), tracked' = (tracked \ {o}) \cup {p}
      PROVE  tracked' \subseteq Pods /\ TasksOK'
    <2>1. o \in Pods
        BY DEF OldUids
    <2>2. QED
        BY <1>1, <1>4, <2>1, GoesToTyped
<1>5. QED
    BY <1>2, <1>3, <1>4 DEF Track

LEMMA EvictTyped == ASSUME TypeOK, NEW t \in AllTasks, Evict(t) PROVE TypeOK'
<1>1. TasksOK /\ TrackerOK
    BY DEF TypeOK, TasksOK, TrackerOK
<1>2. pod[t] \in Pods /\ NoPod \notin Pods /\ "add" \in Holding \cap Stages
    BY PodsAssumption DEF Evict, TypeOK, Holding, Stages
<1>3. GoesTo(t, "add", pod[t], NoPod)
    BY DEF Evict
<1>4. TasksOK'
    BY <1>1, <1>2, <1>3, GoesToTyped
<1>5. QED
    BY <1>4 DEF Evict, TypeOK, TasksOK, clusterVars

LEMMA AddTyped == ASSUME TypeOK, NEW t \in AllTasks, Add(t) PROVE TypeOK'
<1>1. TasksOK
    BY DEF TypeOK, TasksOK
<1>2. pod[t] \in Pods
    <2>1. stage[t] \in Holding
        BY DEF Add, Holding
    <2>2. QED
        BY <1>1, <2>1 DEF TasksOK
<1>3. TasksOK'
    BY <1>1, PutsDown DEF Add, Rest
<1>4. pool' \subseteq {Role[p] : p \in Pods} \X {Url(p) : p \in Pods}
    BY <1>2 DEF Add, TypeOK, Entry
<1>5. QED
    BY <1>3, <1>4 DEF Add, TypeOK, TasksOK, clusterVars

LEMMA ClusterTyped ==
    ASSUME TypeOK, NEW p \in Pods, ClusterChanges(p)
    PROVE  TypeOK'
<1>1. life' \in [Pods -> Lives]
    BY DEF TypeOK, ClusterChanges, PodCreated, PodReady, PodUnready, PodTerminating, PodGone,
           Changes, Lives
<1>2. events' \in Seq(Events)
    <2>1. <<p, "ready">> \in Events /\ <<p, "terminating">> \in Events
        BY DEF Events
    <2>2. ASSUME NEW k \in {"ready", "terminating"}, Emit(p, k) PROVE events' \in Seq(Events)
        <3>1. events \in Seq(Events) /\ <<p, k>> \in Events
            BY <2>1 DEF TypeOK
        <3>2. Append(events, <<p, k>>) \in Seq(Events)
            BY <3>1
        <3>3. QED
            BY <2>2, <3>1, <3>2, Zenon DEF Emit
    <2>3. QED
        BY <2>2 DEF TypeOK, ClusterChanges, PodCreated, PodReady, PodUnready, PodTerminating, PodGone
<1>3. QED
    BY <1>1, <1>2 DEF TypeOK, ClusterChanges, taskVars

LEMMA WatcherTyped == ASSUME TypeOK, Watcher PROVE TypeOK'
<1>1. TasksOK /\ TrackerOK /\ "watcher" \in AllTasks
    BY DEF TypeOK, TasksOK, TrackerOK, AllTasks
<1>2. ASSUME events # << >>
      PROVE  Head(events)[1] \in Pods /\ Tail(events) \in Seq(Events)
    <2>1. events \in Seq(Events) /\ Head(events) \in Events /\ Tail(events) \in Seq(Events)
        BY <1>2 DEF TypeOK
    <2>2. QED
        BY <2>1 DEF Events
<1>3. CASE HandlePodEvent
    <2>1. events' \in Seq(Events) /\ tracked' \subseteq Pods /\ TasksOK'
        BY <1>1, <1>2, <1>3, TrackTyped DEF HandlePodEvent, NextEvent, TrackerOK
    <2>2. QED
        BY <1>3, <2>1 DEF HandlePodEvent, TypeOK, TasksOK, clusterVars
<1>4. CASE HandlePodDeletion
    <2> DEFINE p == Head(events)[1]
    <2>1. p \in Pods /\ events' \in Seq(Events) /\ tracked' \subseteq Pods
        BY <1>1, <1>2, <1>4 DEF HandlePodDeletion, NextEvent, TrackerOK
    <2>2. TasksOK'
        <3>1. "remove" \in Holding \cap Stages /\ NoPod \notin Pods
            BY PodsAssumption DEF Holding, Stages
        <3>2. CASE GoesTo("watcher", "remove", p, NoPod)
            BY <1>1, <2>1, <3>1, <3>2, GoesToTyped
        <3>3. CASE GoesTo("watcher", "idle", NoPod, NoPod)
            BY <1>1, <3>3, PutsDown
        <3>4. QED
            BY <1>4, <3>2, <3>3 DEF HandlePodDeletion
    <2>3. QED
        BY <1>4, <2>1, <2>2 DEF HandlePodDeletion, TypeOK, TasksOK, clusterVars
<1>5. CASE Remove
    <2>1. TasksOK'
        BY <1>1, <1>5, PutsDown DEF Remove
    <2>2. QED
        BY <1>5, <2>1 DEF Remove, TypeOK, TasksOK, clusterVars
<1>6. QED
    BY <1>1, <1>3, <1>4, <1>5, EvictTyped, AddTyped DEF Watcher

LEMMA ReconcilerTyped == ASSUME TypeOK, Reconciler PROVE TypeOK'
<1>1. TasksOK /\ TrackerOK /\ "reconciler" \in AllTasks
    BY DEF TypeOK, TasksOK, TrackerOK, AllTasks
<1>2. CASE ListPods \/ ComputeDiff \/ Reconciled
    <2>1. TasksOK'
        BY <1>1, <1>2, PutsDown DEF ListPods, ComputeDiff, Reconciled
    <2>2. TrackerOK' /\ UNCHANGED <<clusterVars, events, tracked, pool>>
        BY <1>1, <1>2 DEF ListPods, ComputeDiff, Reconciled, TrackerOK, Live, Ready, InLife, EmptyList
    <2>3. QED
        BY <2>1, <2>2 DEF TypeOK, TasksOK, TrackerOK, clusterVars
<1>3. CASE Untrack
    <2>1. TasksOK' /\ TrackerOK'
        BY <1>1, <1>3, PutsDown DEF Untrack, TrackerOK
    <2>2. QED
        BY <1>3, <2>1 DEF Untrack, TypeOK, TasksOK, TrackerOK, clusterVars
<1>4. ASSUME NEW p \in Pods, RemoveStale(p) PROVE TypeOK'
    <2>1. "untrack" \in Holding \cap Stages /\ NoPod \notin Pods
        BY PodsAssumption DEF Holding, Stages
    <2>2. GoesTo("reconciler", "untrack", p, NoPod)
        BY <1>4 DEF RemoveStale
    <2>3. TasksOK'
        BY <1>1, <2>1, <2>2, GoesToTyped
    <2>4. QED
        BY <1>4, <2>3 DEF RemoveStale, TypeOK, TasksOK, clusterVars
<1>5. ASSUME NEW p \in Pods, HandleMissing(p) PROVE TypeOK'
    <2>1. tracked' \subseteq Pods /\ TasksOK'
        BY <1>1, <1>5, TrackTyped DEF HandleMissing, TrackerOK
    <2>2. QED
        BY <1>5, <2>1 DEF HandleMissing, TypeOK, TasksOK, clusterVars
<1>6. QED
    BY <1>1, <1>2, <1>3, <1>4, <1>5, EvictTyped, AddTyped DEF Reconciler

LEMMA TypedStep == TypeOK /\ [Next]_vars => TypeOK'
<1> SUFFICES ASSUME TypeOK, [Next]_vars PROVE TypeOK'
    OBVIOUS
<1>1. CASE ClusterSettles
    BY <1>1 DEF ClusterSettles, TypeOK, taskVars
<1>2. CASE WatchRestarts
    <2>1. events' \in Seq(Events)
        BY <1>2, StreamStarts DEF WatchRestarts
    <2>2. QED
        BY <1>2, <2>1 DEF WatchRestarts, TypeOK, clusterVars, taskVars
<1>3. CASE UNCHANGED vars
    BY <1>3 DEF vars, TypeOK, clusterVars, taskVars
<1>4. QED
    BY <1>1, <1>2, <1>3, ClusterTyped, WatcherTyped, ReconcilerTyped DEF Next

LEMMA InitTyped == Init => TypeOK
<1> SUFFICES ASSUME Init PROVE TypeOK
    OBVIOUS
<1>1. TasksOK
    BY PodsAssumption DEF Init, TasksOK, Stages, Holding
<1>2. TrackerOK
    BY DEF Init, TrackerOK, EmptyList
<1>3. events \in Seq(Events) /\ life \in [Pods -> Lives]
    BY DEF Init, Lives
<1>4. tasks \in Deployments /\ pool \subseteq {Role[p] : p \in Pods} \X {Url(p) : p \in Pods}
    BY DEF Init
<1>5. QED
    BY <1>1, <1>2, <1>3, <1>4 DEF Init, TypeOK, TasksOK, TrackerOK

\* Every variable keeps its type, and a task has a pod in hand, and an old uid to
\* evict, exactly at the stages that use one, whichever tasks run.
THEOREM TypeCorrect == Spec => []TypeOK
BY InitTyped, TypedStep, PTL DEF Spec

-----------------------------------------------------------------------------
(* The pools of a task that runs alone.  Between two locks the pools lag    *)
(* behind the tracker by the pod in hand: Served(t) are the pods whose      *)
(* workers they hold then.  Removing the worker of one pod must not remove  *)
(* that of another, so no two of them may have one address: a list of the   *)
(* cluster's live pods has that, a tracker fed by the watcher alone has it  *)
(* only where an address is never taken over by a pod of another name.      *)

OneRolePerName    == \A p, q \in Pods : Name[p] = Name[q] => Role[p] = Role[q]
OneNamePerAddress == \A p, q \in Pods : Ip[p] = Ip[q] => Name[p] = Name[q]

OneAddress(S) == \A p, q \in S : Ip[p] = Ip[q] => p = q
Occupied      == InLife({"pending", "ready", "terminating"})

Served(t) ==
    CASE stage[t] = "evict"              -> (tracked \ {pod[t]}) \cup {old[t]}
      [] stage[t] \in {"add", "untrack"} -> tracked \ {pod[t]}
      [] stage[t] = "remove"             -> tracked \cup {pod[t]}
      [] OTHER                           -> tracked

\* What holds at every stage of task t if it runs alone.
Alone(t) ==
    /\ \A u \in AllTasks \ {t} : stage[u] = "idle"
    /\ pool = Entries(Served(t))
    /\ OneAddress(tracked) /\ OneAddress(Served(t))
    /\ stage[t] \in {"evict", "add", "untrack"} => pod[t] \in tracked
    /\ stage[t] = "remove" => pod[t] \notin tracked
    /\ stage[t] = "evict" => old[t] \notin tracked /\ Name[old[t]] = Name[pod[t]]

\* What else holds in a round of the reconciler: what it keeps and what it takes
\* in all come from one list.
Round ==
    /\ listed.ready \subseteq listed.live /\ OneAddress(listed.live)
    /\ stage["reconciler"] \in {"working", "evict", "add", "untrack"} =>
          stale \subseteq tracked /\ OneAddress((tracked \ stale) \cup missing)
    /\ stage["reconciler"] \in {"evict", "add"} => stale = {}
    /\ stage["reconciler"] = "untrack" => pod["reconciler"] \in stale

\* Two pods in the cluster never have one address.
LEMMA AddressesApart ==
    TypeOK /\ OneAddress(Occupied) /\ [Next]_vars => OneAddress(Occupied)'
<1> SUFFICES ASSUME TypeOK, OneAddress(Occupied), [Next]_vars PROVE OneAddress(Occupied)'
    OBVIOUS
<1>1. ASSUME NEW p \in Pods, ClusterChanges(p) PROVE OneAddress(Occupied)'
    <2>1. CASE PodCreated(p)
        <3>1. Occupied' \subseteq Occupied \cup {p}
            BY <2>1 DEF PodCreated, Changes, TypeOK, Occupied, InLife
        <3>2. \A q \in Occupied : Ip[p] # Ip[q]
            BY <2>1 DEF PodCreated, MayCoexist, Occupied
        <3>3. QED
            BY <3>1, <3>2 DEF OneAddress
    <2>2. CASE PodReady(p) \/ PodUnready(p) \/ PodTerminating(p) \/ PodGone(p)
        <3>1. Occupied' \subseteq Occupied
            BY <2>2 DEF PodReady, PodUnready, PodTerminating, PodGone, Changes, TypeOK, Occupied, InLife
        <3>2. QED
            BY <3>1 DEF OneAddress
    <2>3. QED
        BY <1>1, <2>1, <2>2 DEF ClusterChanges
<1>2. CASE UNCHANGED life
    BY <1>2 DEF OneAddress, Occupied, InLife
<1>3. ASSUME \/ ClusterSettles \/ WatchRestarts \/ Watcher \/ Reconciler \/ UNCHANGED vars
      PROVE  UNCHANGED life
    BY <1>3 DEF ClusterSettles, WatchRestarts, Watcher, Reconciler, HandlePodEvent, HandlePodDeletion,
                Remove, Evict, Add, ListPods, ComputeDiff, Untrack, Reconciled, RemoveStale,
                HandleMissing, vars, clusterVars
<1>4. QED
    BY <1>1, <1>2, <1>3 DEF Next

\* Among pods of different addresses, a worker is removed for one pod only.
LEMMA EntryLeaves ==
    ASSUME NEW S, OneAddress(S), NEW o \in S
    PROVE  Entries(S) \ {Entry(o)} = Entries(S \ {o})
BY DEF Entries, Entry, Url, OneAddress

LEMMA EntryJoins ==
    ASSUME NEW S, NEW p \in S
    PROVE  Entries(S \ {p}) \cup {Entry(p)} = Entries(S)
BY DEF Entries

LEMMA TrackServes ==
    ASSUME TypeOK, NEW t \in AllTasks, Alone(t), NEW p \in Pods, Track(t, p), UNCHANGED pool,
           stage[t] \in {"idle", "working"}, OneAddress(tracked')
    PROVE  Alone(t)'
<1>1. Served(t) = tracked /\ pool' = Entries(tracked) /\ OneAddress(tracked)
    BY DEF Alone, Served
<1>2. \A u \in AllTasks \ {t} : stage'[u] = "idle"
    BY DEF Alone, Track, GoesTo, TypeOK
<1>3. CASE p \in tracked /\ GoesTo(t, Rest(t), NoPod, NoPod) /\ UNCHANGED tracked
    <2>1. stage'[t] \in {"idle", "working"}
        BY <1>3 DEF GoesTo, Rest, TypeOK
    <2>2. Served(t)' = tracked
        BY <1>3, <2>1 DEF Served
    <2>3. QED
        BY <1>1, <1>2, <1>3, <2>1, <2>2 DEF Alone
<1>4. CASE p \notin tracked /\ GoesTo(t, "add", p, NoPod) /\ tracked' = tracked \cup {p}
    <2>1. stage'[t] = "add" /\ pod'[t] = p
        BY <1>4 DEF GoesTo, TypeOK
    <2>2. Served(t)' = tracked
        BY <1>4, <2>1 DEF Served
    <2>3. QED
        BY <1>1, <1>2, <1>4, <2>1, <2>2 DEF Alone
<1>5. ASSUME p \notin tracked, NEW o \in OldUids(p), GoesTo(t, "evict", p, o),
             tracked' = (tracked \ {o}) \cup {p}
      PROVE  Alone(t)'
    <2>1. stage'[t] = "evict" /\ pod'[t] = p /\ old'[t] = o
        BY <1>5 DEF GoesTo, TypeOK
    <2>2. o \in tracked /\ o # p /\ Name[o] = Name[p]
        BY DEF OldUids
    <2>3. Served(t)' = tracked
        BY <1>5, <2>1, <2>2 DEF Served
    <2>4. QED
        BY <1>1, <1>2, <1>5, <2>1, <2>2, <2>3 DEF Alone
<1>6. QED
    BY <1>3, <1>4, <1>5 DEF Track

LEMMA EvictServes ==
    ASSUME OneRolePerName, TypeOK, NEW t \in AllTasks, Alone(t), Evict(t)
    PROVE  Alone(t)'
<1> DEFINE p == pod[t]
           o == old[t]
<1>1. p \in tracked /\ o \in Pods \ tracked /\ p \in Pods /\ Name[o] = Name[p]
    BY DEF Evict, Alone, TypeOK
<1>2. Served(t) = (tracked \ {p}) \cup {o} /\ OneAddress(Served(t)) /\ pool = Entries(Served(t))
    BY DEF Evict, Alone, Served
<1>3. <<Role[p], Url(o)>> = Entry(o)
    BY <1>1 DEF OneRolePerName, Entry
<1>4. pool' = Entries(Served(t) \ {o})
    BY <1>2, <1>3, EntryLeaves DEF Evict
<1>5. Served(t) \ {o} = tracked \ {p}
    BY <1>1, <1>2
<1>6. /\ tracked' = tracked /\ stage'[t] = "add" /\ pod'[t] = p
      /\ \A u \in AllTasks \ {t} : stage'[u] = "idle"
    BY DEF Evict, GoesTo, TypeOK, Alone
<1>7. Served(t)' = tracked \ {p}
    BY <1>6 DEF Served
<1>8. OneAddress(tracked) /\ OneAddress(tracked \ {p})
    BY DEF Alone, OneAddress
<1>9. QED
    BY <1>1, <1>4, <1>5, <1>6, <1>7, <1>8 DEF Alone

LEMMA AddServes ==
    ASSUME TypeOK, NEW t \in AllTasks, Alone(t), Add(t)
    PROVE  Alone(t)'
<1>1. pod[t] \in tracked /\ pool = Entries(tracked \ {pod[t]}) /\ OneAddress(tracked)
    BY DEF Add, Alone, Served
<1>2. pool' = Entries(tracked)
    BY <1>1, EntryJoins DEF Add
<1>3. /\ tracked' = tracked /\ stage'[t] \in {"idle", "working"}
      /\ \A u \in AllTasks \ {t} : stage'[u] = "idle"
    BY DEF Add, GoesTo, Rest, TypeOK, Alone
<1>4. Served(t)' = tracked
    BY <1>3 DEF Served
<1>5. QED
    BY <1>1, <1>2, <1>3, <1>4 DEF Alone

\* The watcher: a tracker with one uid of each name has one pod at each address.
LEMMA WatcherServes ==
    ASSUME OneRolePerName, OneNamePerAddress, TypeOK, UniqueName', TypeOK',
           Watcher, Alone("watcher")
    PROVE  Alone("watcher")'
<1> DEFINE t == "watcher"
<1>1. t \in AllTasks /\ OneAddress(tracked')
    BY DEF AllTasks, OneAddress, OneNamePerAddress, UniqueName, TypeOK
<1>2. CASE HandlePodEvent
    <2>1. Head(events)[1] \in Pods
        <3>1. events \in Seq(Events) /\ events # << >>
            BY <1>2 DEF TypeOK, HandlePodEvent, NextEvent
        <3>2. Head(events) \in Events
            BY <3>1
        <3>3. QED
            BY <3>2 DEF Events
    <2>2. QED
        BY <1>1, <1>2, <2>1, TrackServes DEF HandlePodEvent, NextEvent
<1>3. CASE HandlePodDeletion
    <2> DEFINE p == Head(events)[1]
    <2>1. stage[t] = "idle" /\ pool' = pool /\ tracked' = tracked \ {p}
        BY <1>3 DEF HandlePodDeletion, NextEvent
    <2>2. pool' = Entries(tracked) /\ OneAddress(tracked)
        BY <2>1 DEF Alone, Served
    <2>3. \A u \in AllTasks \ {t} : stage'[u] = "idle"
        BY <1>3 DEF HandlePodDeletion, GoesTo, TypeOK, Alone
    <2>4. CASE p \in tracked
        <3>1. stage'[t] = "remove" /\ pod'[t] = p
            BY <1>1, <1>3, <2>4 DEF HandlePodDeletion, GoesTo, TypeOK
        <3>2. Served(t)' = tracked
            BY <2>1, <2>4, <3>1 DEF Served
        <3>3. QED
            BY <1>1, <2>1, <2>2, <2>3, <3>1, <3>2 DEF Alone
    <2>5. CASE p \notin tracked
        <3>1. stage'[t] = "idle" /\ tracked' = tracked
            BY <1>1, <1>3, <2>1, <2>5 DEF HandlePodDeletion, GoesTo, TypeOK
        <3>2. Served(t)' = tracked
            BY <3>1 DEF Served
        <3>3. QED
            BY <2>2, <2>3, <3>1, <3>2 DEF Alone
    <2>6. QED
        BY <2>4, <2>5
<1>4. CASE Remove
    <2> DEFINE p == pod[t]
    <2>1. p \notin tracked /\ Served(t) = tracked \cup {p} /\ OneAddress(Served(t))
        BY <1>4 DEF Remove, Alone, Served
    <2>2. pool' = Entries(Served(t) \ {p})
        BY <1>4, <2>1, EntryLeaves DEF Remove, Alone
    <2>3. Served(t) \ {p} = tracked
        BY <2>1
    <2>4. /\ tracked' = tracked /\ stage'[t] = "idle"
          /\ \A u \in AllTasks \ {t} : stage'[u] = "idle"
        BY <1>1, <1>4 DEF Remove, GoesTo, TypeOK, Alone
    <2>5. Served(t)' = tracked
        BY <2>4 DEF Served
    <2>6. QED
        BY <1>1, <2>2, <2>3, <2>4, <2>5 DEF Alone
<1>5. QED
    BY <1>1, <1>2, <1>3, <1>4, EvictServes, AddServes DEF Watcher

\* The reconciler: what it tracks comes from lists of the cluster, whatever else
\* has happened there since.
LEMMA ReconcilerServes ==
    ASSUME OneRolePerName, TypeOK, OneAddress(Occupied), Reconciler, Alone("reconciler"), Round
    PROVE  Alone("reconciler")' /\ Round'
<1> DEFINE t == "reconciler"
<1>1. t \in AllTasks
    BY DEF AllTasks
<1>2. CASE ListPods
    <2>1. /\ stage[t] = "idle" /\ stage'[t] = "listed" /\ UNCHANGED <<tracked, pool>>
          /\ \A u \in AllTasks \ {t} : stage'[u] = "idle"
        BY <1>1, <1>2 DEF ListPods, GoesTo, TypeOK, Alone
    <2>2. Served(t)' = tracked /\ Served(t) = tracked
        BY <2>1 DEF Served
    <2>3. listed'.ready \subseteq listed'.live /\ listed'.live \subseteq Occupied
        BY <1>2 DEF ListPods, Live, Ready, Occupied, InLife
    <2>4. OneAddress(listed'.live)
        BY <2>3 DEF OneAddress
    <2>5. QED
        BY <2>1, <2>2, <2>3, <2>4 DEF Alone, Round
<1>3. CASE ComputeDiff
    <2>1. /\ stage[t] = "listed" /\ stage'[t] = "working" /\ UNCHANGED <<tracked, pool>>
          /\ \A u \in AllTasks \ {t} : stage'[u] = "idle"
        BY <1>1, <1>3 DEF ComputeDiff, GoesTo, TypeOK, Alone
    <2>2. Served(t)' = tracked /\ Served(t) = tracked
        BY <2>1 DEF Served
    <2>3. stale' \subseteq tracked /\ (tracked \ stale') \cup missing' \subseteq listed.live
        BY <1>3 DEF ComputeDiff, Round
    <2>4. OneAddress((tracked \ stale') \cup missing')
        BY <2>3 DEF OneAddress, Round
    <2>5. listed'.ready \subseteq listed'.live /\ OneAddress(listed'.live)
        BY <1>3 DEF ComputeDiff, EmptyList, OneAddress
    <2>6. QED
        BY <2>1, <2>2, <2>3, <2>4, <2>5 DEF Alone, Round
<1>4. ASSUME NEW p \in Pods, RemoveStale(p) PROVE Alone(t)' /\ Round'
    <2>1. /\ stage[t] = "working" /\ stage'[t] = "untrack" /\ pod'[t] = p
          /\ UNCHANGED <<tracked, listed, stale, missing>>
          /\ \A u \in AllTasks \ {t} : stage'[u] = "idle"
        BY <1>1, <1>4 DEF RemoveStale, GoesTo, TypeOK, Alone
    <2>2. p \in stale /\ p \in tracked /\ pool = Entries(tracked) /\ OneAddress(tracked)
        BY <1>4, <2>1 DEF RemoveStale, Round, Alone, Served
    <2>3. pool' = Entries(tracked \ {p})
        BY <1>4, <2>2, EntryLeaves DEF RemoveStale
    <2>4. Served(t)' = tracked \ {p} /\ OneAddress(tracked \ {p})
        BY <2>1, <2>2 DEF Served, OneAddress
    <2>5. QED
        BY <2>1, <2>2, <2>3, <2>4 DEF Alone, Round
<1>5. CASE Untrack
    <2> DEFINE p == pod[t]
    <2>1. /\ stage[t] = "untrack" /\ stage'[t] = "working" /\ UNCHANGED <<pool, listed, missing>>
          /\ tracked' = tracked \ {p} /\ stale' = stale \ {p}
          /\ \A u \in AllTasks \ {t} : stage'[u] = "idle"
        BY <1>1, <1>5 DEF Untrack, GoesTo, TypeOK, Alone
    <2>2. pool' = Entries(tracked') /\ OneAddress(tracked')
        BY <2>1 DEF Alone, Served
    <2>3. Served(t)' = tracked'
        BY <2>1 DEF Served
    <2>4. /\ stale' \subseteq tracked'
          /\ (tracked' \ stale') \cup missing' \subseteq (tracked \ stale) \cup missing
        BY <2>1 DEF Round
    <2>5. OneAddress((tracked' \ stale') \cup missing')
        BY <2>1, <2>4 DEF Round, OneAddress
    <2>6. QED
        BY <2>1, <2>2, <2>3, <2>4, <2>5 DEF Alone, Round
<1>6. ASSUME NEW p \in Pods, HandleMissing(p) PROVE Alone(t)' /\ Round'
    <2>1. /\ stage[t] = "working" /\ stale = {} /\ p \in missing
          /\ missing' = missing \ {p} /\ UNCHANGED <<pool, listed, stale>> /\ Track(t, p)
        BY <1>6 DEF HandleMissing
    <2>2. tracked' \subseteq tracked \cup missing
        BY <2>1 DEF Track
    <2>3. OneAddress(tracked \cup missing)
        BY <2>1 DEF Round
    <2>4. OneAddress(tracked') /\ OneAddress((tracked' \ stale') \cup missing')
        BY <2>1, <2>2, <2>3 DEF OneAddress
    <2>5. stage'[t] \in {"working", "add", "evict"}
        BY <1>1, <2>1 DEF Track, GoesTo, Rest, TypeOK
    <2>6. QED
        BY <1>1, <2>1, <2>4, <2>5, TrackServes DEF Round
<1>7. CASE Reconciled
    <2>1. /\ stage[t] = "working" /\ stage'[t] = "idle" /\ UNCHANGED <<tracked, pool, listed>>
          /\ \A u \in AllTasks \ {t} : stage'[u] = "idle"
        BY <1>1, <1>7 DEF Reconciled, GoesTo, TypeOK, Alone
    <2>2. Served(t)' = tracked /\ Served(t) = tracked
        BY <2>1 DEF Served
    <2>3. QED
        BY <2>1, <2>2 DEF Alone, Round
<1>8. CASE Evict(t) \/ Add(t)
    <2>1. /\ stage[t] \in {"evict", "add"} /\ stage'[t] \in {"add", "working"}
          /\ UNCHANGED <<tracked, listed, stale, missing>>
        BY <1>1, <1>8 DEF Evict, Add, GoesTo, Rest, TypeOK
    <2>2. Round'
        BY <2>1 DEF Round
    <2>3. QED
        BY <1>1, <1>8, <2>2, EvictServes, AddServes
<1>9. QED
    BY <1>2, <1>3, <1>4, <1>5, <1>6, <1>7, <1>8 DEF Reconciler

SoleWatcher    == tasks = {"watcher"} => Alone("watcher")
SoleReconciler == tasks = {"reconciler"} => Alone("reconciler") /\ Round

\* The cluster and the watch stream touch nothing a task has under way.
LEMMA OthersServe ==
    ASSUME UNCHANGED <<tracked, pool, taskVars>>
    PROVE  /\ \A t \in AllTasks : Alone(t) => Alone(t)'
           /\ Round => Round'
<1>1. \A t \in AllTasks : Served(t)' = Served(t)
    BY DEF Served, taskVars
<1>2. QED
    BY <1>1 DEF Alone, Round, taskVars

LEMMA NobodyServes ==
    ASSUME \/ \E p \in Pods : ClusterChanges(p)
           \/ ClusterSettles \/ WatchRestarts \/ UNCHANGED vars
    PROVE  UNCHANGED <<tasks, tracked, pool, taskVars>>
BY DEF ClusterChanges, ClusterSettles, WatchRestarts, vars, clusterVars

LEMMA TasksFixed == [Next]_vars => UNCHANGED tasks
<1>1. Watcher \/ Reconciler => UNCHANGED tasks
    BY DEF Watcher, Reconciler, HandlePodEvent, HandlePodDeletion, Remove, Evict, Add, ListPods,
           ComputeDiff, Untrack, Reconciled, RemoveStale, HandleMissing, clusterVars
<1>2. QED
    BY <1>1, NobodyServes DEF Next

LEMMA SoleReconcilerStep ==
    ASSUME OneRolePerName
    PROVE  TypeOK /\ OneAddress(Occupied) /\ SoleReconciler /\ [Next]_vars => SoleReconciler'
<1> SUFFICES ASSUME TypeOK, OneAddress(Occupied), SoleReconciler, [Next]_vars, tasks' = {"reconciler"}
             PROVE  Alone("reconciler")' /\ Round'
    BY DEF SoleReconciler
<1>1. tasks = {"reconciler"} /\ Alone("reconciler") /\ Round /\ "reconciler" \in AllTasks
    BY TasksFixed DEF SoleReconciler, AllTasks
<1>2. ~Watcher
    BY <1>1 DEF Watcher
<1>3. CASE Reconciler
    BY <1>1, <1>3, ReconcilerServes
<1>4. CASE UNCHANGED <<tasks, tracked, pool, taskVars>>
    BY <1>1, <1>4, OthersServe
<1>5. QED
    BY <1>2, <1>3, <1>4, NobodyServes DEF Next

LEMMA SoleWatcherStep ==
    ASSUME OneRolePerName, OneNamePerAddress
    PROVE  TypeOK /\ UniqueName /\ SoleWatcher /\ [Next]_vars => SoleWatcher'
<1> SUFFICES ASSUME TypeOK, UniqueName, SoleWatcher, [Next]_vars, tasks' = {"watcher"}
             PROVE  Alone("watcher")'
    BY DEF SoleWatcher
<1>1. tasks = {"watcher"} /\ Alone("watcher") /\ "watcher" \in AllTasks
    BY TasksFixed DEF SoleWatcher, AllTasks
<1>2. ~Reconciler
    BY <1>1 DEF Reconciler
<1>3. CASE Watcher
    BY <1>1, <1>3, WatcherServes, TypedStep, UniqueNameStep
<1>4. CASE UNCHANGED <<tasks, tracked, pool, taskVars>>
    BY <1>1, <1>4, OthersServe
<1>5. QED
    BY <1>2, <1>3, <1>4, NobodyServes DEF Next

LEMMA QuietMatches ==
    ASSUME NEW t \in AllTasks, Alone(t), stage[t] = "idle"
    PROVE  pool = Entries(tracked)
BY DEF Alone, Served

LEMMA Begins == Init => TypeOK /\ UniqueName /\ OneAddress(Occupied) /\ SoleWatcher /\ SoleReconciler
<1> SUFFICES ASSUME Init PROVE TypeOK /\ UniqueName /\ OneAddress(Occupied) /\ SoleWatcher /\ SoleReconciler
    OBVIOUS
<1>1. TypeOK /\ UniqueName
    BY InitTyped DEF Init, UniqueName
<1>2. OneAddress(Occupied)
    BY DEF Init, Occupied, InLife, OneAddress
<1>3. \A t \in AllTasks : Served(t) = {}
    BY DEF Init, Served
<1>4. \A t \in AllTasks : Alone(t)
    BY <1>3 DEF Init, Alone, Entries, OneAddress
<1>5. Round
    BY DEF Init, Round, EmptyList, OneAddress, AllTasks
<1>6. QED
    BY <1>1, <1>2, <1>4, <1>5 DEF SoleWatcher, SoleReconciler, AllTasks

\* A reconciler that runs without a watcher leaves, after every round, exactly the
\* workers of the pods it tracks in the pools: however the cluster changes while
\* its list ages, and whichever addresses pods take over from one another.
THEOREM ReconcilerMatchesPools ==
    ASSUME OneRolePerName
    PROVE  Spec => [](tasks = {"reconciler"} => PoolMatchesTracker)
<1>1. SoleReconciler => (tasks = {"reconciler"} => PoolMatchesTracker)
    BY QuietMatches DEF SoleReconciler, PoolMatchesTracker, AllTasks
<1>2. QED
    BY <1>1, Begins, TypedStep, AddressesApart, SoleReconcilerStep, PTL DEF Spec

\* So does either task on its own, where no address passes from one name to
\* another: a watcher that has missed a deletion would remove the new owner's
\* worker with the old one's.
THEOREM PoolsMatchTracker ==
    ASSUME OneRolePerName, OneNamePerAddress
    PROVE  Spec => []PoolMatchesTracker
<1>1. TypeOK /\ SoleWatcher /\ SoleReconciler => PoolMatchesTracker
    <2> SUFFICES ASSUME TypeOK, SoleWatcher, SoleReconciler, Cardinality(tasks) = 1,
                        \A t \in AllTasks : stage[t] = "idle"
                 PROVE  pool = Entries(tracked)
        BY DEF PoolMatchesTracker
    <2>1. tasks \subseteq AllTasks /\ IsFiniteSet(tasks)
        <3>1. AllTasks = {"watcher"} \cup {"reconciler"}
            BY DEF AllTasks
        <3>2. IsFiniteSet({"watcher"}) /\ IsFiniteSet({"reconciler"})
            BY FS_Singleton
        <3>3. IsFiniteSet(AllTasks)
            BY <3>1, <3>2, FS_Union
        <3>4. tasks \subseteq AllTasks
            BY DeploymentsAssumption DEF TypeOK
        <3>5. QED
            BY <3>3, <3>4, FS_Subset
    <2>2. PICK t : tasks = {t}
        BY <2>1, FS_Singleton
    <2>3. t \in AllTasks /\ stage[t] = "idle"
        BY <2>1, <2>2
    <2>4. Alone(t)
        BY <2>2, <2>3 DEF AllTasks, SoleWatcher, SoleReconciler
    <2>5. QED
        BY <2>3, <2>4, QuietMatches
<1>2. QED
    BY <1>1, Begins, TypedStep, UniqueNameStep, AddressesApart, SoleReconcilerStep, SoleWatcherStep,
       PTL DEF Spec

=============================================================================
