--------------------------- MODULE GatewayProofs ---------------------------
(***************************************************************************)
(* Theorems about Gateway, for every number of workers, every number of    *)
(* connections and every policy; last, that it implements RequestLifecycle. *)
(***************************************************************************)
EXTENDS Gateway, PoliciesProofs, FiniteSetTheorems

-----------------------------------------------------------------------------
(* Types.                                                                  *)

\* A context exists, so NoContext is one.
LEMMA NoContextType == NoContext \in Contexts
<1>1. PICK s \in Sessions, p \in Prefixes : TRUE
  BY ContextAssumption
<1>2. [session |-> s, prefix |-> p] \in Contexts
  BY <1>1 DEF Contexts
<1> QED
  BY <1>2 DEF NoContext

\* The atomic counters stay below 2^w, also when they wrap.
LEMMA CounterRange ==
  ASSUME NEW a \in 0 .. Usize-1
  PROVE  (a + 1) % Usize \in 0 .. Usize-1 /\ (a - 1) % Usize \in 0 .. Usize-1
<1>1. Usize \in Nat \ {0}
  BY UsizeAssumption, RequestsAssumption, FS_CardinalityType
<1> QED
  BY <1>1

Typed == TypeOK /\ ProbeInPool

LEMMA TypedInit == Init => Typed
<1> SUFFICES ASSUME Init PROVE Typed
  OBVIOUS
<1>1. Usize \in Nat \ {0}
  BY UsizeAssumption, RequestsAssumption, FS_CardinalityType
<1> QED
  BY <1>1, NAssumption, NoContextType DEF Init, Typed, TypeOK, ProbeInPool, NoWorker, Workers, Stages

LEMMA TypedHandler ==
  ASSUME Typed, NEW r \in Requests, Client(r) \/ Handler(r)
  PROVE  Typed'
<1> USE DEF Typed, TypeOK, ProbeInPool, poolVars, policyVars, handlerVars
<1>1. /\ Usize \in Nat \ {0} /\ N \in Nat \ {0}
      /\ NoWorker \in 0 .. N /\ Workers \subseteq 0 .. N
      /\ {"idle", "arrived", "listed", "chosen", "sending", "recorded", "streaming"} \subseteq Stages
  BY UsizeAssumption, RequestsAssumption, NAssumption, FS_CardinalityType DEF NoWorker, Workers, Stages
<1>2. ASSUME NEW a \in 0 .. Usize-1
      PROVE  (a + 1) % Usize \in 0 .. Usize-1 /\ (a - 1) % Usize \in 0 .. Usize-1
  BY CounterRange
<1>3. ASSUME NEW s \in Stages, Ends(r, s)
      PROVE  /\ pc' \in [Requests -> Stages] /\ ctx' \in [Requests -> Contexts]
             /\ listed' \in [Requests -> SUBSET Workers] /\ idx' \in [Requests -> 0 .. N]
  BY <1>1, <1>3, NoContextType DEF Ends, Moves
<1>4. ASSUME NEW w \in 0 .. N, OnRequestStart(w) \/ OnRequestEnd(w)
      PROVE  active' \in [Workers -> 0 .. Usize-1]
  <2>1. CASE ~Tracks
    BY <2>1, <1>4 DEF OnRequestStart, OnRequestEnd
  <2>2. CASE w \in Workers
    <3>1. active[w] \in 0 .. Usize-1
      BY <2>2
    <3> QED
      BY <2>2, <3>1, <1>2, <1>4 DEF OnRequestStart, OnRequestEnd
  <2>3. CASE w \notin Workers
    BY <2>3, <1>4 DEF OnRequestStart, OnRequestEnd
  <2> QED
    BY <2>1, <2>2, <2>3
<1>5. CASE Client(r)
  BY <1>1, <1>5 DEF Client, Arrive, Moves
<1>6. CASE ListHealthy(r)
  BY <1>1, <1>6 DEF ListHealthy, Moves, HealthySet
<1>7. CASE NoHealthyWorkers(r) \/ SelectPanics(r) \/ StreamEnds(r)
  BY <1>1, <1>3, <1>7 DEF NoHealthyWorkers, SelectPanics, StreamEnds
<1>8. CASE Select(r)
  <2>1. idx' \in [Requests -> 0 .. N]
    BY <1>1, <1>8 DEF Select
  <2>2. counter' \in 0 .. Usize-1
    BY <1>2, <1>8 DEF Select
  <2> QED
    BY <1>1, <1>8, <2>1, <2>2 DEF Select, Moves
<1>9. CASE Start(r)
  BY <1>1, <1>4, <1>9 DEF Start, Moves
<1>10. CASE SendFails(r) \/ ResponseBuildFails(r)
  BY <1>1, <1>3, <1>4, <1>10 DEF SendFails, ResponseBuildFails
<1>11. CASE RecordDecision(r)
  <2>1. idx[r] \in 0 .. N
    OBVIOUS
  <2>2. prefixMap' \in [Prefixes -> 0 .. N] /\ sessionMap' \in [Sessions -> 0 .. N]
    BY <2>1, <1>11 DEF RecordDecision, Record
  <2> QED
    BY <1>1, <1>11, <2>2 DEF RecordDecision, Moves
<1>12. CASE Respond(r)
  BY <1>1, <1>4, <1>12 DEF Respond, Moves
<1> QED
  BY <1>5, <1>6, <1>7, <1>8, <1>9, <1>10, <1>11, <1>12 DEF Handler, Router

LEMMA TypedPool ==
  ASSUME Typed, Checker \/ \E w \in Flaky : WorkerTurns(w)
  PROVE  Typed'
<1> USE NAssumption DEF Typed, TypeOK, ProbeInPool, policyVars, handlerVars, Workers, NoWorker
<1>1. CASE StartRound
  BY <1>1 DEF StartRound
<1>2. CASE ProbeAnswered
  BY <1>2 DEF ProbeAnswered
<1>3. CASE SetHealthy
  BY <1>3 DEF SetHealthy
<1>4. CASE \E w \in Flaky : WorkerTurns(w)
  BY <1>4, FlakyAssumption DEF WorkerTurns
<1> QED
  BY <1>1, <1>2, <1>3, <1>4 DEF Checker

LEMMA TypedStep == Typed /\ [Next]_vars => Typed'
<1> SUFFICES ASSUME Typed, [Next]_vars PROVE Typed'
  OBVIOUS
<1>1. CASE UNCHANGED vars
  BY <1>1 DEF vars, poolVars, policyVars, handlerVars, Typed, TypeOK, ProbeInPool
<1> QED
  BY <1>1, TypedHandler, TypedPool DEF Next

\* Every variable keeps its type; in particular the counters stay in their
\* machine range and every index is one of the pool, or none.
THEOREM TypeCorrect == Spec => []TypeOK
<1>1. Spec => []Typed
  BY TypedInit, TypedStep, PTL DEF Spec
<1>2. Typed => TypeOK
  BY DEF Typed
<1> QED
  BY <1>1, <1>2, PTL

-----------------------------------------------------------------------------
(* Accounting: the counters and the guards.                                *)

GuardStages == {"sending", "recorded"}

LEMMA InFlightFinite ==
  ASSUME NEW w
  PROVE  /\ IsFiniteSet(InFlight(w))
         /\ Cardinality(InFlight(w)) \in 0 .. Usize-1
<1>1. InFlight(w) \in SUBSET Requests
  BY DEF InFlight
<1>2. /\ Cardinality(Requests) \in Nat
      /\ IsFiniteSet(InFlight(w))
      /\ Cardinality(InFlight(w)) <= Cardinality(Requests)
      /\ Cardinality(InFlight(w)) \in Nat
  BY <1>1, RequestsAssumption, FS_Subset, FS_CardinalityType
<1> QED
  BY <1>2, UsizeAssumption

\* The same bound after a step.
LEMMA InFlightFiniteNext ==
  ASSUME NEW w
  PROVE  /\ IsFiniteSet(InFlight(w)')
         /\ Cardinality(InFlight(w)') \in 0 .. Usize-1
<1>1. InFlight(w)' \in SUBSET Requests
  BY DEF InFlight
<1>2. /\ Cardinality(Requests) \in Nat
      /\ IsFiniteSet(InFlight(w)')
      /\ Cardinality(InFlight(w)') <= Cardinality(Requests)
      /\ Cardinality(InFlight(w)') \in Nat
  BY <1>1, RequestsAssumption, FS_Subset, FS_CardinalityType
<1> QED
  BY <1>2, UsizeAssumption

\* A step of slot r in which no guard is created or dropped.
LEMMA NoGuardMoves ==
  ASSUME TypeOK, CountersExact, active' = active,
         \A s \in Requests :
            \/ pc'[s] = pc[s] /\ idx'[s] = idx[s]
            \/ pc[s] \notin GuardStages /\ pc'[s] \notin GuardStages
            \/ pc[s] \in GuardStages /\ pc'[s] \in GuardStages /\ idx'[s] = idx[s]
  PROVE  CountersExact'
<1>1. ASSUME NEW w \in Workers PROVE InFlight(w)' = InFlight(w)
  BY DEF InFlight, GuardStages
<1> QED
  BY <1>1 DEF CountersExact, Tracks

\* The guard of slot r comes to life: exactly the chosen worker's counter grows,
\* and it cannot wrap because there are fewer slots than values of a usize.
LEMMA GuardCreated ==
  ASSUME TypeOK, CountersExact, NEW r \in Requests,
         pc[r] \notin GuardStages, pc'[r] \in GuardStages, idx'[r] = idx[r],
         idx[r] \in Workers, OnRequestStart(idx[r]),
         \A s \in Requests \ {r} : pc'[s] = pc[s] /\ idx'[s] = idx[s]
  PROVE  CountersExact'
<1>1. CASE ~Tracks
  BY <1>1 DEF CountersExact, OnRequestStart, Tracks
<1>2. CASE Tracks
  <2> SUFFICES ASSUME NEW w \in Workers
               PROVE  active'[w] = Cardinality(InFlight(w)')
    BY <1>2 DEF CountersExact, Tracks
  <2>1. active[w] = Cardinality(InFlight(w)) /\ active[w] \in 0 .. Usize-1
    BY <1>2 DEF CountersExact, TypeOK
  <2>2. CASE w = idx[r]
    <3>1. InFlight(w)' = InFlight(w) \cup {r} /\ r \notin InFlight(w)
      BY <2>2 DEF InFlight, GuardStages
    <3>2. Cardinality(InFlight(w)') = active[w] + 1
      BY <2>1, <3>1, InFlightFinite, FS_AddElement
    <3>3. active[w] + 1 \in 0 .. Usize-1
      BY <3>2, InFlightFiniteNext
    <3>4. (active[w] + 1) % Usize = active[w] + 1
      BY <2>1, <3>3, UsizeAssumption
    <3>5. active'[w] = (active[w] + 1) % Usize
      BY <1>2, <2>2 DEF OnRequestStart, TypeOK
    <3> QED
      BY <3>2, <3>4, <3>5
  <2>3. CASE w # idx[r]
    <3>1. InFlight(w)' = InFlight(w)
      BY <2>3 DEF InFlight
    <3>2. active'[w] = active[w]
      BY <1>2, <2>3 DEF OnRequestStart, TypeOK
    <3> QED
      BY <2>1, <3>1, <3>2
  <2> QED
    BY <2>2, <2>3
<1> QED
  BY <1>1, <1>2

\* The guard of slot r is dropped: its worker's counter is at least one, so
\* fetch_sub does not wrap.
LEMMA GuardDropped ==
  ASSUME TypeOK, CountersExact, NEW r \in Requests,
         pc[r] \in GuardStages, pc'[r] \notin GuardStages,
         idx[r] \in Workers, OnRequestEnd(idx[r]),
         \A s \in Requests \ {r} : pc'[s] = pc[s] /\ idx'[s] = idx[s]
  PROVE  CountersExact'
<1>1. CASE ~Tracks
  BY <1>1 DEF CountersExact, OnRequestEnd, Tracks
<1>2. CASE Tracks
  <2> SUFFICES ASSUME NEW w \in Workers
               PROVE  active'[w] = Cardinality(InFlight(w)')
    BY <1>2 DEF CountersExact, Tracks
  <2>1. active[w] = Cardinality(InFlight(w)) /\ active[w] \in 0 .. Usize-1
    BY <1>2 DEF CountersExact, TypeOK
  <2>2. CASE w = idx[r]
    <3>1. InFlight(w)' = InFlight(w) \ {r} /\ r \in InFlight(w)
      BY <2>2 DEF InFlight, GuardStages
    <3>2. Cardinality(InFlight(w)') = active[w] - 1
      BY <2>1, <3>1, InFlightFinite, FS_RemoveElement
    <3>3. active[w] - 1 \in 0 .. Usize-1
      BY <3>2, InFlightFiniteNext
    <3>4. (active[w] - 1) % Usize = active[w] - 1
      BY <2>1, <3>3, UsizeAssumption
    <3>5. active'[w] = (active[w] - 1) % Usize
      BY <1>2, <2>2 DEF OnRequestEnd, TypeOK
    <3> QED
      BY <3>2, <3>4, <3>5
  <2>3. CASE w # idx[r]
    <3>1. InFlight(w)' = InFlight(w)
      BY <2>3 DEF InFlight, GuardStages
    <3>2. active'[w] = active[w]
      BY <1>2, <2>3 DEF OnRequestEnd, TypeOK
    <3> QED
      BY <2>1, <3>1, <3>2
  <2> QED
    BY <2>2, <2>3
<1> QED
  BY <1>1, <1>2

-----------------------------------------------------------------------------
(* The inductive invariant.                                                *)

LEMMA InvInit == Init => Inv
<1> SUFFICES ASSUME Init PROVE Inv
  OBVIOUS
<1>1. Typed
  BY TypedInit
<1>2. RoutedToListed
  BY DEF Init, RoutedToListed
<1>3. ASSUME NEW w \in Workers PROVE InFlight(w) = {}
  BY DEF Init, InFlight
<1>4. CountersExact
  BY <1>3, FS_EmptySet DEF Init, CountersExact
<1> QED
  BY <1>1, <1>2, <1>4 DEF Inv, Typed

LEMMA RoutedStep ==
  ASSUME TypeOK, RoutedToListed, [Next]_vars
  PROVE  RoutedToListed'
<1> USE DEF TypeOK, RoutedToListed, poolVars, policyVars, handlerVars
<1>1. ASSUME NEW r \in Requests, Client(r) \/ Handler(r)
      PROVE  RoutedToListed'
  <2>1. CASE Client(r)
    BY <2>1 DEF Client, Arrive, Moves
  <2>2. CASE ListHealthy(r)
    BY <2>2 DEF ListHealthy, Moves
  <2>3. CASE \E from \in Stages : Ends(r, from)
    BY <2>3 DEF Ends, Moves, Stages
  <2>4. CASE Select(r)
    BY <2>4 DEF Select, Moves
  <2>5. CASE Start(r) \/ RecordDecision(r) \/ Respond(r)
    BY <2>5 DEF Start, RecordDecision, Respond, Moves
  <2> QED
    BY <1>1, <2>1, <2>2, <2>3, <2>4, <2>5
    DEF Handler, Router, NoHealthyWorkers, SelectPanics, SendFails, ResponseBuildFails, StreamEnds, Stages
<1>2. CASE Checker \/ \E w \in Flaky : WorkerTurns(w)
  BY <1>2 DEF Checker, StartRound, ProbeAnswered, SetHealthy, WorkerTurns
<1>3. CASE UNCHANGED vars
  BY <1>3 DEF vars
<1> QED
  BY <1>1, <1>2, <1>3 DEF Next

LEMMA CountersStep ==
  ASSUME Inv, [Next]_vars
  PROVE  CountersExact'
<1> USE DEF Inv, TypeOK, GuardStages, poolVars, policyVars, handlerVars
<1>1. ASSUME NEW r \in Requests, Client(r) \/ Handler(r)
      PROVE  CountersExact'
  <2>1. ASSUME pc[r] \in {"chosen", "sending", "recorded"} PROVE idx[r] \in Workers
    BY <2>1 DEF RoutedToListed
  <2>2. CASE Client(r)
    BY <2>2, NoGuardMoves DEF Client, Arrive, Moves
  <2>3. CASE ListHealthy(r)
    BY <2>3, NoGuardMoves DEF ListHealthy, Moves
  <2>4. CASE NoHealthyWorkers(r) \/ SelectPanics(r) \/ StreamEnds(r)
    BY <2>4, NoGuardMoves DEF NoHealthyWorkers, SelectPanics, StreamEnds, Ends, Moves
  <2>5. CASE Select(r)
    BY <2>5, NoGuardMoves DEF Select, Moves
  <2>6. CASE Start(r)
    BY <2>1, <2>6, GuardCreated DEF Start, Moves
  <2>7. CASE SendFails(r)
    BY <2>1, <2>7, GuardDropped DEF SendFails, Ends, Moves
  <2>8. CASE RecordDecision(r)
    BY <2>8, NoGuardMoves DEF RecordDecision, Moves
  <2>9. CASE Respond(r)
    BY <2>1, <2>9, GuardDropped DEF Respond, Moves
  <2>10. CASE ResponseBuildFails(r)
    BY <2>1, <2>10, GuardDropped DEF ResponseBuildFails, Ends, Moves
  <2> QED
    BY <1>1, <2>2, <2>3, <2>4, <2>5, <2>6, <2>7, <2>8, <2>9, <2>10 DEF Handler, Router
<1>2. CASE Checker \/ \E w \in Flaky : WorkerTurns(w)
  BY <1>2, NoGuardMoves DEF Checker, StartRound, ProbeAnswered, SetHealthy, WorkerTurns
<1>3. CASE UNCHANGED vars
  BY <1>3, NoGuardMoves DEF vars
<1> QED
  BY <1>1, <1>2, <1>3 DEF Next

LEMMA InvStep == Inv /\ [Next]_vars => Inv'
  BY TypedStep, RoutedStep, CountersStep DEF Inv, Typed

LEMMA Invariance == Spec => []Inv
  BY InvInit, InvStep, PTL DEF Spec

\* For every policy, pool and number of connections, each active-request counter
\* equals the number of guards alive for its worker: nothing leaks or wraps.
THEOREM Accounting == Spec => []CountersExact
<1>1. Inv => CountersExact
  BY DEF Inv
<1> QED
  BY <1>1, Invariance, PTL

-----------------------------------------------------------------------------
(* What Gateway asks of the policies.                                      *)

\* A handler only asks the policy about a list with a worker in it.
ListedNonempty == \A r \in Requests : pc[r] = "listed" => listed[r] # {}

LEMMA ListedInvariance == Spec => []ListedNonempty
<1>1. Init => ListedNonempty
  BY DEF Init, ListedNonempty
<1>2. ASSUME TypeOK, ListedNonempty, [Next]_vars
      PROVE  ListedNonempty'
  <2> USE <1>2 DEF TypeOK, ListedNonempty, poolVars, policyVars, handlerVars
  <2>1. ASSUME NEW r \in Requests, Client(r) \/ Handler(r)
        PROVE  ListedNonempty'
    <3>1. /\ pc'[r] = "listed" => listed'[r] # {}
          /\ \A s \in Requests \ {r} : pc'[s] = pc[s] /\ listed'[s] = listed[s]
      <4>1. CASE Client(r)
        BY <4>1 DEF Client, Arrive, Moves
      <4>2. CASE ListHealthy(r)
        BY <4>2 DEF ListHealthy, Moves
      <4>3. CASE Select(r) \/ Start(r) \/ RecordDecision(r) \/ Respond(r)
        BY <4>3 DEF Select, Start, RecordDecision, Respond, Moves
      <4>4. CASE NoHealthyWorkers(r) \/ SelectPanics(r) \/ StreamEnds(r)
        BY <4>4 DEF NoHealthyWorkers, SelectPanics, StreamEnds, Ends, Moves
      <4>5. CASE SendFails(r) \/ ResponseBuildFails(r)
        BY <4>5 DEF SendFails, ResponseBuildFails, Ends, Moves
      <4> QED
        BY <2>1, <4>1, <4>2, <4>3, <4>4, <4>5 DEF Handler, Router
    <3> QED
      BY <3>1
  <2>2. CASE Checker \/ \E w \in Flaky : WorkerTurns(w)
    BY <2>2 DEF Checker, StartRound, ProbeAnswered, SetHealthy, WorkerTurns
  <2>3. CASE UNCHANGED vars
    BY <2>3 DEF vars
  <2> QED
    BY <1>2, <2>1, <2>2, <2>3 DEF Next
<1> QED
  BY <1>1, <1>2, TypeCorrect, PTL DEF Spec

\* The counters are a load vector for a list of any n workers of the pool.
LEMMA CountersAreLoads ==
  ASSUME TypeOK, NEW n \in 1 .. N
  PROVE  Loads(active, n)
<1>1. active \in [0 .. N-1 -> 0 .. Usize-1]
  BY DEF TypeOK, Workers
<1>2. N \in Nat /\ Usize-1 \in Nat /\ n <= N /\ n \in Nat \ {0}
  BY NAssumption, UsizeAssumption, RequestsAssumption, FS_CardinalityType
<1>3. \E u \in Nat : active \in [0 .. N-1 -> 0 .. u]
  BY <1>1, <1>2
<1>4. \E m, u \in Nat : n <= m /\ active \in [0 .. m-1 -> 0 .. u]
  BY <1>2, <1>3
<1> QED
  BY <1>2, <1>4 DEF Loads

\* The arguments of every policy call are a load vector and natural numbers.
LEMMA PolicyCallTyped ==
  ASSUME TypeOK, ListedNonempty, NEW r \in Requests, pc[r] = "listed"
  PROVE  /\ Loads(active, Cardinality(listed[r]))
         /\ Policy \in PolicyNames /\ Threshold \in Nat /\ counter \in Nat
         /\ ctx[r].session \in Nat /\ ctx[r].prefix \in Nat
<1>1. listed[r] \in SUBSET Workers /\ listed[r] # {}
  BY DEF TypeOK, ListedNonempty
<1>2. IsFiniteSet(Workers) /\ Cardinality(Workers) = N
  BY NAssumption, FS_Interval DEF Workers
<1>3. Cardinality(listed[r]) \in Nat \ {0} /\ Cardinality(listed[r]) <= N
  BY <1>1, <1>2, FS_Subset, FS_CardinalityType, FS_EmptySet
<1>4. Loads(active, Cardinality(listed[r]))
  BY <1>3, NAssumption, CountersAreLoads
<1>5. ctx[r] \in Contexts /\ counter \in Nat
  BY DEF TypeOK
<1> QED
  BY <1>4, <1>5, PolicyAssumption, ContextAssumption DEF Contexts

\* Under every policy but PrefixAffinity no call of the policy panics, whatever
\* the interleaving of handlers and health checks has made of its arguments.
THEOREM PolicyCallsSafe ==
  Policy # "prefix_affinity" => (Spec => []NoPanic)
<1> SUFFICES ASSUME Policy # "prefix_affinity" PROVE Spec => []NoPanic
  OBVIOUS
<1>1. ASSUME TypeOK, ListedNonempty PROVE NoPanic
  <2> SUFFICES ASSUME NEW r \in Requests, pc[r] = "listed"
               PROVE  /\ PicksFor(r) # {}
                      /\ PicksFor(r) \subseteq Positions(Cardinality(listed[r]))
    BY DEF NoPanic
  <2> QED
    BY <1>1, PolicyCallTyped, PicksNonempty, PicksInRange DEF PicksFor
<1> QED
  BY <1>1, TypeCorrect, ListedInvariance, PTL

\* When every worker is in the list, positions and places in the pool coincide.
LEMMA PositionInPool ==
  ASSUME NEW w \in Workers
  PROVE  Position(Workers, w) = w
<1>1. w \in Nat
  BY NAssumption DEF Workers
<1>2. {v \in Workers : v < w} = 0 .. w-1
  BY NAssumption DEF Workers
<1>3. Cardinality(0 .. w-1) = IF 0 > w-1 THEN 0 ELSE (w-1) - 0 + 1
  BY <1>1, FS_Interval
<1>4. Cardinality(0 .. w-1) = w
  BY <1>1, <1>3
<1> QED
  BY <1>2, <1>4 DEF Position

\* A handler gets from its list to a worker by its own selection alone.
LEMMA SelectedBySelect ==
  ASSUME TypeOK, [Next]_vars, NEW r \in Requests, Selected(r)
  PROVE  Select(r)
<1>1. ASSUME NEW s \in Requests, Client(s) \/ Handler(s)
      PROVE  Select(r)
  <2>1. s = r
    BY <1>1 DEF Selected, TypeOK, Client, Handler, Router, Arrive, ListHealthy, NoHealthyWorkers,
         Select, SelectPanics, Start, SendFails, RecordDecision, Respond, ResponseBuildFails,
         StreamEnds, Ends, Moves
  <2> QED
    BY <1>1, <2>1 DEF Selected, TypeOK, Client, Handler, Router, Arrive, ListHealthy, NoHealthyWorkers,
         SelectPanics, Start, SendFails, RecordDecision, Respond, ResponseBuildFails,
         StreamEnds, Ends, Moves
<1>2. ~UNCHANGED handlerVars
  BY DEF Selected, handlerVars
<1>3. CASE Checker \/ \E w \in Flaky : WorkerTurns(w)
  BY <1>2, <1>3 DEF Checker, StartRound, ProbeAnswered, SetHealthy, WorkerTurns
<1> QED
  BY <1>1, <1>2, <1>3 DEF Next, vars

\* LoadCacheAware with all workers healthy sends a request to the worker whose
\* cache holds its prefix, or else its session, under every load.
THEOREM CacheAffinity == Spec => AffinityWins
<1>1. ASSUME TypeOK, [Next]_vars, NEW r \in Requests, Selected(r), Policy = "load_cache_aware",
             listed[r] = Workers, CachedAt(r) # NoWorker
      PROVE  idx'[r] = CachedAt(r)
  <2>1. Select(r)
    BY <1>1, SelectedBySelect
  <2>2. PICK w \in Workers : Position(Workers, w) \in PicksFor(r) /\ idx'[r] = w
    BY <1>1, <2>1 DEF Select, TypeOK
  <2>3. Cardinality(Workers) = N /\ Positions(N) = Workers
    BY NAssumption, FS_Interval DEF Workers, Positions
  <2>4. w \in CacheAwarePicks(active, N, prefixMap[ctx[r].prefix], sessionMap[ctx[r].session])
    BY <1>1, <2>2, <2>3, PositionInPool DEF PicksFor, Picks
  <2>5. Loads(active, N)
    BY <1>1, NAssumption, CountersAreLoads
  <2>6. /\ prefixMap[ctx[r].prefix] \in 0 .. N /\ sessionMap[ctx[r].session] \in 0 .. N
        /\ CachedAt(r) \in Workers
    BY <1>1, NAssumption DEF TypeOK, Contexts, CachedAt, NoWorker, Workers
  <2>7. \/ CachedAt(r) = prefixMap[ctx[r].prefix]
        \/ CachedAt(r) = sessionMap[ctx[r].session] /\ prefixMap[ctx[r].prefix] \notin Workers
    BY NAssumption DEF CachedAt, NoWorker, Workers
  <2> QED
    BY <2>2, <2>3, <2>4, <2>5, <2>6, <2>7, AffinityDominates
<1>2. TypeOK /\ [Next]_vars => [\A r \in Requests :
          Selected(r) /\ Policy = "load_cache_aware" /\ listed[r] = Workers
            /\ CachedAt(r) # NoWorker
          => idx'[r] = CachedAt(r)]_vars
  BY <1>1
<1> QED
  BY <1>2, TypeCorrect, PTL DEF Spec, AffinityWins

\* How far least_loaded.rs:9 "selects the one with the fewest in-flight requests" holds of the
\* router (PicksFewest): with all workers healthy, a request goes to a least loaded worker
\* if any is lighter than worker 0.  Otherwise worker 0 is itself one, and may be passed over.
THEOREM FewestUnlessFirst ==
  Policy = "least_loaded" =>
    (Spec => [][\A r \in Requests :
                  Selected(r) /\ listed[r] = Workers /\ (\E w \in Workers : active[w] < active[0])
                    => \A w \in Workers : active[idx'[r]] <= active[w]]_vars)
<1> SUFFICES ASSUME Policy = "least_loaded"
             PROVE  Spec => [][\A r \in Requests :
                      Selected(r) /\ listed[r] = Workers /\ (\E w \in Workers : active[w] < active[0])
                        => \A w \in Workers : active[idx'[r]] <= active[w]]_vars
  OBVIOUS
<1>1. ASSUME TypeOK, [Next]_vars, NEW r \in Requests, Selected(r), listed[r] = Workers,
             \E w \in Workers : active[w] < active[0]
      PROVE  \A w \in Workers : active[idx'[r]] <= active[w]
  <2>1. Select(r)
    BY <1>1, SelectedBySelect
  <2>2. PICK w \in Workers : Position(Workers, w) \in PicksFor(r) /\ idx'[r] = w
    BY <1>1, <2>1 DEF Select, TypeOK
  <2>3. Cardinality(Workers) = N /\ Positions(N) = Workers
    BY NAssumption, FS_Interval DEF Workers, Positions
  <2>4. w \in LeastLoadedPicks(active, N)
    BY <1>1, <2>2, <2>3, PositionInPool DEF PicksFor, Picks
  <2>5. Loads(active, N)
    BY <1>1, NAssumption, CountersAreLoads
  <2> QED
    BY <1>1, <2>2, <2>3, <2>4, <2>5, FewestExactly
<1>2. TypeOK /\ [Next]_vars => [\A r \in Requests :
          Selected(r) /\ listed[r] = Workers /\ (\E w \in Workers : active[w] < active[0])
            => \A w \in Workers : active[idx'[r]] <= active[w]]_vars
  BY <1>1
<1> QED
  BY <1>2, TypeCorrect, PTL DEF Spec

-----------------------------------------------------------------------------
(* Gateway implements RequestLifecycle.  The accounting invariant makes    *)
(* the policy's counters the load of the abstract specification; then each *)
(* handler step is one abstract action or leaves all three abstract        *)
(* variables alone.                                                        *)

\* The policy's counters are the numbers of guards, with or without tracking.
LEMMA LoadCounts ==
  ASSUME TypeOK, CountersExact
  PROVE  LoadNow = [w \in Workers |-> Cardinality(InFlight(w))]
<1>1. CASE Tracks
  BY <1>1 DEF TypeOK, CountersExact, LoadNow
<1>2. CASE ~Tracks
  BY <1>2 DEF LoadNow
<1> QED
  BY <1>1, <1>2

\* The same after a step.
LEMMA LoadCountsNext ==
  ASSUME TypeOK', CountersExact'
  PROVE  LoadNow' = [w \in Workers |-> Cardinality(InFlight(w)')]
<1>1. CASE Tracks
  BY <1>1 DEF TypeOK, CountersExact, LoadNow, Tracks
<1>2. CASE ~Tracks
  BY <1>2 DEF LoadNow, Tracks
<1> QED
  BY <1>1, <1>2

\* The phase and the worker of a slot after a step that moves slot r alone.
LEMMA PhaseMoves ==
  ASSUME TypeOK, NEW r \in Requests, NEW from, NEW to, Moves(r, from, to),
         \A s \in Requests \ {r} : idx'[s] = idx[s]
  PROVE  /\ PhaseNow[r] = Phase(from)
         /\ PhaseNow' = [PhaseNow EXCEPT ![r] = Phase(to)]
         /\ WorkerNow' = [WorkerNow EXCEPT ![r] = IF Phase(to) = "charged" THEN idx'[r] ELSE NoWorker]
<1>1. pc[r] = from /\ pc'[r] = to /\ \A s \in Requests \ {r} : pc'[s] = pc[s]
  BY DEF TypeOK, Moves
<1> QED
  BY <1>1 DEF PhaseNow, WorkerNow

\* A step in which no guard is created or dropped leaves the load alone.
LEMMA LoadStays ==
  ASSUME TypeOK, CountersExact, TypeOK', CountersExact',
         \A s \in Requests :
            \/ pc'[s] = pc[s] /\ idx'[s] = idx[s]
            \/ pc[s] \notin GuardStages /\ pc'[s] \notin GuardStages
            \/ pc[s] \in GuardStages /\ pc'[s] \in GuardStages /\ idx'[s] = idx[s]
  PROVE  LoadNow' = LoadNow
<1>1. ASSUME NEW w \in Workers PROVE InFlight(w)' = InFlight(w)
  BY DEF InFlight, GuardStages
<1>2. /\ LoadNow = [w \in Workers |-> Cardinality(InFlight(w))]
      /\ LoadNow' = [w \in Workers |-> Cardinality(InFlight(w)')]
  BY LoadCounts, LoadCountsNext
<1> QED
  BY <1>1, <1>2

\* A new guard of slot r: one more at its worker.
LEMMA LoadGrows ==
  ASSUME TypeOK, CountersExact, TypeOK', CountersExact', NEW r \in Requests,
         pc[r] \notin GuardStages, pc'[r] \in GuardStages, idx'[r] = idx[r], idx[r] \in Workers,
         \A s \in Requests \ {r} : pc'[s] = pc[s] /\ idx'[s] = idx[s]
  PROVE  LoadNow' = [LoadNow EXCEPT ![idx[r]] = LoadNow[idx[r]] + 1]
<1>1. /\ LoadNow = [w \in Workers |-> Cardinality(InFlight(w))]
      /\ LoadNow' = [w \in Workers |-> Cardinality(InFlight(w)')]
  BY LoadCounts, LoadCountsNext
<1>2. ASSUME NEW w \in Workers, w = idx[r]
      PROVE  Cardinality(InFlight(w)') = Cardinality(InFlight(w)) + 1
  <2>1. InFlight(w)' = InFlight(w) \cup {r} /\ r \notin InFlight(w)
    BY <1>2 DEF InFlight, GuardStages
  <2> QED
    BY <2>1, InFlightFinite, FS_AddElement
<1>3. ASSUME NEW w \in Workers, w # idx[r] PROVE InFlight(w)' = InFlight(w)
  BY <1>3 DEF InFlight
<1> QED
  BY <1>1, <1>2, <1>3

\* The guard of slot r is gone: one less at its worker.
LEMMA LoadShrinks ==
  ASSUME TypeOK, CountersExact, TypeOK', CountersExact', NEW r \in Requests,
         pc[r] \in GuardStages, pc'[r] \notin GuardStages, idx[r] \in Workers,
         \A s \in Requests \ {r} : pc'[s] = pc[s] /\ idx'[s] = idx[s]
  PROVE  LoadNow' = [LoadNow EXCEPT ![idx[r]] = LoadNow[idx[r]] - 1]
<1>1. /\ LoadNow = [w \in Workers |-> Cardinality(InFlight(w))]
      /\ LoadNow' = [w \in Workers |-> Cardinality(InFlight(w)')]
  BY LoadCounts, LoadCountsNext
<1>2. ASSUME NEW w \in Workers, w = idx[r]
      PROVE  Cardinality(InFlight(w)') = Cardinality(InFlight(w)) - 1
  <2>1. InFlight(w)' = InFlight(w) \ {r} /\ r \in InFlight(w)
    BY <1>2 DEF InFlight, GuardStages
  <2> QED
    BY <2>1, InFlightFinite, FS_RemoveElement
<1>3. ASSUME NEW w \in Workers, w # idx[r] PROVE InFlight(w)' = InFlight(w)
  <2>1. \A s \in Requests \ {r} : s \in InFlight(w)' <=> s \in InFlight(w)
    BY DEF InFlight
  <2>2. r \notin InFlight(w) /\ r \notin InFlight(w)'
    BY <1>3 DEF InFlight, GuardStages
  <2>3. InFlight(w) \subseteq Requests /\ InFlight(w)' \subseteq Requests
    BY DEF InFlight
  <2> QED
    BY <2>1, <2>2, <2>3
<1> QED
  BY <1>1, <1>2, <1>3

-----------------------------------------------------------------------------

\* A move between two stages of one phase, idx of a charged slot unchanged, is
\* no step of the abstract specification.
LEMMA WithinPhase ==
  ASSUME Inv, Inv', NEW r \in Requests, NEW from, NEW to, Moves(r, from, to),
         \/ {from, to} \subseteq {"arrived", "listed", "chosen"}
         \/ {from, to} \subseteq GuardStages /\ idx'[r] = idx[r],
         \A s \in Requests \ {r} : idx'[s] = idx[s]
  PROVE  UNCHANGED <<PhaseNow, WorkerNow, LoadNow>>
<1>1. pc[r] = from /\ pc'[r] = to /\ \A s \in Requests \ {r} : pc'[s] = pc[s]
  BY DEF Inv, TypeOK, Moves
<1>2. LoadNow' = LoadNow
  BY <1>1, LoadStays DEF Inv, GuardStages
<1>3. Phase(pc'[r]) = Phase(pc[r]) /\ (Phase(to) = "charged" => idx'[r] = idx[r])
  BY <1>1 DEF Phase, GuardStages
<1> QED
  BY <1>1, <1>2, <1>3 DEF PhaseNow, WorkerNow

\* A move between two phases without a guard: Arrive, Refuse or Finish.
LEMMA BetweenPhases ==
  ASSUME Inv, Inv', NEW r \in Requests, NEW from, NEW to, Moves(r, from, to),
         {from, to} \subseteq {"idle", "arrived", "listed", "streaming"},
         \A s \in Requests \ {r} : idx'[s] = idx[s]
  PROVE  Lifecycle!Becomes(r, Phase(from), Phase(to)) /\ UNCHANGED <<WorkerNow, LoadNow>>
<1>1. pc[r] = from /\ pc'[r] = to /\ \A s \in Requests \ {r} : pc'[s] = pc[s]
  BY DEF Inv, TypeOK, Moves
<1>2. LoadNow' = LoadNow
  BY <1>1, LoadStays DEF Inv, GuardStages
<1>3. Phase(pc'[r]) # "charged" /\ Phase(pc[r]) # "charged"
  BY <1>1 DEF Phase
<1>4. WorkerNow' = WorkerNow
  BY <1>1, <1>3 DEF WorkerNow
<1>5. PhaseNow[r] = Phase(from) /\ PhaseNow' = [PhaseNow EXCEPT ![r] = Phase(to)]
  BY PhaseMoves DEF Inv
<1> QED
  BY <1>2, <1>4, <1>5 DEF Lifecycle!Becomes

\* Dropping the guard is Release, whether an answer follows or not.
LEMMA DropIsRelease ==
  ASSUME Inv, Inv', NEW r \in Requests, NEW from \in GuardStages, NEW to \in {"idle", "streaming"},
         Moves(r, from, to), \A s \in Requests \ {r} : idx'[s] = idx[s]
  PROVE  Lifecycle!Release(r)
<1>1. pc[r] = from /\ pc'[r] = to /\ \A s \in Requests \ {r} : pc'[s] = pc[s]
  BY DEF Inv, TypeOK, Moves
<1>2. idx[r] \in Workers /\ WorkerNow[r] = idx[r]
  BY <1>1 DEF Inv, TypeOK, RoutedToListed, GuardStages, WorkerNow, Phase
<1>3. LoadNow' = [LoadNow EXCEPT ![idx[r]] = LoadNow[idx[r]] - 1]
  BY <1>1, <1>2, LoadShrinks DEF Inv, GuardStages
<1>4. Phase(from) = "charged" /\ Phase(to) \in {"answering", "idle"}
  BY DEF Phase, GuardStages
<1>5. /\ PhaseNow[r] = "charged"
      /\ \/ PhaseNow' = [PhaseNow EXCEPT ![r] = "answering"]
         \/ PhaseNow' = [PhaseNow EXCEPT ![r] = "idle"]
      /\ WorkerNow' = [WorkerNow EXCEPT ![r] = NoWorker]
  BY <1>4, PhaseMoves DEF Inv
<1> QED
  BY <1>2, <1>3, <1>5 DEF Lifecycle!Release, Lifecycle!Becomes

\* on_request_start is Charge.
LEMMA StartIsCharge ==
  ASSUME Inv, Inv', NEW r \in Requests, Start(r)
  PROVE  Lifecycle!Charge(r)
<1>1. /\ Moves(r, "chosen", "sending") /\ idx' = idx
      /\ pc[r] = "chosen" /\ pc'[r] = "sending" /\ \A s \in Requests \ {r} : pc'[s] = pc[s]
  BY DEF Start, Inv, TypeOK, Moves
<1>2. idx[r] \in Workers
  BY <1>1 DEF Inv, TypeOK, RoutedToListed
<1>3. LoadNow' = [LoadNow EXCEPT ![idx[r]] = LoadNow[idx[r]] + 1]
  BY <1>1, <1>2, LoadGrows DEF Inv, GuardStages
<1>4. Phase("chosen") = "waiting" /\ Phase("sending") = "charged"
  BY DEF Phase
<1>5. /\ PhaseNow[r] = "waiting" /\ PhaseNow' = [PhaseNow EXCEPT ![r] = "charged"]
      /\ WorkerNow' = [WorkerNow EXCEPT ![r] = idx[r]]
  BY <1>1, <1>4, PhaseMoves DEF Inv
<1> QED
  BY <1>2, <1>3, <1>5 DEF Lifecycle!Charge, Lifecycle!Becomes

LEMMA LifecycleInit == Init => Lifecycle!Init
<1> SUFFICES ASSUME Init PROVE Lifecycle!Init
  OBVIOUS
<1>1. TypeOK /\ CountersExact
  BY InvInit DEF Inv
<1>2. ASSUME NEW w \in Workers PROVE Cardinality(InFlight(w)) = 0
  <2>1. InFlight(w) = {}
    BY DEF Init, InFlight
  <2> QED
    BY <2>1, FS_EmptySet
<1>3. LoadNow = [w \in Workers |-> 0]
  BY <1>1, <1>2, LoadCounts
<1>4. Phase("idle") = "idle"
  BY DEF Phase
<1>5. PhaseNow = [r \in Requests |-> "idle"] /\ WorkerNow = [r \in Requests |-> NoWorker]
  BY <1>4 DEF Init, PhaseNow, WorkerNow
<1> QED
  BY <1>3, <1>5 DEF Lifecycle!Init

LEMMA LifecycleStep == Inv /\ [Next]_vars => [Lifecycle!Next]_(Lifecycle!vars)
<1> SUFFICES ASSUME Inv, [Next]_vars
             PROVE  Lifecycle!Next \/ UNCHANGED <<PhaseNow, WorkerNow, LoadNow>>
  BY DEF Lifecycle!vars
<1>0. Inv'
  BY InvStep
<1>p. /\ Phase("idle") = "idle" /\ Phase("arrived") = "waiting" /\ Phase("listed") = "waiting"
      /\ Phase("streaming") = "answering"
  BY DEF Phase
<1>1. ASSUME NEW r \in Requests, Client(r) \/ Handler(r)
      PROVE  Lifecycle!Next \/ UNCHANGED <<PhaseNow, WorkerNow, LoadNow>>
  <2>1. CASE Client(r)
    <3>1. Moves(r, "idle", "arrived") /\ idx' = idx
      BY <2>1 DEF Client, Arrive
    <3>2. Lifecycle!Becomes(r, "idle", "waiting") /\ UNCHANGED <<WorkerNow, LoadNow>>
      BY <3>1, <1>0, <1>p, BetweenPhases
    <3> QED
      BY <3>2 DEF Lifecycle!Next, Lifecycle!Arrive
  <2>2. CASE ListHealthy(r) \/ Select(r)
    <3>1. /\ Moves(r, "arrived", "listed") \/ Moves(r, "listed", "chosen")
          /\ \A s \in Requests \ {r} : idx'[s] = idx[s]
      BY <2>2 DEF ListHealthy, Select, Inv, TypeOK
    <3> QED
      BY <3>1, <1>0, WithinPhase
  <2>3. CASE NoHealthyWorkers(r) \/ SelectPanics(r)
    <3>1. /\ Moves(r, "arrived", "idle") \/ Moves(r, "listed", "idle")
          /\ \A s \in Requests \ {r} : idx'[s] = idx[s]
      BY <2>3 DEF NoHealthyWorkers, SelectPanics, Ends, Inv, TypeOK
    <3>2. Lifecycle!Becomes(r, "waiting", "idle") /\ UNCHANGED <<WorkerNow, LoadNow>>
      BY <3>1, <1>0, <1>p, BetweenPhases
    <3> QED
      BY <3>2 DEF Lifecycle!Next, Lifecycle!Serve, Lifecycle!Refuse
  <2>4. CASE Start(r)
    BY <2>4, <1>0, StartIsCharge DEF Lifecycle!Next, Lifecycle!Serve
  <2>5. CASE RecordDecision(r)
    <3>1. Moves(r, "sending", "recorded") /\ idx' = idx
      BY <2>5 DEF RecordDecision
    <3> QED
      BY <3>1, <1>0, WithinPhase DEF GuardStages
  <2>6. CASE SendFails(r) \/ Respond(r) \/ ResponseBuildFails(r)
    <3>1. PICK from \in GuardStages, to \in {"idle", "streaming"} : Moves(r, from, to)
      BY <2>6 DEF SendFails, Respond, ResponseBuildFails, Ends, GuardStages
    <3>2. \A s \in Requests \ {r} : idx'[s] = idx[s]
      BY <2>6 DEF SendFails, Respond, ResponseBuildFails, Ends, Inv, TypeOK
    <3>3. Lifecycle!Release(r)
      BY <3>1, <3>2, <1>0, DropIsRelease
    <3> QED
      BY <3>3 DEF Lifecycle!Next, Lifecycle!Serve
  <2>7. CASE StreamEnds(r)
    <3>1. Moves(r, "streaming", "idle") /\ \A s \in Requests \ {r} : idx'[s] = idx[s]
      BY <2>7 DEF StreamEnds, Ends, Inv, TypeOK
    <3>2. Lifecycle!Becomes(r, "answering", "idle") /\ UNCHANGED <<WorkerNow, LoadNow>>
      BY <3>1, <1>0, <1>p, BetweenPhases
    <3> QED
      BY <3>2 DEF Lifecycle!Next, Lifecycle!Serve, Lifecycle!Finish
  <2> QED
    BY <1>1, <2>1, <2>2, <2>3, <2>4, <2>5, <2>6, <2>7 DEF Handler, Router
<1>2. CASE Checker \/ (\E w \in Flaky : WorkerTurns(w)) \/ UNCHANGED vars
  <2>1. UNCHANGED <<pc, idx, active>>
    BY <1>2 DEF Checker, StartRound, ProbeAnswered, SetHealthy, WorkerTurns, vars, poolVars,
                policyVars, handlerVars
  <2>2. LoadNow' = LoadNow
    BY <2>1, <1>0, LoadStays DEF Inv
  <2> QED
    BY <2>1, <2>2 DEF PhaseNow, WorkerNow
<1> QED
  BY <1>1, <1>2 DEF Next

\* Gateway implements the request lifecycle: its initial states are the
\* lifecycle's, and each of its steps is a lifecycle step or none.
THEOREM GatewayKeepsLifecycle == Spec => LifecycleKept
<1>1. Spec => Lifecycle!Init /\ [][Lifecycle!Next]_(Lifecycle!vars)
  BY LifecycleInit, LifecycleStep, Invariance, PTL DEF Spec
<1> QED
  BY <1>1 DEF LifecycleKept, Lifecycle!Spec

=============================================================================
