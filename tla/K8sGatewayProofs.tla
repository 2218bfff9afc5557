-------------------------- MODULE K8sGatewayProofs --------------------------
(***************************************************************************)
(* Accounting over a pool that changes under the requests, for every       *)
(* number of URLs, connections and places.  Nothing is needed of the pool  *)
(* itself: the counters belong to places, whoever holds them.              *)
(*                                                                         *)
(* That the pool is a set of URLs is a fact of its own, which rests on     *)
(* what retain leaves of it: an induction over the vector.                 *)
(***************************************************************************)
EXTENDS K8sGateway, FiniteSetTheorems, PoliciesProofs

\* What the argument needs of the types: a slot names a place exactly while it
\* holds a charge.
Typed ==
    /\ active \in [Places -> 0 .. Usize-1]
    /\ pc \in [Requests -> {"idle", "arrived", "reading", "charged"}]
    /\ idx \in [Requests -> Places \cup {NoPlace}]
    /\ DOMAIN listed = Requests /\ DOMAIN target = Requests
    /\ \A r \in Requests : pc[r] = "charged" <=> idx[r] \in Places

\* While a handler reads the pool, what it has listed is still there.
ReadsTrue == \A r \in Requests : pc[r] = "reading" => listed[r] \subseteq Listing

Inv == Typed /\ ReadsTrue /\ CountersExact

-----------------------------------------------------------------------------
(* Types.                                                                  *)

\* A usize has values, and no place is none.
LEMMA UsizeType == Usize \in Nat \ {0} /\ NoPlace \notin Places
<1>1. Usize \in Nat \ {0}
  BY UsizeAssumption, RequestsAssumption, FS_CardinalityType
<1>2. NoPlace \notin Places
  BY CapacityAssumption DEF NoPlace, Places
<1> QED
  BY <1>1, <1>2

\* A counter stays in its machine range, also when it wraps.
LEMMA CounterRange ==
  ASSUME NEW a \in 0 .. Usize-1
  PROVE  (a + 1) % Usize \in 0 .. Usize-1 /\ (a - 1) % Usize \in 0 .. Usize-1
BY UsizeType

\* Nothing is charged and nobody reads in the initial state.
LEMMA InvInit == Init => Inv
<1> SUFFICES ASSUME Init PROVE Inv
  OBVIOUS
<1>1. Typed /\ ReadsTrue
  BY UsizeType DEF Init, Typed, ReadsTrue
<1>2. ASSUME NEW i \in Places PROVE ChargedAt(i) = {}
  BY DEF Init, ChargedAt
<1>3. CountersExact
  BY <1>2, FS_EmptySet DEF Init, CountersExact
<1> QED
  BY <1>1, <1>3 DEF Inv

\* Types survive every step.
LEMMA TypedStep == Typed /\ [Next]_vars => Typed'
<1> SUFFICES ASSUME Typed, [Next]_vars PROVE Typed'
  OBVIOUS
<1> USE DEF Typed, poolVars
<1>1. ASSUME NEW r \in Requests, NEW from \in {"arrived", "reading", "charged"}, Ends(r, from),
             active' \in [Places -> 0 .. Usize-1]
      PROVE  Typed'
  BY <1>1, UsizeType DEF Ends, Moves
<1>2. ASSUME NEW r \in Requests, Arrive(r) \/ ListHealthy(r) PROVE Typed'
  BY <1>2 DEF Arrive, ListHealthy, Moves
<1>3. ASSUME NEW r \in Requests, NoHealthyWorkers(r) \/ ChargePanics(r) \/ PolicyPanics(r) PROVE Typed'
  BY <1>1, <1>3 DEF NoHealthyWorkers, ChargePanics, PolicyPanics
<1>4. ASSUME NEW r \in Requests, Charge(r) PROVE Typed'
  <2>1. PICK e \in listed[r] : /\ e[1] \in Places
                               /\ active' = [active EXCEPT ![e[1]] = (@ + 1) % Usize]
                               /\ idx' = [idx EXCEPT ![r] = e[1]]
                               /\ target' = [target EXCEPT ![r] = e[2]]
    BY <1>4 DEF Charge
  <2>2. active' \in [Places -> 0 .. Usize-1]
    BY <2>1, CounterRange
  <2> QED
    BY <1>4, <2>1, <2>2 DEF Charge, Moves
<1>5. ASSUME NEW r \in Requests, RequestFails(r) PROVE Typed'
  <2>1. pc[r] = "charged" /\ idx[r] \in Places
    BY <1>5 DEF RequestFails, Ends, Moves
  <2>2. active' \in [Places -> 0 .. Usize-1]
    BY <1>5, <2>1, CounterRange DEF RequestFails
  <2> QED
    BY <1>1, <1>5, <2>2 DEF RequestFails
<1>6. CASE UNCHANGED <<active, pc, listed, idx, target>>
  BY <1>6
<1>7. CASE \E u \in Urls : AddWorker(u) \/ RemoveWorker(u)
  BY <1>6, <1>7 DEF AddWorker, RemoveWorker
<1>8. CASE StartRound \/ ProbeFails \/ UNCHANGED vars
  BY <1>6, <1>8 DEF StartRound, ProbeFails, vars
<1> QED
  BY <1>2, <1>3, <1>4, <1>5, <1>7, <1>8 DEF Next, Router

\* Discovery changes the pool only while nobody reads it.
LEMMA ReadsTrueStep == Typed /\ ReadsTrue /\ [Next]_vars => ReadsTrue'
<1> SUFFICES ASSUME Typed, ReadsTrue, [Next]_vars PROVE ReadsTrue'
  OBVIOUS
<1> USE DEF Typed, ReadsTrue, poolVars, Listing
<1>1. ASSUME NEW r \in Requests, NEW from, Ends(r, from) PROVE ReadsTrue'
  BY <1>1 DEF Ends, Moves
<1>2. ASSUME NEW r \in Requests, Arrive(r) \/ Charge(r) PROVE ReadsTrue'
  BY <1>2 DEF Arrive, Charge, Moves
<1>3. ASSUME NEW r \in Requests, ListHealthy(r) PROVE ReadsTrue'
  BY <1>3 DEF ListHealthy, HealthyList, Moves
<1>4. ASSUME NEW r \in Requests, NoHealthyWorkers(r) \/ ChargePanics(r) \/ PolicyPanics(r) \/ RequestFails(r)
      PROVE  ReadsTrue'
  BY <1>1, <1>4 DEF NoHealthyWorkers, ChargePanics, PolicyPanics, RequestFails
<1>5. CASE \E u \in Urls : AddWorker(u) \/ RemoveWorker(u)
  BY <1>5 DEF AddWorker, RemoveWorker, Unread
<1>6. CASE StartRound \/ ProbeFails \/ UNCHANGED vars
  BY <1>6 DEF StartRound, ProbeFails, vars
<1> QED
  BY <1>2, <1>3, <1>4, <1>5, <1>6 DEF Next, Router

-----------------------------------------------------------------------------
(* Accounting.                                                             *)

\* Guards are counted by a number below Usize.
LEMMA ChargedFinite ==
  ASSUME NEW i
  PROVE  IsFiniteSet(ChargedAt(i)) /\ Cardinality(ChargedAt(i)) \in 0 .. Usize-1
<1>1. ChargedAt(i) \in SUBSET Requests
  BY DEF ChargedAt
<1> QED
  BY <1>1, RequestsAssumption, UsizeAssumption, FS_Subset, FS_CardinalityType

\* The same bound after a step.
LEMMA ChargedFiniteNext ==
  ASSUME NEW i
  PROVE  IsFiniteSet(ChargedAt(i)') /\ Cardinality(ChargedAt(i)') \in 0 .. Usize-1
<1>1. ChargedAt(i)' \in SUBSET Requests
  BY DEF ChargedAt
<1> QED
  BY <1>1, RequestsAssumption, UsizeAssumption, FS_Subset, FS_CardinalityType

\* A step that moves no slot to or from "charged" keeps the counts.
LEMMA NoChargeMoves ==
  ASSUME CountersExact, active' = active,
         \A s \in Requests : \/ pc'[s] = pc[s] /\ idx'[s] = idx[s]
                             \/ pc[s] # "charged" /\ pc'[s] # "charged"
  PROVE  CountersExact'
<1>1. ASSUME NEW i \in Places PROVE ChargedAt(i)' = ChargedAt(i)
  BY DEF ChargedAt
<1> QED
  BY <1>1 DEF CountersExact

\* A charge adds one where it is made, and cannot wrap, as there are fewer slots
\* than values of a usize.
LEMMA ChargeCounts ==
  ASSUME Typed, CountersExact, NEW r \in Requests, Charge(r)
  PROVE  /\ CountersExact'
         /\ idx'[r] \in Places /\ idx' = [idx EXCEPT ![r] = idx'[r]]
         /\ active' = [active EXCEPT ![idx'[r]] = active[idx'[r]] + 1]
<1>1. PICK i \in Places : /\ active' = [active EXCEPT ![i] = (@ + 1) % Usize]
                          /\ idx' = [idx EXCEPT ![r] = i]
  BY DEF Charge
<1>2. /\ pc[r] = "reading" /\ pc'[r] = "charged" /\ idx'[r] = i
      /\ \A s \in Requests \ {r} : pc'[s] = pc[s] /\ idx'[s] = idx[s]
  BY <1>1 DEF Charge, Moves, Typed
<1>3. ChargedAt(i)' = ChargedAt(i) \cup {r} /\ r \notin ChargedAt(i)
  BY <1>2 DEF ChargedAt
<1>4. active[i] = Cardinality(ChargedAt(i)) /\ active[i] \in 0 .. Usize-1
  BY DEF CountersExact, Typed
<1>5. Cardinality(ChargedAt(i)') = active[i] + 1
  BY <1>3, <1>4, ChargedFinite, FS_AddElement
<1>6. (active[i] + 1) % Usize = active[i] + 1
  BY <1>4, <1>5, ChargedFiniteNext, UsizeType
<1>7. active' = [active EXCEPT ![i] = active[i] + 1]
  BY <1>1, <1>6 DEF Typed
<1>8. ASSUME NEW j \in Places, j # i PROVE ChargedAt(j)' = ChargedAt(j)
  BY <1>2, <1>8 DEF ChargedAt
<1>9. CountersExact'
  BY <1>5, <1>7, <1>8 DEF CountersExact, Typed
<1> QED
  BY <1>1, <1>2, <1>7, <1>9

\* The guard takes the charge back from the place it was made at, which still
\* counts it: no wrap below zero.
LEMMA ReleaseCounts ==
  ASSUME Typed, CountersExact, NEW r \in Requests, RequestFails(r)
  PROVE  /\ CountersExact' /\ idx[r] \in Places
         /\ active' = [active EXCEPT ![idx[r]] = active[idx[r]] - 1]
<1>1. /\ pc[r] = "charged" /\ pc'[r] = "idle" /\ idx[r] \in Places
      /\ \A s \in Requests \ {r} : pc'[s] = pc[s] /\ idx'[s] = idx[s]
  BY DEF RequestFails, Ends, Moves, Typed
<1>a. PICK i \in Places : i = idx[r]
  BY <1>1
<1>2. ChargedAt(i)' = ChargedAt(i) \ {r} /\ r \in ChargedAt(i)
  BY <1>1, <1>a DEF ChargedAt
<1>3. active[i] = Cardinality(ChargedAt(i)) /\ active[i] \in 0 .. Usize-1
  BY <1>1 DEF CountersExact, Typed
<1>4. Cardinality(ChargedAt(i)') = active[i] - 1
  BY <1>2, <1>3, ChargedFinite, FS_RemoveElement
<1>5. (active[i] - 1) % Usize = active[i] - 1
  BY <1>3, <1>4, ChargedFiniteNext, UsizeType
<1>6. active' = [active EXCEPT ![i] = active[i] - 1]
  BY <1>1, <1>a, <1>5 DEF RequestFails, Typed
<1>7. ASSUME NEW j \in Places, j # i PROVE ChargedAt(j)' = ChargedAt(j)
  <2>1. r \notin ChargedAt(j) /\ r \notin ChargedAt(j)'
    BY <1>1, <1>a, <1>7 DEF ChargedAt
  <2> QED
    BY <1>1, <2>1 DEF ChargedAt
<1>8. CountersExact'
  BY <1>1, <1>4, <1>6, <1>7 DEF CountersExact, Typed
<1> QED
  BY <1>1, <1>a, <1>6, <1>8

\* What every other step does to slots and counters.
LEMMA OtherSteps ==
  ASSUME Typed, [Next]_vars,
         \A r \in Requests : ~Charge(r) /\ ~RequestFails(r)
  PROVE  /\ active' = active /\ idx' = idx
         /\ \/ pc' = pc
            \/ \E r \in Requests : Lifecycle!Arrive(r) \/ Lifecycle!Refuse(r)
            \/ \E r \in Requests : Moves(r, "arrived", "reading")
         /\ \A s \in Requests : pc'[s] = pc[s] \/ (pc[s] # "charged" /\ pc'[s] # "charged")
<1> USE DEF Typed
<1>1. ASSUME NEW r \in Requests, Arrive(r)
      PROVE  /\ active' = active /\ idx' = idx /\ Lifecycle!Arrive(r)
             /\ \A s \in Requests : pc'[s] = pc[s] \/ (pc[s] # "charged" /\ pc'[s] # "charged")
  BY <1>1 DEF Arrive, Moves, Phase, Lifecycle!Arrive, Lifecycle!Becomes
<1>2. ASSUME NEW r \in Requests, ListHealthy(r)
      PROVE  /\ active' = active /\ idx' = idx /\ Moves(r, "arrived", "reading")
             /\ \A s \in Requests : pc'[s] = pc[s] \/ (pc[s] # "charged" /\ pc'[s] # "charged")
  BY <1>2 DEF ListHealthy, Moves
<1>3. ASSUME NEW r \in Requests, NoHealthyWorkers(r) \/ ChargePanics(r) \/ PolicyPanics(r)
      PROVE  /\ active' = active /\ idx' = idx /\ Lifecycle!Refuse(r)
             /\ \A s \in Requests : pc'[s] = pc[s] \/ (pc[s] # "charged" /\ pc'[s] # "charged")
  <2>1. /\ active' = active
        /\ Ends(r, "arrived") \/ Ends(r, "reading")
    BY <1>3 DEF NoHealthyWorkers, ChargePanics, PolicyPanics
  <2>2. idx[r] = NoPlace /\ idx' = [idx EXCEPT ![r] = NoPlace]
    BY <2>1 DEF Ends, Moves
  <2>3. idx' = idx
    BY <2>2
  <2>4. ASSUME NEW from \in {"arrived", "reading"}, Moves(r, from, "idle")
        PROVE  /\ Lifecycle!Becomes(r, "waiting", "idle")
               /\ \A s \in Requests : pc'[s] = pc[s] \/ (pc[s] # "charged" /\ pc'[s] # "charged")
    BY <2>4 DEF Moves, Phase, Lifecycle!Becomes
  <2> QED
    BY <2>1, <2>3, <2>4 DEF Ends, Lifecycle!Refuse
<1>4. CASE UNCHANGED vars \/ StartRound \/ ProbeFails \/ (\E u \in Urls : AddWorker(u) \/ RemoveWorker(u))
  BY <1>4 DEF vars, StartRound, ProbeFails, AddWorker, RemoveWorker
<1> QED
  BY <1>1, <1>2, <1>3, <1>4 DEF Next, Router

\* Types and reads by the lemmas above, counters by what each step moves.
LEMMA InvStep == Inv /\ [Next]_vars => Inv'
<1> SUFFICES ASSUME Inv, [Next]_vars PROVE Inv'
  OBVIOUS
<1>1. Typed' /\ ReadsTrue'
  BY TypedStep, ReadsTrueStep DEF Inv
<1>2. CountersExact'
  <2>1. CASE \E r \in Requests : Charge(r) \/ RequestFails(r)
    BY <2>1, ChargeCounts, ReleaseCounts DEF Inv
  <2>2. CASE \A r \in Requests : ~Charge(r) /\ ~RequestFails(r)
    BY <2>2, OtherSteps, NoChargeMoves DEF Inv
  <2> QED
    BY <2>1, <2>2
<1> QED
  BY <1>1, <1>2 DEF Inv

\* The invariant holds of every reachable state.
LEMMA Invariance == Spec => []Inv
BY InvInit, InvStep, PTL DEF Spec

\* Although places change hands under requests in flight, each counter is the
\* number of live guards that name its place (server.rs, finish_request).
THEOREM PlacesAccounted == Spec => []CountersExact
<1>1. Inv => CountersExact
  BY DEF Inv
<1> QED
  BY <1>1, Invariance, PTL

\* No removal slips in between listing and charging: what is charged is still the
\* place of the worker the request goes to.
THEOREM ChargesWhatItListed == Spec => ChargedWhereListed
<1>1. ASSUME Inv, [Next]_vars, NEW r \in Requests, pc[r] = "reading", pc'[r] = "charged"
      PROVE  <<idx'[r], target'[r]>> \in Listing
  <2>1. Charge(r)
    <3>1. ASSUME NEW s \in Requests, Arrive(s) \/ Router(s), s # r PROVE FALSE
      BY <1>1, <3>1 DEF Inv, Typed, Arrive, Router, ListHealthy, NoHealthyWorkers, Charge,
                        ChargePanics, PolicyPanics, RequestFails, Ends, Moves
    <3>2. CASE Arrive(r) \/ Router(r)
      BY <1>1, <3>2 DEF Inv, Typed, Arrive, Router, ListHealthy, NoHealthyWorkers,
                        ChargePanics, PolicyPanics, RequestFails, Ends, Moves
    <3>3. CASE UNCHANGED pc
      BY <1>1, <3>3
    <3> QED
      BY <1>1, <3>1, <3>2, <3>3 DEF Next, AddWorker, RemoveWorker, StartRound, ProbeFails, vars
  <2>2. PICK e \in listed[r] : idx'[r] = e[1] /\ target'[r] = e[2]
    BY <1>1, <2>1 DEF Charge, Inv, Typed
  <2>3. PICK i \in DOMAIN pool : e = <<i - 1, pool[i]>>
    BY <1>1, <2>2 DEF Inv, ReadsTrue, Listing
  <2> QED
    BY <2>2, <2>3 DEF Listing
<1>2. Inv /\ [Next]_vars =>
        [\A r \in Requests : pc[r] = "reading" /\ pc'[r] = "charged" =>
            <<idx'[r], target'[r]>> \in Listing]_vars
  BY <1>1
<1> QED
  BY <1>2, Invariance, PTL DEF Spec, ChargedWhereListed

-----------------------------------------------------------------------------
(* The pool.                                                               *)

\* What retain does at each place: a worker of URL u is left out.
KeptStep(u, prev, i) == IF url[pool[i]] = u THEN prev ELSE Append(prev, pool[i])

\* Retained is what these steps end with.
LEMMA RetainedRun ==
  ASSUME NEW S, pool \in Seq(S), NEW u
  PROVE  \E kept : /\ kept \in [0 .. Len(pool) -> Seq(S)] /\ kept[0] = << >>
                   /\ \A i \in 1 .. Len(pool) : kept[i] = KeptStep(u, kept[i-1], i)
                   /\ Retained(u) = kept[Len(pool)]
<1> DEFINE m == Len(pool)
           Q == Seq(S)
           step == [x \in Q \X (1 .. m) |-> KeptStep(u, x[1], x[2])]
           Runs(k) == k = [i \in 0 .. m |->
              IF i = 0 THEN << >>
              ELSE IF url[pool[i]] = u THEN k[i-1] ELSE Append(k[i-1], pool[i])]
           kept == CHOOSE k : Runs(k)
<1>1. m \in Nat /\ << >> \in Q /\ \A i \in 1 .. m : pool[i] \in S
  OBVIOUS
<1>2. ASSUME NEW s \in Q, NEW i \in 1 .. m PROVE KeptStep(u, s, i) \in Q
  BY <1>1 DEF KeptStep
<1>3. Retained(u) = kept[m]
  BY DEF Retained
<1>4. \A s \in Q, i \in 1 .. m : step[<<s, i>>] = KeptStep(u, s, i)
  OBVIOUS
<1>5. step \in [Q \X (1 .. m) -> Q]
  <2>1. ASSUME NEW x \in Q \X (1 .. m) PROVE KeptStep(u, x[1], x[2]) \in Q
    BY <1>2
  <2> HIDE DEF Q, m
  <2> QED
    BY <2>1
<1> HIDE DEF m, Q, step
<1>6. Iterations(Q, m, << >>, step) # {}
  BY <1>1, <1>5, IterationsExist
<1>7. PICK k : k \in [0 .. m -> Q] /\ k[0] = << >> /\ \A i \in 1 .. m : k[i] = step[<<k[i-1], i>>]
  BY <1>6 DEF Iterations
<1>8. Runs(k)
  <2>1. ASSUME NEW i \in 0 .. m
        PROVE  k[i] = IF i = 0 THEN << >> ELSE IF url[pool[i]] = u THEN k[i-1] ELSE Append(k[i-1], pool[i])
    <3>1. CASE i = 0
      BY <1>7, <3>1
    <3>2. CASE i # 0
      <4>1. i \in 1 .. m /\ i-1 \in 0 .. m
        BY <1>1, <3>2
      <4>2. k[i] = KeptStep(u, k[i-1], i)
        BY <1>4, <1>7, <4>1
      <4> QED
        BY <3>2, <4>2 DEF KeptStep
    <3> QED
      BY <3>1, <3>2
  <2>2. k = [i \in 0 .. m |-> k[i]]
    BY <1>7
  <2> QED
    BY <2>1, <2>2
<1> HIDE DEF Runs
<1>9. Runs(kept)
  BY <1>8
<1> HIDE DEF kept
<1>10. /\ kept[0] = << >>
       /\ \A i \in 1 .. m : kept[i] = KeptStep(u, kept[i-1], i)
       /\ kept = [i \in 0 .. m |-> kept[i]]
  <2>1. kept = [i \in 0 .. m |->
            IF i = 0 THEN << >>
            ELSE IF url[pool[i]] = u THEN kept[i-1] ELSE Append(kept[i-1], pool[i])]
    BY <1>9 DEF Runs
  <2>2. kept[0] = << >> /\ kept = [i \in 0 .. m |-> kept[i]]
    BY <1>1, <2>1
  <2>3. ASSUME NEW i \in 1 .. m PROVE kept[i] = KeptStep(u, kept[i-1], i)
    <3>1. i \in 0 .. m /\ i # 0
      BY <1>1
    <3>2. kept[i] = IF url[pool[i]] = u THEN kept[i-1] ELSE Append(kept[i-1], pool[i])
      BY <2>1, <3>1
    <3> QED
      BY <3>2 DEF KeptStep
  <2> QED
    BY <2>2, <2>3
<1>11. \A i \in 0 .. m : kept[i] \in Q
  <2> DEFINE T == {i \in 0 .. m : kept[i] \in Q}
  <2>1. 0 \in T
    BY <1>1, <1>10
  <2>2. ASSUME NEW i \in 0 .. m-1, i \in T PROVE i + 1 \in T
    <3>1. i + 1 \in 1 .. m /\ (i + 1) - 1 = i /\ kept[i] \in Q
      BY <1>1, <2>2
    <3>2. kept[i+1] = KeptStep(u, kept[i], i+1)
      BY <1>10, <3>1
    <3> QED
      BY <1>2, <3>1, <3>2
  <2>3. \A i \in T : kept[i] \in Q
    OBVIOUS
  <2> HIDE DEF T
  <2>4. \A i \in 0 .. m : i \in T
    BY <1>1, <2>1, <2>2, UpToInduction
  <2> QED
    BY <2>3, <2>4
<1>12. kept \in [0 .. m -> Q]
  BY <1>10, <1>11
<1> QED
  BY <1>3, <1>10, <1>12 DEF m, Q

\* retain keeps workers of the pool, none of the URL, and no worker twice.
LEMMA RetainedWorkers ==
  ASSUME NEW S, pool \in Seq(S), NEW u, PoolIsASet
  PROVE  /\ Retained(u) \in Seq(S)
         /\ \A i \in DOMAIN Retained(u) : Retained(u)[i] \in Pooled /\ url[Retained(u)[i]] # u
         /\ \A i, j \in DOMAIN Retained(u) : url[Retained(u)[i]] = url[Retained(u)[j]] => i = j
<1> DEFINE m == Len(pool)
           From(s, k) == /\ \A i \in DOMAIN s : /\ url[s[i]] # u
                                                /\ \E j \in 1 .. k : s[i] = pool[j]
                         /\ \A i, j \in DOMAIN s : url[s[i]] = url[s[j]] => i = j
<1>1. PICK kept : /\ kept \in [0 .. m -> Seq(S)] /\ kept[0] = << >>
                  /\ \A i \in 1 .. m : kept[i] = KeptStep(u, kept[i-1], i)
                  /\ Retained(u) = kept[m]
  BY RetainedRun
<1>2. m \in Nat /\ DOMAIN pool = 1 .. m
  OBVIOUS
<1>3. \A i, j \in 1 .. m : url[pool[i]] = url[pool[j]] => i = j
  BY <1>2 DEF PoolIsASet
<1>4. From(<< >>, 0)
  OBVIOUS
<1> HIDE DEF m
<1>5. ASSUME NEW s \in Seq(S), NEW k \in 0 .. m-1, From(s, k) PROVE From(KeptStep(u, s, k+1), k+1)
  <2>1. k+1 \in 1 .. m /\ \A j \in 1 .. k : j \in 1 .. k+1 /\ j \in 1 .. m /\ j # k+1
    BY <1>2
  <2>2. CASE url[pool[k+1]] = u
    BY <1>5, <2>1, <2>2 DEF KeptStep
  <2>3. CASE url[pool[k+1]] # u
    <3> DEFINE x == pool[k+1]
               t == Append(s, x)
               l == Len(s)
    <3>1. KeptStep(u, s, k+1) = t
      BY <2>3 DEF KeptStep
    <3>2. /\ l \in Nat /\ DOMAIN s = 1 .. l /\ DOMAIN t = 1 .. l+1
          /\ \A i \in 1 .. l : t[i] = s[i]
          /\ t[l+1] = x
      OBVIOUS
    <3> HIDE DEF t, l
    <3>3. \A i \in 1 .. l+1 : i = l+1 \/ i \in 1 .. l
      BY <3>2
    <3>4. \A i \in 1 .. l : url[s[i]] # u /\ (\E j \in 1 .. k : s[i] = pool[j]) /\ url[s[i]] # url[x]
      BY <1>3, <1>5, <2>1, <3>2, SMTT(20)
    <3>5. \A i \in DOMAIN t : url[t[i]] # u /\ \E j \in 1 .. k+1 : t[i] = pool[j]
      BY <2>1, <2>3, <3>2, <3>3, <3>4
    <3>6. \A i, j \in 1 .. l : url[s[i]] = url[s[j]] => i = j
      BY <1>5, <3>2
    <3> HIDE DEF x, From
    <3>7. \A i, j \in 1 .. l+1 : url[t[i]] = url[t[j]] => i = j
      BY <3>2, <3>3, <3>4, <3>6
    <3>8. \A i, j \in DOMAIN t : url[t[i]] = url[t[j]] => i = j
      BY <3>2, <3>7
    <3> QED
      BY <3>1, <3>5, <3>8 DEF From
  <2> QED
    BY <2>2, <2>3
<1> HIDE DEF From
<1> DEFINE T == {k \in 0 .. m : From(kept[k], k)}
<1>6. 0 \in T
  BY <1>1, <1>2, <1>4
<1>7. ASSUME NEW k \in 0 .. m-1, k \in T PROVE k + 1 \in T
  <2>1. k \in 0 .. m /\ k+1 \in 1 .. m /\ k+1 \in 0 .. m /\ (k+1)-1 = k /\ From(kept[k], k)
    BY <1>2, <1>7
  <2>2. kept[k] \in Seq(S) /\ kept[k+1] = KeptStep(u, kept[k], k+1)
    BY <1>1, <2>1
  <2>3. From(kept[k+1], k+1)
    BY <1>5, <2>1, <2>2
  <2> QED
    BY <2>1, <2>3
<1>8. \A k \in T : From(kept[k], k)
  OBVIOUS
<1> HIDE DEF T
<1>9. \A k \in 0 .. m : k \in T
  BY <1>2, <1>6, <1>7, UpToInduction
<1>10. From(kept[m], m) /\ kept[m] \in Seq(S)
  <2>1. m \in 0 .. m
    BY <1>2
  <2>2. m \in T
    BY <1>9, <2>1
  <2> QED
    BY <1>1, <1>8, <2>1, <2>2
<1>11. \A j \in 1 .. m : pool[j] \in Pooled
  BY <1>2 DEF Pooled
<1>12. \A i \in DOMAIN kept[m] : kept[m][i] \in Pooled /\ url[kept[m][i]] # u
  BY <1>10, <1>11 DEF From
<1>13. \A i, j \in DOMAIN kept[m] : url[kept[m][i]] = url[kept[m][j]] => i = j
  BY <1>10 DEF From
<1> QED
  BY <1>1, <1>10, <1>12, <1>13

\* The workers: vectors hold objects that exist, the pool none of one URL twice.
PoolOK ==
    /\ url \in [Objects -> Urls \cup {NoUrl}]
    /\ healthy \in [Objects -> BOOLEAN]
    /\ pool \in Seq(Made) /\ round \in Seq(Made)
    /\ listed \in [Requests -> SUBSET (Nat \X Made)]
    /\ target \in [Requests -> Objects \cup {0}]
    /\ PoolIsASet

\* The pool starts empty.
LEMMA PoolInit == Init => PoolOK
BY UrlsAssumption DEF Init, PoolOK, PoolIsASet

\* An object is created with a URL that the pool does not hold.
LEMMA PoolAdd == ASSUME PoolOK, NEW u \in Urls, AddWorker(u) PROVE PoolOK'
<1>1. PICK o \in Fresh : url' = [url EXCEPT ![o] = u] /\ pool' = Append(pool, o)
  BY DEF AddWorker
<1>2. /\ o \in Objects /\ url[o] = NoUrl /\ u # NoUrl
      /\ url' \in [Objects -> Urls \cup {NoUrl}]
      /\ url'[o] = u /\ \A p \in Made : url'[p] = url[p]
      /\ Made' = Made \cup {o} /\ o \notin Made
  BY <1>1, UrlsAssumption DEF PoolOK, Fresh, Made
<1> DEFINE l == Len(pool)
<1>3. /\ l \in Nat /\ DOMAIN pool = 1 .. l /\ DOMAIN pool' = 1 .. l+1
      /\ \A i \in 1 .. l : pool[i] \in Made /\ pool'[i] = pool[i]
      /\ pool'[l+1] = o
  BY <1>1 DEF PoolOK
<1>4. \A i \in 1 .. l : url[pool[i]] # u
  BY <1>3 DEF AddWorker, Pooled
<1> HIDE DEF l
<1>5. PoolIsASet'
  <2>1. \A i \in 1 .. l+1 : i = l+1 \/ i \in 1 .. l
    BY <1>3
  <2>2. \A i \in 1 .. l : url'[pool'[i]] = url[pool[i]] /\ url'[pool'[i]] # u
    BY <1>2, <1>3, <1>4
  <2>3. url'[pool'[l+1]] = u
    BY <1>2, <1>3
  <2>4. \A i, j \in 1 .. l : url[pool[i]] = url[pool[j]] => i = j
    BY <1>3 DEF PoolOK, PoolIsASet
  <2>5. \A i, j \in 1 .. l+1 : url'[pool'[i]] = url'[pool'[j]] => i = j
    BY <2>1, <2>2, <2>3, <2>4
  <2> QED
    BY <1>3, <2>5 DEF PoolIsASet
<1>6. pool \in Seq(Made') /\ round \in Seq(Made') /\ o \in Made'
  BY <1>2 DEF PoolOK
<1>7. pool' \in Seq(Made')
  BY <1>1, <1>6
<1>8. listed \in [Requests -> SUBSET (Nat \X Made')]
  BY <1>2 DEF PoolOK
<1> QED
  BY <1>2, <1>5, <1>6, <1>7, <1>8 DEF PoolOK, AddWorker

\* Without the workers of a URL the others are still one of each.
LEMMA PoolRemove == ASSUME PoolOK, NEW u, RemoveWorker(u) PROVE PoolOK'
<1>1. UNCHANGED <<url, healthy, round, listed, target>> /\ Made' = Made
  BY DEF RemoveWorker, Made
<1>2. /\ pool' \in Seq(Made)
      /\ \A i, j \in DOMAIN pool' : url[pool'[i]] = url[pool'[j]] => i = j
  BY RetainedWorkers DEF PoolOK, RemoveWorker
<1>3. PoolIsASet'
  BY <1>1, <1>2 DEF PoolIsASet
<1> QED
  BY <1>1, <1>2, <1>3 DEF PoolOK

\* Everything else leaves the pool alone; the health checker and the handlers copy
\* from it what exists.
LEMMA PoolStep == PoolOK /\ Typed /\ [Next]_vars => PoolOK'
<1> SUFFICES ASSUME PoolOK, Typed, [Next]_vars PROVE PoolOK'
  OBVIOUS
<1>1. ASSUME UNCHANGED <<url, pool>>, healthy' \in [Objects -> BOOLEAN], round' \in Seq(Made),
             listed' \in [Requests -> SUBSET (Nat \X Made)], target' \in [Requests -> Objects \cup {0}]
      PROVE  PoolOK'
  <2>1. Made' = Made /\ PoolIsASet'
    BY <1>1 DEF PoolOK, PoolIsASet, Made
  <2> QED
    BY <1>1, <2>1 DEF PoolOK
<1>2. Made \subseteq Objects
  BY DEF Made
<1>3. CASE StartRound
  BY <1>1, <1>3 DEF StartRound, PoolOK
<1>4. CASE ProbeFails
  <2>1. Head(round) \in Made /\ Tail(round) \in Seq(Made)
    BY <1>4 DEF ProbeFails, PoolOK
  <2>2. healthy' \in [Objects -> BOOLEAN]
    BY <1>4 DEF ProbeFails, PoolOK
  <2> QED
    BY <1>1, <1>4, <2>1, <2>2 DEF ProbeFails, PoolOK
<1>5. ASSUME NEW r \in Requests, NEW from, Ends(r, from) PROVE PoolOK'
  <2>1. listed' \in [Requests -> SUBSET (Nat \X Made)] /\ target' \in [Requests -> Objects \cup {0}]
    BY <1>5 DEF Ends, PoolOK
  <2> QED
    BY <1>1, <1>5, <2>1 DEF Ends, PoolOK, poolVars
<1>6. ASSUME NEW r \in Requests, ListHealthy(r) PROVE PoolOK'
  <2>1. HealthyList \in SUBSET (Nat \X Made)
    <3>1. \A i \in DOMAIN pool : i - 1 \in Nat /\ pool[i] \in Made
      BY DEF PoolOK
    <3> QED
      BY <3>1 DEF HealthyList, Listing
  <2>2. listed' \in [Requests -> SUBSET (Nat \X Made)]
    BY <1>6, <2>1 DEF ListHealthy, PoolOK
  <2> QED
    BY <1>1, <1>6, <2>2 DEF ListHealthy, PoolOK, poolVars
<1>7. ASSUME NEW r \in Requests, Charge(r) PROVE PoolOK'
  <2>1. PICK e \in listed[r] : target' = [target EXCEPT ![r] = e[2]]
    BY <1>7 DEF Charge
  <2>2. e[2] \in Objects
    BY <1>2, <2>1 DEF PoolOK
  <2>3. target' \in [Requests -> Objects \cup {0}]
    BY <2>1, <2>2 DEF PoolOK
  <2> QED
    BY <1>1, <1>7, <2>3 DEF Charge, PoolOK, poolVars
<1>8. ASSUME NEW r \in Requests, Arrive(r) PROVE PoolOK'
  BY <1>1, <1>8 DEF Arrive, PoolOK, poolVars
<1>9. CASE UNCHANGED vars
  BY <1>1, <1>9 DEF vars, poolVars, PoolOK
<1>10. ASSUME NEW r \in Requests, Router(r) PROVE PoolOK'
  BY <1>5, <1>6, <1>7, <1>10 DEF Router, NoHealthyWorkers, ChargePanics, PolicyPanics, RequestFails
<1> QED
  BY <1>3, <1>4, <1>8, <1>9, <1>10, PoolAdd, PoolRemove DEF Next

\* Types and the pool, together with the handlers' own types.
LEMMA PoolInvariance == Spec => [](PoolOK /\ Typed)
<1>1. Init => PoolOK /\ Typed
  BY PoolInit, InvInit DEF Inv
<1> QED
  BY <1>1, PoolStep, TypedStep, PTL DEF Spec

\* Every variable keeps its type: the vectors, the health checker's snapshot and the
\* handlers' lists hold worker objects that exist, however they were copied.
THEOREM TypeCorrect == Spec => []TypeOK
<1>1. PoolOK /\ Typed => TypeOK
  BY DEF PoolOK, Typed, TypeOK
<1> QED
  BY <1>1, PoolInvariance, PTL

\* add_worker_to_pool and remove_worker_from_pool keep the pool a set of URLs, in
\* whatever order tasks call them (service_discovery.rs).
THEOREM EachUrlOnce == Spec => []PoolIsASet
<1>1. PoolOK => PoolIsASet
  BY DEF PoolOK
<1> QED
  BY <1>1, PoolInvariance, PTL

-----------------------------------------------------------------------------
(* Refinement.                                                             *)

PhaseNow == [r \in Requests |-> Phase(pc[r])]

\* Charge and RequestFails are Charge and Release; what else moves a slot is Arrive,
\* Refuse or a stutter.
LEMMA LifecycleStep == Inv /\ [Next]_vars => [Lifecycle!Next]_(Lifecycle!vars)
<1> SUFFICES ASSUME Inv, [Next]_vars
             PROVE  Lifecycle!Next \/ UNCHANGED <<PhaseNow, idx, active>>
  BY DEF Lifecycle!vars, PhaseNow
<1>1. ASSUME NEW r \in Requests, Charge(r) PROVE Lifecycle!Charge(r)
  <2>1. Moves(r, "reading", "charged")
    BY <1>1 DEF Charge
  <2>2. Lifecycle!Becomes(r, "waiting", "charged")
    BY <2>1 DEF Moves, Inv, Typed, Phase, Lifecycle!Becomes
  <2> QED
    BY <1>1, <2>2, ChargeCounts DEF Inv, Lifecycle!Charge
<1>2. ASSUME NEW r \in Requests, RequestFails(r) PROVE Lifecycle!Release(r)
  <2>1. Moves(r, "charged", "idle") /\ idx' = [idx EXCEPT ![r] = NoPlace]
    BY <1>2 DEF RequestFails, Ends
  <2>2. Lifecycle!Becomes(r, "charged", "idle")
    BY <2>1 DEF Moves, Inv, Typed, Phase, Lifecycle!Becomes
  <2> QED
    BY <1>2, <2>1, <2>2, ReleaseCounts DEF Inv, Lifecycle!Release
<1>3. CASE \A r \in Requests : ~Charge(r) /\ ~RequestFails(r)
  <2>1. CASE pc' = pc
    BY <1>3, <2>1, OtherSteps DEF Inv, PhaseNow
  <2>2. CASE \E r \in Requests : Moves(r, "arrived", "reading")
    <3>1. PhaseNow' = PhaseNow
      BY <2>2 DEF Moves, Inv, Typed, Phase, PhaseNow
    <3> QED
      BY <1>3, <3>1, OtherSteps DEF Inv
  <2> QED
    BY <1>3, <2>1, <2>2, OtherSteps DEF Inv, Lifecycle!Next, Lifecycle!Serve
<1> QED
  BY <1>1, <1>2, <1>3 DEF Lifecycle!Next, Lifecycle!Serve

\* With places for workers, the gateway over a changing pool keeps the promise of
\* the static one: one charge for each request, taken back from where it was made.
THEOREM ChangingPoolKeepsLifecycle == Spec => LifecycleKept
<1>1. Init => Lifecycle!Init
  BY DEF Init, Phase, Lifecycle!Init
<1>2. Spec => Lifecycle!Init /\ [][Lifecycle!Next]_(Lifecycle!vars)
  BY <1>1, LifecycleStep, Invariance, PTL DEF Spec
<1> QED
  BY <1>2 DEF LifecycleKept, Lifecycle!Spec

=============================================================================
