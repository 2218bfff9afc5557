------------------------- MODULE PdPipelineProofs -------------------------
(***************************************************************************)
(* What a handler of the pipeline still owes the two policies depends only *)
(* on the stage it is at and on the mode: that is the inductive invariant, *)
(* and its first conjunct is ReleasedBeforeResponding.  The accounting     *)
(* rests on it too: a handler that is about to charge a pool owes that     *)
(* pool nothing, so that no charge is forgotten, and one that owes it is   *)
(* inside that pool's window.  Pools, workers, requests and the set of     *)
(* faults are arbitrary.                                                   *)
(***************************************************************************)
EXTENDS PdPipeline, FiniteSetTheorems, TLAPS

\* The stages at which ReleasedBeforeResponding promises that nothing is held.
Released == {"idle", "arrived", "refused", "logprobs", "decode_body"}

\* What the handler of slot r may hold at its stage.
Owes(r) ==
    /\ pc[r] \in Released => held[r] = NoneHeld
    /\ pc[r] \in {"prefill_ready", "prefill_sent", "prefill_body", "decode_wanted"} =>
          held[r]["decode"] = None
    /\ mode = "vllm" /\ pc[r] \in {"decode_wanted", "decode_ready", "decode_sent"} =>
          held[r]["prefill"] = None

OwesInv ==
    /\ pc \in [Requests -> Stages]
    /\ held \in [Requests -> [Pools -> Int]]
    /\ \A r \in Requests : Owes(r)

\* A step of one handler leaves what the others owe alone.
LEMMA OneHandlerMoves ==
    ASSUME OwesInv, NEW r \in Requests, NEW s \in Stages, NEW h \in [Pools -> Int],
           pc' = [pc EXCEPT ![r] = s], held' = [held EXCEPT ![r] = h], UNCHANGED mode, Owes(r)'
    PROVE  OwesInv'
<1>1. pc' \in [Requests -> Stages] /\ held' \in [Requests -> [Pools -> Int]]
    BY DEF OwesInv
<1>2. \A q \in Requests \ {r} : pc'[q] = pc[q] /\ held'[q] = held[q]
    BY DEF OwesInv
<1>3. \A q \in Requests \ {r} : Owes(q)'
    BY <1>2 DEF OwesInv, Owes
<1>4. QED
    BY <1>1, <1>3 DEF OwesInv

\* Ending a handler, in whatever way, leaves nothing owed by its slot.
LEMMA EndsKeepsOwes == ASSUME OwesInv, NEW r \in Requests, Ends(r) PROVE OwesInv'
<1>1. NoneHeld \in [Pools -> Int] /\ "idle" \in Stages
    BY DEF NoneHeld, None, Stages
<1>2. pc' = [pc EXCEPT ![r] = "idle"] /\ held' = [held EXCEPT ![r] = NoneHeld] /\ UNCHANGED mode
    BY DEF Ends
<1>3. pc'[r] = "idle" /\ held'[r] = NoneHeld
    BY <1>2 DEF OwesInv
<1>4. Owes(r)'
    BY <1>3 DEF Owes
<1>5. QED
    BY <1>1, <1>2, <1>4, OneHandlerMoves

\* Moving on without touching the policies between stages that owe the same.
LEMMA MoveKeepsOwes ==
    ASSUME OwesInv, NEW r \in Requests, NEW from \in Stages, NEW to \in Stages,
           Moves(r, from, to), UNCHANGED <<mode, held>>,
           \/ from \in Released /\ to \in Released
           \/ from \in {"prefill_ready", "prefill_sent"}
              /\ to \in {"prefill_sent", "prefill_body"}
           \/ from = "decode_ready" /\ to = "decode_sent"
    PROVE  OwesInv'
<1>1. held[r] \in [Pools -> Int] /\ held' = [held EXCEPT ![r] = held[r]]
    BY DEF OwesInv
<1>2. pc[r] = from /\ pc'[r] = to /\ held'[r] = held[r]
    BY DEF OwesInv, Moves
<1>3. Owes(r)'
    BY <1>2 DEF OwesInv, Owes, Released
<1>4. QED
    BY <1>1, <1>3, OneHandlerMoves DEF Moves

\* What is held after a start and after a finish.
LEMMA BeginHolds ==
    ASSUME OwesInv, NEW r \in Requests, NEW p \in Pools, NEW w \in Workers(p), Begin(r, p, w)
    PROVE  LET h == [held[r] EXCEPT ![p] = w] IN
              h \in [Pools -> Int] /\ held' = [held EXCEPT ![r] = h]
<1>1. w \in Int
    BY SizeAssumption DEF Workers, Pools
<1>2. QED
    BY <1>1 DEF OwesInv, Begin

LEMMA FinishHolds ==
    ASSUME OwesInv, NEW r \in Requests, NEW done \in SUBSET Pools, Finish(r, done)
    PROVE  LET h == [p \in Pools |-> IF p \in done THEN None ELSE held[r][p]] IN
              h \in [Pools -> Int] /\ held' = [held EXCEPT ![r] = h]
BY DEF OwesInv, Finish, None

LEMMA BeginKeepsOwes ==
    ASSUME OwesInv, NEW r \in Requests, SelectPrefill(r) \/ SelectDecode(r)
    PROVE  OwesInv'
<1>1. CASE SelectPrefill(r)
    <2>1. PICK w \in Workers("prefill") : Begin(r, "prefill", w)
        BY <1>1 DEF SelectPrefill
    <2> DEFINE h  == [held[r] EXCEPT !["prefill"] = w]
               to == IF mode = "vllm" THEN "prefill_ready" ELSE "decode_wanted"
    <2>2. h \in [Pools -> Int] /\ held' = [held EXCEPT ![r] = h]
        BY <2>1, BeginHolds DEF Pools
    <2>3. pc[r] = "arrived" /\ pc' = [pc EXCEPT ![r] = to] /\ to \in Stages /\ mode' = mode
        BY <1>1 DEF SelectPrefill, Moves, Stages
    <2>4. pc'[r] = to /\ held'[r] = h
        BY <2>2, <2>3 DEF OwesInv
    <2>5. held[r] = NoneHeld
        BY <2>3 DEF OwesInv, Owes, Released
    <2>6. h["decode"] = None
        BY <2>5 DEF NoneHeld, Pools
    <2>7. Owes(r)'
        BY <2>3, <2>4, <2>6 DEF Owes, Released
    <2>8. QED
        BY <2>2, <2>3, <2>7, OneHandlerMoves
<1>2. CASE SelectDecode(r)
    <2>1. PICK w \in Workers("decode") : Begin(r, "decode", w)
        BY <1>2 DEF SelectDecode
    <2> DEFINE h == [held[r] EXCEPT !["decode"] = w]
    <2>2. h \in [Pools -> Int] /\ held' = [held EXCEPT ![r] = h]
        BY <2>1, BeginHolds DEF Pools
    <2>3. pc[r] = "decode_wanted" /\ pc' = [pc EXCEPT ![r] = "decode_ready"] /\ mode' = mode
        BY <1>2 DEF SelectDecode, Moves
    <2>4. pc'[r] = "decode_ready" /\ held'[r] = h
        BY <2>2, <2>3 DEF OwesInv
    <2>5. held[r] \in [Pools -> Int] /\ (mode = "vllm" => held[r]["prefill"] = None)
        BY <2>3 DEF OwesInv, Owes
    <2>6. mode = "vllm" => h["prefill"] = None
        BY <2>5 DEF Pools
    <2>7. Owes(r)'
        BY <2>3, <2>4, <2>6 DEF Owes, Released
    <2>8. QED
        BY <2>2, <2>3, <2>7, OneHandlerMoves DEF Stages
<1>3. QED
    BY <1>1, <1>2

LEMMA FinishKeepsOwes ==
    ASSUME OwesInv, NEW r \in Requests,
           PrefillRefused(r) \/ PrefillDone(r) \/ DecodeHeaders(r)
    PROVE  OwesInv'
<1>1. CASE PrefillRefused(r)
    <2> DEFINE h == [p \in Pools |-> IF p \in {"prefill"} THEN None ELSE held[r][p]]
    <2>1. h \in [Pools -> Int] /\ held' = [held EXCEPT ![r] = h]
        BY <1>1, FinishHolds DEF PrefillRefused, Pools
    <2>2. pc[r] = "prefill_sent" /\ pc' = [pc EXCEPT ![r] = "refused"] /\ mode' = mode
        BY <1>1 DEF PrefillRefused, Moves
    <2>3. held[r]["decode"] = None
        BY <2>2 DEF OwesInv, Owes
    <2>4. h = NoneHeld
        BY <2>3 DEF NoneHeld, Pools
    <2>5. pc'[r] = "refused" /\ held'[r] = NoneHeld
        BY <2>1, <2>2, <2>4 DEF OwesInv
    <2>6. Owes(r)'
        BY <2>5 DEF Owes, Released
    <2>7. QED
        BY <2>1, <2>2, <2>6, OneHandlerMoves DEF Stages
<1>2. CASE PrefillDone(r)
    <2> DEFINE h == [p \in Pools |-> IF p \in {"prefill"} THEN None ELSE held[r][p]]
    <2>1. h \in [Pools -> Int] /\ held' = [held EXCEPT ![r] = h]
        BY <1>2, FinishHolds DEF PrefillDone, Pools
    <2>2. pc[r] = "prefill_body" /\ pc' = [pc EXCEPT ![r] = "decode_wanted"] /\ mode' = mode
        BY <1>2 DEF PrefillDone, Moves
    <2>3. h["decode"] = None /\ h["prefill"] = None
        BY <2>2 DEF OwesInv, Owes, Pools
    <2>4. pc'[r] = "decode_wanted" /\ held'[r] = h
        BY <2>1, <2>2 DEF OwesInv
    <2>5. Owes(r)'
        BY <2>2, <2>3, <2>4 DEF Owes, Released
    <2>6. QED
        BY <2>1, <2>2, <2>5, OneHandlerMoves DEF Stages
<1>3. CASE DecodeHeaders(r)
    <2> DEFINE done == IF mode = "vllm" THEN {"decode"} ELSE Pools
               h    == [p \in Pools |-> IF p \in done THEN None ELSE held[r][p]]
    <2>1. done \in SUBSET Pools /\ Finish(r, done)
        BY <1>3 DEF DecodeHeaders, Pools
    <2>2. h \in [Pools -> Int] /\ held' = [held EXCEPT ![r] = h]
        BY <2>1, FinishHolds
    <2>3. PICK to \in {"decode_body", "logprobs"} :
              pc[r] = "decode_sent" /\ pc' = [pc EXCEPT ![r] = to] /\ mode' = mode
        BY <1>3 DEF DecodeHeaders, Moves
    <2>4. mode = "vllm" => held[r]["prefill"] = None
        BY <2>3 DEF OwesInv, Owes
    <2>5. h = NoneHeld
        BY <2>4 DEF NoneHeld, Pools
    <2>6. pc'[r] = to /\ held'[r] = NoneHeld
        BY <2>2, <2>3, <2>5 DEF OwesInv
    <2>7. Owes(r)'
        BY <2>6 DEF Owes, Released
    <2>8. QED
        BY <2>2, <2>3, <2>7, OneHandlerMoves DEF Stages
<1>4. QED
    BY <1>1, <1>2, <1>3

LEMMA OwesStep == OwesInv /\ [Next]_vars => OwesInv'
<1> SUFFICES ASSUME OwesInv, [Next]_vars PROVE OwesInv'
    OBVIOUS
<1>1. ASSUME NEW r \in Requests,
             \/ NoPrefillWorkers(r) \/ NoDecodeWorkers(r) \/ RefusalRead(r)
             \/ PrefillBodyFails(r) \/ SendFails(r) \/ Respond(r)
             \/ BuildFails(r) \/ PolicyPanics(r) \/ ClientGone(r)
      PROVE  OwesInv'
    <2>1. Ends(r)
        BY <1>1 DEF NoPrefillWorkers, NoDecodeWorkers, RefusalRead, PrefillBodyFails, SendFails,
                    Respond, BuildFails, PolicyPanics, ClientGone, FailsAt, EndsAt
    <2>2. QED
        BY <2>1, EndsKeepsOwes
<1>2. ASSUME NEW r \in Requests,
             Arrive(r) \/ SendPrefill(r) \/ PrefillHeaders(r) \/ SendDecode(r) \/ LogprobsRead(r)
      PROVE  OwesInv'
    <2>1. CASE Arrive(r) \/ LogprobsRead(r)
        BY <2>1, MoveKeepsOwes DEF Arrive, LogprobsRead, Stages, Released
    <2>2. CASE SendPrefill(r) \/ PrefillHeaders(r)
        BY <2>2, MoveKeepsOwes DEF SendPrefill, PrefillHeaders, Stages
    <2>3. CASE SendDecode(r)
        BY <2>3, MoveKeepsOwes DEF SendDecode, Stages
    <2>4. QED
        BY <1>2, <2>1, <2>2, <2>3
<1>3. CASE UNCHANGED <<mode, pc, held>>
    BY <1>3 DEF OwesInv, Owes
<1>4. QED
    BY <1>1, <1>2, <1>3, BeginKeepsOwes, FinishKeepsOwes
       DEF Next, Router, Answered, HealthChanges, vars

\* Once the handler has the response or the refusal it will pass on, nothing
\* that follows can leak a counter: in both modes, whatever fails.
THEOREM NothingOwedAfterwards == Spec => []ReleasedBeforeResponding
<1>1. Init => OwesInv
    BY DEF Init, OwesInv, Owes, NoneHeld, None, Stages
<1>2. OwesInv => ReleasedBeforeResponding
    BY DEF OwesInv, Owes, ReleasedBeforeResponding, Released
<1>3. QED
    BY <1>1, <1>2, OwesStep, PTL DEF Spec

-----------------------------------------------------------------------------
(* Types.                                                                  *)

LEMMA UsizeType == Usize \in Nat \ {0}
BY UsizeAssumption, RequestsAssumption, FS_CardinalityType

\* A counter stays in its machine range, also when it wraps.
LEMMA CounterRange ==
    ASSUME NEW a \in 0 .. Usize-1
    PROVE  (a + 1) % Usize \in 0 .. Usize-1 /\ (a - 1) % Usize \in 0 .. Usize-1
BY UsizeType

LEMMA AllAlike ==
    ASSUME NEW S, NEW c \in S
    PROVE  [p \in Pools |-> [w \in Workers(p) |-> c]] \in PerWorker(S)
<1> DEFINE f == [p \in Pools |-> [w \in Workers(p) |-> c]]
<1>1. \A p \in Pools : f[p] \in [Workers(p) -> S]
    OBVIOUS
<1>2. f \in [Pools -> UNION {[Workers(p) -> S] : p \in Pools}]
    BY <1>1
<1>3. QED
    BY <1>1, <1>2 DEF PerWorker

\* Setting one entry keeps the type.
LEMMA OneSet ==
    ASSUME NEW S, NEW f \in PerWorker(S), NEW p \in Pools, NEW w \in Workers(p), NEW x \in S
    PROVE  [f EXCEPT ![p][w] = x] \in PerWorker(S)
<1> DEFINE g == [f EXCEPT ![p][w] = x]
<1>1. \A q \in Pools : f[q] \in [Workers(q) -> S]
    BY DEF PerWorker
<1>2. DOMAIN f = Pools
    BY DEF PerWorker
<1>3. \A q \in Pools : g[q] = IF q = p THEN [f[p] EXCEPT ![w] = x] ELSE f[q]
    BY <1>2
<1>4. [f[p] EXCEPT ![w] = x] \in [Workers(p) -> S]
    BY <1>1
<1>5. g = [q \in Pools |-> g[q]]
    BY <1>2
<1> HIDE DEF g
<1>6. \A q \in Pools : g[q] \in [Workers(q) -> S]
    BY <1>1, <1>3, <1>4
<1>7. g \in [Pools -> UNION {[Workers(q) -> S] : q \in Pools}]
    BY <1>5, <1>6
<1>8. QED
    BY <1>6, <1>7 DEF PerWorker, g

\* What the three operations on counters do to each of them.
LEMMA BeginCounts ==
    ASSUME TypeOK, NEW r, NEW p \in Pools, NEW w \in Workers(p), Begin(r, p, w)
    PROVE  /\ active' \in PerWorker(0 .. Usize-1)
           /\ \A q \in Pools : \A v \in Workers(q) :
                 active'[q][v] = IF q = p /\ v = w THEN (active[q][v] + 1) % Usize ELSE active[q][v]
<1> DEFINE x == (active[p][w] + 1) % Usize
<1>1. active \in PerWorker(0 .. Usize-1)
    BY DEF TypeOK
<1>2. active \in [Pools -> UNION {[Workers(q) -> 0 .. Usize-1] : q \in Pools}]
      /\ active[p] \in [Workers(p) -> 0 .. Usize-1]
    BY <1>1 DEF PerWorker
<1>3. x \in 0 .. Usize-1
    BY <1>2, CounterRange
<1>4. active' = [active EXCEPT ![p][w] = x]
    BY <1>2 DEF Begin
<1> HIDE DEF x
<1>5. /\ [active EXCEPT ![p][w] = x] \in PerWorker(0 .. Usize-1)
      /\ \A q \in Pools : \A v \in Workers(q) :
            [active EXCEPT ![p][w] = x][q][v] = IF q = p /\ v = w THEN x ELSE active[q][v]
    BY <1>1, <1>3 DEF PerWorker
<1>6. QED
    BY <1>4, <1>5 DEF x

LEMMA FinishCounts ==
    ASSUME TypeOK, NEW r \in Requests, NEW done \in SUBSET Pools, Finish(r, done)
    PROVE  /\ active' \in PerWorker(0 .. Usize-1)
           /\ \A q \in Pools : \A v \in Workers(q) :
                 active'[q][v] = IF q \in done /\ held[r][q] = v
                                 THEN (active[q][v] - 1) % Usize ELSE active[q][v]
<1>1. ASSUME NEW q \in Pools
      PROVE  /\ active'[q] \in [Workers(q) -> 0 .. Usize-1]
             /\ \A v \in Workers(q) :
                   active'[q][v] = IF q \in done /\ held[r][q] = v
                                   THEN (active[q][v] - 1) % Usize ELSE active[q][v]
    <2>1. active[q] \in [Workers(q) -> 0 .. Usize-1]
        BY DEF TypeOK, PerWorker
    <2>2. active'[q] = IF q \in done THEN [active[q] EXCEPT ![held[r][q]] = (active[q][held[r][q]] - 1) % Usize]
                                     ELSE active[q]
        BY <2>1 DEF Finish
    <2>3. ASSUME NEW v \in Workers(q)
          PROVE  (active[q][v] - 1) % Usize \in 0 .. Usize-1
        BY <2>1, CounterRange
    <2>4. QED
        BY <2>1, <2>2, <2>3, ZenonT(30)
<1>2. active' = [q \in Pools |-> active'[q]]
    BY DEF Finish
<1>3. active' \in [Pools -> UNION {[Workers(q) -> 0 .. Usize-1] : q \in Pools}]
    BY <1>1, <1>2
<1>4. QED
    BY <1>1, <1>3 DEF PerWorker

\* A step of the pipeline, by what it does to what is held: it ends a handler,
\* charges a worker, finishes some, or leaves counters and holdings alone.
LEMMA StepKinds ==
    ASSUME [Next]_vars
    PROVE  \/ \E r \in Requests : \/ Ends(r)
                                  \/ SelectPrefill(r) \/ SelectDecode(r)
                                  \/ PrefillRefused(r) \/ PrefillDone(r) \/ DecodeHeaders(r)
           \/ \E p \in Pools : \E w \in Workers(p) : HealthChanges(p, w)
           \/ UNCHANGED <<mode, healthy, active, held>>
<1>1. ASSUME NEW r \in Requests,
             \/ NoPrefillWorkers(r) \/ NoDecodeWorkers(r) \/ RefusalRead(r)
             \/ PrefillBodyFails(r) \/ SendFails(r) \/ Respond(r)
             \/ BuildFails(r) \/ PolicyPanics(r) \/ ClientGone(r)
      PROVE  Ends(r)
    BY <1>1 DEF NoPrefillWorkers, NoDecodeWorkers, RefusalRead, PrefillBodyFails, SendFails,
                Respond, BuildFails, PolicyPanics, ClientGone, FailsAt, EndsAt
<1>2. ASSUME NEW r \in Requests,
             Arrive(r) \/ SendPrefill(r) \/ PrefillHeaders(r) \/ SendDecode(r) \/ LogprobsRead(r)
      PROVE  UNCHANGED <<mode, healthy, active, held>>
    BY <1>2 DEF Arrive, SendPrefill, PrefillHeaders, SendDecode, LogprobsRead
<1>3. CASE UNCHANGED vars
    BY <1>3 DEF vars
<1>4. QED
    BY <1>1, <1>2, <1>3 DEF Next, Router, Answered

\* A handler's step keeps every other slot's place and what it holds.
LEMMA TypedStep == TypeOK /\ OwesInv /\ [Next]_vars => TypeOK'
<1> SUFFICES ASSUME TypeOK, OwesInv, [Next]_vars PROVE TypeOK'
    OBVIOUS
<1> DEFINE HeldOK == \A r \in Requests : /\ DOMAIN held[r] = Pools
                                         /\ \A p \in Pools : held[r][p] \in Workers(p) \cup {None}
<1>1. pc' \in [Requests -> Stages] /\ OwesInv'
    BY OwesStep DEF OwesInv
<1>2. ASSUME NEW r \in Requests, Ends(r) PROVE TypeOK'
    <2>1. mode' = mode /\ healthy' = healthy /\ active' = active
        BY <1>2 DEF Ends
    <2>2. HeldOK'
        BY <1>2 DEF Ends, TypeOK, OwesInv, NoneHeld
    <2>3. QED
        BY <1>1, <2>1, <2>2 DEF TypeOK
<1>3. ASSUME NEW r \in Requests, SelectPrefill(r) \/ SelectDecode(r) PROVE TypeOK'
    <2>1. \E p \in Pools : \E w \in Workers(p) : Begin(r, p, w)
        BY <1>3 DEF SelectPrefill, SelectDecode, Pools
    <2>2. PICK p \in Pools : \E w \in Workers(p) : Begin(r, p, w)
        BY <2>1
    <2>3. PICK w \in Workers(p) : Begin(r, p, w)
        BY <2>2
    <2>4. mode' = mode /\ healthy' = healthy
        BY <1>3 DEF SelectPrefill, SelectDecode
    <2>5. active' \in PerWorker(0 .. Usize-1)
        BY <2>3, BeginCounts
    <2>6. held' = [held EXCEPT ![r] = [held[r] EXCEPT ![p] = w]]
        BY <2>3 DEF Begin
    <2>7. HeldOK'
        BY <2>6 DEF TypeOK, OwesInv
    <2>8. QED
        BY <1>1, <2>4, <2>5, <2>7 DEF TypeOK
<1>4. ASSUME NEW r \in Requests, PrefillRefused(r) \/ PrefillDone(r) \/ DecodeHeaders(r) PROVE TypeOK'
    <2>1. PICK done \in SUBSET Pools : Finish(r, done)
        BY <1>4 DEF PrefillRefused, PrefillDone, DecodeHeaders, Pools
    <2>2. mode' = mode /\ healthy' = healthy
        BY <1>4 DEF PrefillRefused, PrefillDone, DecodeHeaders
    <2>3. active' \in PerWorker(0 .. Usize-1)
        BY <2>1, FinishCounts
    <2>4. HeldOK'
        BY <2>1 DEF Finish, TypeOK, OwesInv
    <2>5. QED
        BY <1>1, <2>2, <2>3, <2>4 DEF TypeOK
<1>5. CASE UNCHANGED <<mode, healthy, active, held>>
    BY <1>1, <1>5 DEF TypeOK
<1>6. ASSUME NEW p \in Pools, NEW w \in Workers(p), HealthChanges(p, w) PROVE TypeOK'
    <2> DEFINE b == ~healthy[p][w]
    <2>1. healthy' = [healthy EXCEPT ![p][w] = b] /\ b \in BOOLEAN
        BY <1>6 DEF HealthChanges
    <2> HIDE DEF b
    <2>2. [healthy EXCEPT ![p][w] = b] \in PerWorker(BOOLEAN)
        BY <1>6, <2>1, OneSet DEF TypeOK
    <2>3. QED
        BY <1>1, <1>6, <2>1, <2>2 DEF HealthChanges, TypeOK
<1>7. QED
    BY <1>2, <1>3, <1>4, <1>5, <1>6, StepKinds

\* Every variable keeps its type: both modes charge and finish workers of the pool
\* they say, and the counters stay in the range of a usize, also after a leak.
THEOREM TypeCorrect == Spec => []TypeOK
<1>1. Init => OwesInv
    BY DEF Init, OwesInv, Owes, NoneHeld, None, Stages
<1>2. Init => TypeOK
    <2>1. 0 \in 0 .. Usize-1
        BY UsizeType
    <2>2. ASSUME Init
          PROVE  healthy \in PerWorker(BOOLEAN) /\ active \in PerWorker(0 .. Usize-1)
        <3>1. [p \in Pools |-> [w \in Workers(p) |-> TRUE]] \in PerWorker(BOOLEAN)
            BY AllAlike, Zenon
        <3>2. [p \in Pools |-> [w \in Workers(p) |-> 0]] \in PerWorker(0 .. Usize-1)
            BY <2>1, AllAlike
        <3>3. QED
            BY <2>2, <3>1, <3>2 DEF Init
    <2>3. QED
        BY <2>2 DEF Init, TypeOK, NoneHeld, Stages
<1>3. QED
    BY <1>1, <1>2, OwesStep, TypedStep, PTL DEF Spec

-----------------------------------------------------------------------------
(* The counters.                                                           *)

LEMMA Wraps ==
    /\ \A x \in (-Usize) .. (-1) : x % Usize = x + Usize
    /\ \A x \in 0 .. Usize-1 : x % Usize = x
    /\ \A x \in Usize .. 2*Usize-1 : x % Usize = x - Usize
BY UsizeType

\* The difference between a counter a and a number of holders c, modulo Usize:
\* one more of both or one less of both leaves it, one holder less adds one.
LEMMA Differences ==
    ASSUME NEW a \in 0 .. Usize-1, NEW c \in 0 .. Usize-2
    PROVE  /\ (((a + 1) % Usize) - (c + 1)) % Usize = (a - c) % Usize
           /\ (((a - 1) % Usize) - c) % Usize = (a - (c + 1)) % Usize
           /\ (a - c) % Usize = (((a - (c + 1)) % Usize) + 1) % Usize
BY UsizeType, Wraps

\* There are fewer requests than values of a usize, so a set of them and one
\* more slot outside it do not wrap.
LEMMA OneMore ==
    ASSUME NEW S \in SUBSET Requests, NEW r \in Requests \ S
    PROVE  /\ Cardinality(S) \in 0 .. Usize-2
           /\ Cardinality(S \cup {r}) = Cardinality(S) + 1
<1>1. S \cup {r} \subseteq Requests
    OBVIOUS
<1>2. IsFiniteSet(S) /\ Cardinality(S) \in Nat
    BY RequestsAssumption, FS_Subset, FS_CardinalityType
<1>3. Cardinality(S \cup {r}) = Cardinality(S) + 1
    BY <1>2, FS_AddElement
<1>4. Cardinality(S \cup {r}) <= Cardinality(Requests) /\ Cardinality(Requests) \in Nat
    BY <1>1, RequestsAssumption, FS_Subset, FS_CardinalityType
<1>5. QED
    BY <1>2, <1>3, <1>4, UsizeAssumption

\* The drift of a counter a whose worker has the holders S.
DriftOf(S, a) == (a - Cardinality(S)) % Usize

LEMMA HolderMoves ==
    ASSUME NEW S \in SUBSET Requests, NEW r \in Requests, NEW a \in 0 .. Usize-1
    PROVE  /\ r \notin S => DriftOf(S \cup {r}, (a + 1) % Usize) = DriftOf(S, a)
           /\ r \in S => DriftOf(S \ {r}, (a - 1) % Usize) = DriftOf(S, a)
           /\ r \in S => DriftOf(S \ {r}, a) = (DriftOf(S, a) + 1) % Usize
<1>1. CASE r \notin S
    <2>1. Cardinality(S) \in 0 .. Usize-2 /\ Cardinality(S \cup {r}) = Cardinality(S) + 1
        BY <1>1, OneMore
    <2>2. QED
        BY <1>1, <2>1, Differences DEF DriftOf
<1>2. CASE r \in S
    <2> DEFINE T == S \ {r}
               c == Cardinality(T)
    <2>1. T \cup {r} = S
        BY <1>2
    <2>2. c \in 0 .. Usize-2 /\ Cardinality(S) = c + 1
        BY <2>1, OneMore
    <2> HIDE DEF c
    <2>3. /\ (((a - 1) % Usize) - c) % Usize = (a - (c + 1)) % Usize
          /\ (a - c) % Usize = (((a - (c + 1)) % Usize) + 1) % Usize
        BY <2>2, Differences
    <2>4. /\ DriftOf(T, (a - 1) % Usize) = DriftOf(S, a)
          /\ DriftOf(T, a) = (DriftOf(S, a) + 1) % Usize
        BY <2>2, <2>3 DEF DriftOf, c
    <2>5. QED
        BY <1>2, <2>4
<1>3. QED
    BY <1>1, <1>2

\* Who has been charged and is not finished is inside the pool's window.
LEMMA OwesInWindow ==
    ASSUME TypeOK, OwesInv, NEW r \in Requests, NEW p \in Pools, held[r][p] # None
    PROVE  pc[r] \in Window(p)
<1>1. mode \in {"vllm", "sglang"} /\ pc[r] \in Stages /\ Owes(r)
    BY ModesAssumption DEF TypeOK, OwesInv
<1>2. pc[r] \notin Released
    BY <1>1 DEF Owes, NoneHeld
<1>3. CASE p = "decode"
    BY <1>1, <1>2, <1>3 DEF Owes, Released, Stages, Window
<1>4. CASE p = "prefill"
    BY <1>1, <1>2, <1>4 DEF Owes, Released, Stages, Window
<1>5. QED
    BY <1>3, <1>4 DEF Pools

\* What one step may do to the drift of one counter.
Lost(p, w) == \E r \in Requests : held[r][p] = w /\ pc[r] \in Window(p) /\ pc'[r] = "idle"

LEMMA DriftStep ==
    ASSUME TypeOK, OwesInv, [Next]_vars, NEW q \in Pools, NEW v \in Workers(q)
    PROVE  \/ Drift(q, v)' = Drift(q, v)
           \/ Drift(q, v)' = (Drift(q, v) + 1) % Usize /\ Lost(q, v)
<1> DEFINE S == Holders(q, v)
           a == active[q][v]
<1>1. S \in SUBSET Requests /\ a \in 0 .. Usize-1
    <2>1. active[q] \in [Workers(q) -> 0 .. Usize-1]
        BY DEF TypeOK, PerWorker
    <2>2. QED
        BY <2>1 DEF Holders
<1>2. v # None
    BY SizeAssumption DEF Workers, None, Pools
<1>3. Drift(q, v) = DriftOf(S, a) /\ Drift(q, v)' = DriftOf(S', a')
    BY DEF Drift, DriftOf
<1>4. ASSUME NEW r \in Requests, Ends(r)
      PROVE  \/ DriftOf(S', a') = DriftOf(S, a)
             \/ DriftOf(S', a') = (DriftOf(S, a) + 1) % Usize /\ Lost(q, v)
    <2>1. S' = S \ {r} /\ a' = a
        BY <1>2, <1>4 DEF Ends, OwesInv, NoneHeld, Holders
    <2>2. CASE r \in S
        <3>1. held[r][q] = v /\ pc[r] \in Window(q)
            BY <1>2, <2>2, OwesInWindow DEF Holders
        <3>2. pc'[r] = "idle"
            BY <1>4 DEF Ends, OwesInv
        <3>3. DriftOf(S \ {r}, a) = (DriftOf(S, a) + 1) % Usize
            BY <1>1, <2>2, HolderMoves
        <3>4. QED
            BY <2>1, <3>1, <3>2, <3>3 DEF Lost
    <2>3. CASE r \notin S
        <3>1. S' = S
            BY <2>1, <2>3
        <3>2. QED
            BY <2>1, <3>1
    <2>4. QED
        BY <2>2, <2>3
<1>5. ASSUME NEW r \in Requests, SelectPrefill(r) \/ SelectDecode(r)
      PROVE  DriftOf(S', a') = DriftOf(S, a)
    <2>1. \E p \in Pools : (\E w \in Workers(p) : Begin(r, p, w)) /\ held[r][p] = None
        <3>1. CASE SelectPrefill(r)
            BY <3>1 DEF SelectPrefill, Moves, OwesInv, Owes, Released, NoneHeld, Pools
        <3>2. CASE SelectDecode(r)
            BY <3>2 DEF SelectDecode, Moves, OwesInv, Owes, Pools
        <3>3. QED
            BY <1>5, <3>1, <3>2
    <2>2. PICK p \in Pools : (\E w \in Workers(p) : Begin(r, p, w)) /\ held[r][p] = None
        BY <2>1
    <2>3. PICK w \in Workers(p) : Begin(r, p, w)
        BY <2>2
    <2>4. a' = IF q = p /\ v = w THEN (a + 1) % Usize ELSE a
        BY <2>3, BeginCounts
    <2>5. \A s \in Requests : held'[s][q] = IF s = r /\ q = p THEN w ELSE held[s][q]
        BY <2>3 DEF Begin, OwesInv
    <2>6. CASE q = p /\ v = w
        <3>1. S' = S \cup {r} /\ r \notin S
            BY <1>2, <2>2, <2>5, <2>6 DEF Holders
        <3>2. DriftOf(S \cup {r}, (a + 1) % Usize) = DriftOf(S, a)
            BY <1>1, <3>1, HolderMoves
        <3>3. QED
            BY <2>4, <2>6, <3>1, <3>2
    <2>7. CASE ~(q = p /\ v = w)
        <3>1. S' = S
            BY <1>2, <2>2, <2>5, <2>7 DEF Holders
        <3>2. QED
            BY <2>4, <2>7, <3>1
    <2>8. QED
        BY <2>6, <2>7
<1>6. ASSUME NEW r \in Requests, PrefillRefused(r) \/ PrefillDone(r) \/ DecodeHeaders(r)
      PROVE  DriftOf(S', a') = DriftOf(S, a)
    <2>1. PICK done \in SUBSET Pools : Finish(r, done)
        BY <1>6 DEF PrefillRefused, PrefillDone, DecodeHeaders, Pools
    <2>2. a' = IF q \in done /\ r \in S THEN (a - 1) % Usize ELSE a
        BY <2>1, FinishCounts DEF Holders
    <2>3. \A s \in Requests : held'[s][q] = IF s = r /\ q \in done THEN None ELSE held[s][q]
        BY <2>1 DEF Finish, OwesInv
    <2>4. CASE q \in done /\ r \in S
        <3>1. S' = S \ {r}
            BY <1>2, <2>3, <2>4 DEF Holders
        <3>2. DriftOf(S \ {r}, (a - 1) % Usize) = DriftOf(S, a)
            BY <1>1, <2>4, HolderMoves
        <3>3. QED
            BY <2>2, <2>4, <3>1, <3>2
    <2>5. CASE ~(q \in done /\ r \in S)
        <3>1. S' = S
            BY <1>2, <2>3, <2>5 DEF Holders
        <3>2. QED
            BY <2>2, <2>5, <3>1
    <2>6. QED
        BY <2>4, <2>5
<1>7. ASSUME \/ UNCHANGED <<active, held>>
             \/ \E p \in Pools : \E w \in Workers(p) : HealthChanges(p, w)
      PROVE  DriftOf(S', a') = DriftOf(S, a)
    BY <1>7 DEF Holders, HealthChanges
<1>8. QED
    BY <1>3, <1>4, <1>5, <1>6, <1>7, StepKinds

\* A counter parts from the requests under way only by the one charge of a
\* handler that ends inside that pool's window: build, send, body and client
\* failures, panics and, in SGLang mode, a missing decode worker.  No other exit
\* loses a charge, and nothing is finished twice, for another worker or in the
\* other pool, in both modes and under any interleaving.
THEOREM CountersDriftOnlyInWindow == Spec => DriftsOnlyInWindow
<1>1. Init => OwesInv
    BY DEF Init, OwesInv, Owes, NoneHeld, None, Stages
<1>2. TypeOK /\ OwesInv /\ [Next]_vars =>
        [\A p \in Pools : \A w \in Workers(p) :
            Drift(p, w)' # Drift(p, w) =>
                /\ Drift(p, w)' = (Drift(p, w) + 1) % Usize
                /\ \E r \in Requests :
                       held[r][p] = w /\ pc[r] \in Window(p) /\ pc'[r] = "idle"]_vars
    BY DriftStep DEF Lost
<1>3. QED
    BY <1>1, <1>2, OwesStep, TypeCorrect, PTL DEF Spec, DriftsOnlyInWindow

=============================================================================
