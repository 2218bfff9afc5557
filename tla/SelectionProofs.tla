-------------------------- MODULE SelectionProofs --------------------------
(***************************************************************************)
(* The selections read by read, for every pool size, threshold, width of a *)
(* usize and bound on the counters.                                        *)
(*                                                                         *)
(* What RoundRobin has dealt out since the counter last wrapped is fixed   *)
(* by the counter: q+1 answers for the positions before counter % n and q  *)
(* for the others.  What a complete scan answers is a fact about the loops *)
(* of the code, proved by induction on their iterations from the types of  *)
(* what was read; no order of the reads and changes is excluded.           *)
(***************************************************************************)
EXTENDS Selection, PoliciesProofs, SequenceTheorems

-----------------------------------------------------------------------------
(* Types.                                                                  *)

\* Every scan reads counters of the pool.
LEMMA OrderInPool == ASSUME TypeOK, busy, policy \in Scans PROVE Order \in Seq(Pool)
<1>1. \A m \in 0 .. Size : UpTo(m) \in Seq(Pool)
    BY SizeAssumption DEF UpTo, Pool
<1>2. n \in 0 .. Size /\ Size \in 0 .. Size
    BY SizeAssumption DEF TypeOK
<1>3. << >> \in Seq(Pool)
    OBVIOUS
<1>4. CASE policy = "least_loaded"
    BY <1>1, <1>2, <1>4 DEF Order
<1>5. CASE policy = "load_cache_aware"
    BY <1>1, <1>2, <1>3, <1>5 DEF Order
<1>6. CASE policy = "prefix_affinity"
    <2>1. one \in Pool
        BY <1>6, SizeAssumption DEF TypeOK, Positions, Pool
    <2>2. <<one>> \in Seq(Pool)
        BY <2>1
    <2>3. <<one>> \o UpTo(Size) \o UpTo(n) \in Seq(Pool)
        BY <1>1, <1>2, <2>2
    <2>4. QED
        BY <1>3, <1>6, <2>2, <2>3 DEF Order
<1>7. QED
    BY <1>4, <1>5, <1>6 DEF Scans

\* The part of TypeOK about scans, and that RoundRobin has none.
ScanOK ==
    /\ active \in [Pool -> 0 .. MaxActive]
    /\ busy \in BOOLEAN
    /\ one \in 0 .. Size /\ two \in 0 .. Size
    /\ busy /\ policy # "load_cache_aware" => one \in Positions(n)
    /\ vals \in Seq(0 .. MaxActive)
    /\ busy => policy \in Scans

\* Every step of a scan, and every change of a counter, keeps those types.
LEMMA ScanStep ==
    ASSUME TypeOK, ScanOK, UNCHANGED <<policy, n>>,
           (\E i \in Pool : CounterChanges(i)) \/ Begin \/ Read \/ End
    PROVE  ScanOK'
<1>1. ASSUME NEW i \in Pool, CounterChanges(i) PROVE ScanOK'
    <2>1. active' \in [Pool -> 0 .. MaxActive]
        <3>1. PICK x \in {active[i] + 1, active[i] - 1} : active' = [active EXCEPT ![i] = x]
            BY <1>1 DEF CounterChanges
        <3>2. x \in 0 .. MaxActive
            BY <1>1, <3>1 DEF CounterChanges, ScanOK
        <3>3. QED
            BY <3>1, <3>2 DEF ScanOK
    <2>2. QED
        BY <1>1, <2>1 DEF CounterChanges, scanVars, ScanOK
<1>2. CASE Begin
    <2>1. one' \in 0 .. Size /\ two' \in 0 .. Size
          /\ (policy # "load_cache_aware" => one' \in Positions(n))
        <3>1. n \in 1 .. Size /\ Size \in Nat /\ policy \in Scans
            BY <1>2, SizeAssumption DEF TypeOK, Begin
        <3>2. CASE policy = "load_cache_aware"
            BY <1>2, <3>1, <3>2 DEF Begin, Pool, None
        <3>3. CASE policy \in {"least_loaded", "prefix_affinity"}
            <4>1. one' \in Positions(n) /\ two' = Size
                BY <1>2, <3>3 DEF Begin, None
            <4>2. QED
                BY <3>1, <4>1 DEF Positions
        <3>4. QED
            BY <3>1, <3>2, <3>3 DEF Scans
    <2>2. QED
        BY <1>2, <2>1 DEF Begin, ScanOK
<1>3. CASE Read
    <2>1. Order \in Seq(Pool) /\ Len(vals) + 1 \in 1 .. Len(Order)
        BY <1>3, OrderInPool DEF Read, ScanOK
    <2>2. Order[Len(vals) + 1] \in Pool
        BY <2>1
    <2>3. active[Order[Len(vals) + 1]] \in 0 .. MaxActive
        BY <2>2 DEF ScanOK
    <2>4. vals' \in Seq(0 .. MaxActive)
        BY <1>3, <2>3 DEF Read, ScanOK
    <2>5. QED
        BY <1>3, <2>4 DEF Read, ScanOK
<1>4. CASE End
    <2>1. busy' = FALSE /\ one' = Size /\ two' = Size /\ vals' = << >> /\ active' = active
        BY <1>4 DEF End, None
    <2>2. one' \in 0 .. Size /\ two' \in 0 .. Size /\ vals' \in Seq(0 .. MaxActive)
        BY <2>1, SizeAssumption
    <2>3. QED
        BY <2>1, <2>2 DEF ScanOK
<1>5. QED
    BY <1>1, <1>2, <1>3, <1>4

-----------------------------------------------------------------------------
(* RoundRobin.                                                             *)

\* The remainder goes round.
LEMMA NextRemainder ==
    ASSUME NEW m \in Nat \ {0}, NEW c \in Nat
    PROVE  c % m \in 0 .. m-1 /\ (c+1) % m = IF c % m = m-1 THEN 0 ELSE (c % m) + 1
<1> DEFINE r == c % m
           s == (c+1) % m
           a == c \div m
           b == (c+1) \div m
           d == b - a
<1>1. c = m * a + r /\ r \in 0 .. m-1 /\ a \in Int
    OBVIOUS
<1>2. c+1 = m * b + s /\ s \in 0 .. m-1 /\ b \in Int
    OBVIOUS
<1> HIDE DEF r, s, a, b
<1>3. r + 1 - s = m * d /\ d \in Int
    BY <1>1, <1>2
<1> HIDE DEF d
<1>4. d \in {0, 1}
    <2>1. d >= 2 => m * d >= 2 * m
        BY <1>3
    <2>2. d <= -1 => m * d <= -m
        BY <1>3
    <2>3. QED
        BY <1>1, <1>2, <1>3, <2>1, <2>2
<1>5. CASE d = 0
    <2>1. m * d = 0
        BY <1>5
    <2>2. QED
        BY <1>1, <1>2, <1>3, <2>1 DEF r, s
<1>6. CASE d = 1
    <2>1. m * d = m
        BY <1>6
    <2>2. QED
        BY <1>1, <1>2, <1>3, <2>1 DEF r, s
<1>7. QED
    BY <1>4, <1>5, <1>6

\* After c answers: q rounds, and the positions before c % n once more.
Rounds(g, c, q) ==
    \A i \in Positions(n) : g[i] = (IF i < c % n THEN q + 1 ELSE q) /\ g[i] <= c

\* The answers given are those of the counter's value, or of a whole cycle of the
\* counter when it has just wrapped.
DealtOK ==
    /\ counter \in 0 .. Usize-1
    /\ given \in [Positions(n) -> Nat]
    /\ \E c \in 0 .. Usize : \E q \in Nat :
          counter = (IF c = Usize THEN 0 ELSE c) /\ Rounds(given, c, q)

\* One more answer is dealt in turn.
LEMMA DealOne ==
    ASSUME TypeOK, NEW g \in [Positions(n) -> Nat], NEW q \in Nat, Rounds(g, counter, q)
    PROVE  /\ Counts(g) \in [Positions(n) -> Nat]
           /\ \E p \in Nat : Rounds(Counts(g), counter + 1, p)
<1> DEFINE r == counter % n
           h == Counts(g)
<1>1. counter \in Nat /\ n \in Nat \ {0}
    BY BoundsAssumption, SizeAssumption DEF TypeOK
<1>2. r \in 0 .. n-1 /\ (counter + 1) % n = IF r = n-1 THEN 0 ELSE r + 1
    BY <1>1, NextRemainder
<1>3. /\ h \in [Positions(n) -> Nat]
      /\ \A i \in Positions(n) : h[i] = IF i = r THEN g[i] + 1 ELSE g[i]
    BY DEF Counts
<1>4. \A i \in Positions(n) : g[i] = (IF i < r THEN q + 1 ELSE q) /\ g[i] <= counter
    BY DEF Rounds
<1> HIDE DEF r, h
<1>5. CASE r = n-1
    <2>1. ASSUME NEW i \in Positions(n)
          PROVE  h[i] = (IF i < 0 THEN (q + 1) + 1 ELSE q + 1) /\ h[i] <= counter + 1
        <3>1. i \in 0 .. n-1 /\ g[i] = (IF i < r THEN q + 1 ELSE q) /\ g[i] <= counter
            BY <1>4, <2>1 DEF Positions
        <3>2. h[i] = IF i = r THEN g[i] + 1 ELSE g[i]
            BY <1>3, <2>1
        <3>3. QED
            BY <1>1, <1>2, <1>5, <3>1, <3>2
    <2>2. Rounds(h, counter + 1, q + 1)
        BY <1>2, <1>5, <2>1 DEF Rounds
    <2>3. QED
        BY <1>3, <2>2 DEF h
<1>6. CASE r # n-1
    <2>1. ASSUME NEW i \in Positions(n)
          PROVE  h[i] = (IF i < r + 1 THEN q + 1 ELSE q) /\ h[i] <= counter + 1
        <3>1. i \in 0 .. n-1 /\ g[i] = (IF i < r THEN q + 1 ELSE q) /\ g[i] <= counter
            BY <1>4, <2>1 DEF Positions
        <3>2. h[i] = IF i = r THEN g[i] + 1 ELSE g[i]
            BY <1>3, <2>1
        <3>3. QED
            BY <1>1, <1>2, <1>6, <3>1, <3>2
    <2>2. Rounds(h, counter + 1, q)
        BY <1>2, <1>6, <2>1 DEF Rounds
    <2>3. QED
        BY <1>3, <2>2 DEF h
<1>7. QED
    BY <1>5, <1>6

\* Nothing answered is q = 0 rounds.
LEMMA NothingDealt ==
    ASSUME TypeOK
    PROVE  /\ [i \in Positions(n) |-> 0] \in [Positions(n) -> Nat]
           /\ Rounds([i \in Positions(n) |-> 0], 0, 0)
<1>1. 0 % n = 0
    BY SizeAssumption DEF TypeOK
<1>2. QED
    BY <1>1 DEF Rounds, Positions

\* fetch_add deals one answer and advances the counter to match.
LEMMA DealtStep == ASSUME TypeOK, DealtOK, FetchAdd PROVE DealtOK'
<1>1. Usize \in Nat \ {0} /\ n' = n
    BY BoundsAssumption DEF FetchAdd
<1>2. SinceWrap \in [Positions(n) -> Nat] /\ \E q \in Nat : Rounds(SinceWrap, counter, q)
    <2>1. CASE counter = 0
        BY <2>1, NothingDealt DEF SinceWrap
    <2>2. CASE counter # 0
        BY <2>2 DEF SinceWrap, DealtOK
    <2>3. QED
        BY <2>1, <2>2
<1>3. PICK p \in Nat : Rounds(given', counter + 1, p)
    BY <1>2, DealOne DEF FetchAdd
<1>4. given' \in [Positions(n) -> Nat]
    BY <1>2, DealOne DEF FetchAdd
<1>5. counter + 1 \in 0 .. Usize /\ counter' = IF counter + 1 = Usize THEN 0 ELSE counter + 1
    <2>1. counter \in 0 .. Usize-1 /\ counter' = (counter + 1) % Usize
        BY DEF DealtOK, FetchAdd
    <2>2. QED
        BY <1>1, <2>1
<1>6. counter' \in 0 .. Usize-1
    BY <1>1, <1>5
<1>7. QED
    BY <1>1, <1>3, <1>4, <1>5, <1>6 DEF DealtOK, Rounds

IInv == TypeOK /\ ScanOK /\ DealtOK

LEMMA InitOK == Init => IInv
<1> SUFFICES ASSUME Init PROVE IInv
    OBVIOUS
<1>1. n \in 1 .. Size /\ Size \in Nat \ {0} /\ Usize \in Nat \ {0} /\ MaxActive \in Nat
    BY SizeAssumption, BoundsAssumption DEF Init
<1>2. ScanOK
    <2>1. busy = FALSE /\ one = Size /\ two = Size /\ vals = << >>
        BY DEF Init, None
    <2>2. one \in 0 .. Size /\ two \in 0 .. Size /\ vals \in Seq(0 .. MaxActive)
        BY <1>1, <2>1
    <2>3. active \in [Pool -> 0 .. MaxActive]
        BY <1>1 DEF Init
    <2>4. QED
        BY <2>1, <2>2, <2>3 DEF ScanOK
<1>3. given \in [Positions(n) -> 0 .. Usize] /\ counter \in 0 .. Usize-1
    BY <1>1 DEF Init
<1>4. TypeOK
    BY <1>2, <1>3 DEF TypeOK, ScanOK, Init
<1>5. Rounds(given, 0, 0)
    BY <1>4, NothingDealt DEF Init
<1>6. DealtOK
    BY <1>1, <1>3, <1>5 DEF DealtOK, Init
<1>7. QED
    BY <1>2, <1>4, <1>6 DEF IInv

LEMMA NextOK == IInv /\ [Next]_vars => IInv'
<1> SUFFICES ASSUME IInv, [Next]_vars PROVE IInv'
    OBVIOUS
<1>1. TypeOK /\ ScanOK /\ DealtOK
    BY DEF IInv
<1>2. UNCHANGED <<policy, n>>
    BY DEF Next, CounterChanges, Begin, Read, End, FetchAdd, vars
<1>3. ScanOK'
    <2>1. CASE UNCHANGED <<active, scanVars>>
        BY <1>1, <1>2, <2>1 DEF ScanOK, scanVars
    <2>2. CASE (\E i \in Pool : CounterChanges(i)) \/ Begin \/ Read \/ End
        BY <1>1, <1>2, <2>2, ScanStep
    <2>3. QED
        BY <2>1, <2>2 DEF Next, FetchAdd, vars
<1>4. DealtOK'
    <2>1. CASE UNCHANGED robinVars
        BY <1>1, <1>2, <2>1 DEF DealtOK, Rounds, robinVars
    <2>2. CASE FetchAdd
        BY <1>1, <2>2, DealtStep
    <2>3. QED
        BY <2>1, <2>2 DEF Next, CounterChanges, Begin, Read, End, vars
<1>5. given' \in [Positions(n) -> 0 .. Usize] /\ counter' \in 0 .. Usize-1
    <2>1. \A i \in Positions(n) : given'[i] <= Usize
        BY <1>2, <1>4, BoundsAssumption DEF DealtOK, Rounds
    <2>2. QED
        BY <1>2, <1>4, <2>1, BoundsAssumption DEF DealtOK
<1>6. TypeOK'
    BY <1>1, <1>2, <1>3, <1>5 DEF TypeOK, ScanOK
<1>7. QED
    BY <1>3, <1>4, <1>6 DEF IInv

\* Every variable keeps its type: a scan reads counters of the pool only, and the
\* random or preferred worker it starts with is one of the list.
THEOREM TypeCorrect == Spec => []TypeOK
<1>1. IInv => TypeOK
    BY DEF IInv
<1>2. QED
    BY <1>1, InitOK, NextOK, PTL DEF Spec

\* fetch_add deals requests out evenly: however many handlers ask at once, and
\* for every width of the counter and length of the list, between two wraps no
\* worker is answered two times more than another.
THEOREM RoundRobinIsFair == Spec => []RoundRobinFair
<1>1. IInv => RoundRobinFair
    BY DEF IInv, DealtOK, Rounds, RoundRobinFair
<1>2. QED
    BY <1>1, InitOK, NextOK, PTL DEF Spec

-----------------------------------------------------------------------------
(* The loops, on their own.                                                *)

\* One iteration of LeastLoaded over loads a, and of LoadCacheAware over scores.
Lighter(a, start, prev, i) ==
    IF i = 0 THEN [best |-> start, least |-> a[0]]
    ELSE IF a[i] < prev.least THEN [best |-> i, least |-> a[i]] ELSE prev

Better(score, prev, k) ==
    IF k = 0 THEN {}
    ELSE IF \A i \in prev : score[k-1] > score[i] THEN {k-1}
    ELSE IF \A i \in prev : score[k-1] = score[i] THEN prev \cup {k-1} ELSE prev

\* The values carried along by a whole loop.
LighterRun(f, m, a, start) == f = [i \in 0 .. m-1 |-> Lighter(a, start, f[i-1], i)]
BetterRun(f, m, score) == f = [k \in 0 .. m |-> Better(score, f[k-1], k)]

\* Such values exist: each iteration is a function of the one before.
LEMMA LighterLoopExists ==
    ASSUME NEW m \in Nat, m # 0, NEW a \in [0 .. m-1 -> Nat], NEW start \in 0 .. m-1
    PROVE  \E f : LighterRun(f, m, a, start)
<1> DEFINE S == [best : 0 .. m-1, least : Nat]
           init == [best |-> start, least |-> a[0]]
           step == [x \in S \X (1 .. m-1) |-> Lighter(a, start, x[1], x[2])]
           top == m-1
<1>1. init \in S /\ top \in Nat
    OBVIOUS
<1>2. ASSUME NEW s \in S, NEW i \in 1 .. top
      PROVE  step[<<s, i>>] = Lighter(a, start, s, i) /\ step[<<s, i>>] \in S
    <2>1. step[<<s, i>>] = Lighter(a, start, s, i)
        OBVIOUS
    <2>2. a[i] \in Nat /\ i \in 0 .. m-1
        OBVIOUS
    <2>3. Lighter(a, start, s, i) \in S
        BY <2>2 DEF Lighter
    <2>4. QED
        BY <2>1, <2>3
<1>8. init = Lighter(a, start, 0, 0) /\ \A f : Lighter(a, start, f[0-1], 0) = init
    BY DEF Lighter
<1>9. step \in [S \X (1 .. top) -> S]
    <2>1. ASSUME NEW x \in S \X (1 .. top) PROVE step[x] \in S
        <3>1. x = <<x[1], x[2]>> /\ x[1] \in S /\ x[2] \in 1 .. top
            OBVIOUS
        <3> HIDE DEF S, step, top
        <3>2. QED
            BY <1>2, <3>1
    <2>2. QED
        BY <2>1
<1> HIDE DEF S, step, init, top
<1>3. Iterations(S, top, init, step) # {}
    BY <1>1, <1>9, IterationsExist
<1>4. PICK f : f \in [0 .. top -> S] /\ f[0] = init /\ \A i \in 1 .. top : f[i] = step[<<f[i-1], i>>]
    BY <1>3 DEF Iterations
<1>5. ASSUME NEW i \in 0 .. top PROVE f[i] = Lighter(a, start, f[i-1], i)
    <2>1. CASE i = 0
        BY <1>8, <1>4, <2>1
    <2>2. CASE i \in 1 .. top
        <3>1. i-1 \in 0 .. top
            BY <1>1, <2>2
        <3>2. f[i-1] \in S /\ f[i] = step[<<f[i-1], i>>]
            BY <1>4, <2>2, <3>1
        <3>3. QED
            BY <1>2, <2>2, <3>2
    <2>3. QED
        BY <1>1, <2>1, <2>2
<1>6. f = [i \in 0 .. top |-> Lighter(a, start, f[i-1], i)]
    <2>1. f = [i \in 0 .. top |-> f[i]]
        BY <1>4
    <2>2. QED
        BY <1>5, <2>1
<1>7. QED
    BY <1>6 DEF LighterRun, top

LEMMA BetterLoopExists ==
    ASSUME NEW m \in Nat, NEW score
    PROVE  \E f : BetterRun(f, m, score)
<1> DEFINE S == SUBSET (0 .. m-1)
           step == [x \in S \X (1 .. m) |-> Better(score, x[1], x[2])]
<1>1. {} \in S /\ \A f : Better(score, f[0-1], 0) = {}
    BY DEF Better
<1>2. ASSUME NEW s \in S, NEW k \in 1 .. m
      PROVE  step[<<s, k>>] = Better(score, s, k) /\ step[<<s, k>>] \in S
    <2>1. step[<<s, k>>] = Better(score, s, k)
        OBVIOUS
    <2>2. {k-1} \in S /\ s \cup {k-1} \in S
        OBVIOUS
    <2>3. Better(score, s, k) \in S
        BY <2>2 DEF Better
    <2>4. QED
        BY <2>1, <2>3
<1>9. step \in [S \X (1 .. m) -> S]
    <2>1. ASSUME NEW x \in S \X (1 .. m) PROVE step[x] \in S
        <3>1. x = <<x[1], x[2]>> /\ x[1] \in S /\ x[2] \in 1 .. m
            OBVIOUS
        <3> HIDE DEF S, step
        <3>2. QED
            BY <1>2, <3>1
    <2>2. QED
        BY <2>1
<1> HIDE DEF S, step
<1>3. Iterations(S, m, {}, step) # {}
    BY <1>1, <1>9, IterationsExist
<1>4. PICK f : f \in [0 .. m -> S] /\ f[0] = {} /\ \A k \in 1 .. m : f[k] = step[<<f[k-1], k>>]
    BY <1>3 DEF Iterations
<1>5. ASSUME NEW k \in 0 .. m PROVE f[k] = Better(score, f[k-1], k)
    <2>1. CASE k = 0
        BY <1>1, <1>4, <2>1
    <2>2. CASE k \in 1 .. m
        <3>1. k-1 \in 0 .. m
            BY <1>1, <2>2
        <3>2. f[k-1] \in S /\ f[k] = step[<<f[k-1], k>>]
            BY <1>4, <2>2, <3>1
        <3>3. QED
            BY <1>2, <2>2, <3>2
    <2>3. QED
        BY <2>1, <2>2
<1>6. f = [k \in 0 .. m |-> Better(score, f[k-1], k)]
    <2>1. f = [k \in 0 .. m |-> f[k]]
        BY <1>4
    <2>2. QED
        BY <1>5, <2>1
<1>7. QED
    BY <1>6 DEF BetterRun
\* What LeastLoaded carries after reading a[0 .. k].
Carries(a, start, k, s) ==
    /\ s.least \in Nat
    /\ \A j \in 0 .. k : s.least <= a[j]
    /\ s.least = a[0] => s.best = start
    /\ s.least # a[0] => /\ s.best \in 0 .. k /\ a[s.best] = s.least
                         /\ \A j \in 0 .. k : a[j] = s.least => s.best <= j

\* An iteration of LeastLoaded takes the next position into account.
LEMMA LighterStep ==
    ASSUME NEW m \in Nat, NEW a \in [0 .. m-1 -> Nat], NEW start, NEW k \in 1 .. m-1, NEW s,
           Carries(a, start, k-1, s)
    PROVE  Carries(a, start, k, Lighter(a, start, s, k))
<1>1. a[k] \in Nat /\ a[0] \in Nat /\ 0 .. k = (0 .. k-1) \cup {k} /\ 0 \in 0 .. k-1
    OBVIOUS
<1>2. CASE a[k] < s.least
    <2> DEFINE s1 == [best |-> k, least |-> a[k]]
    <2>1. Lighter(a, start, s, k) = s1 /\ s1.best = k /\ s1.least = a[k]
        BY <1>2 DEF Lighter
    <2> HIDE DEF s1
    <2>2. s.least \in Nat /\ \A j \in 0 .. k-1 : s.least <= a[j] /\ a[j] \in Nat
        BY DEF Carries
    <2>3. \A j \in 0 .. k-1 : a[k] < a[j]
        BY <1>1, <1>2, <2>2
    <2>4. a[k] # a[0]
        BY <1>1, <2>3
    <2>5. QED
        BY <1>1, <2>1, <2>3, <2>4 DEF Carries
<1>3. CASE ~(a[k] < s.least)
    <2>1. Lighter(a, start, s, k) = s
        BY <1>3 DEF Lighter
    <2>2. s.least <= a[k] /\ s.least \in Nat
        BY <1>1, <1>3 DEF Carries
    <2>3. s.least # a[0] => s.best \in 0 .. k-1
        BY DEF Carries
    <2>4. QED
        BY <1>1, <2>1, <2>2, <2>3 DEF Carries
<1>4. QED
    BY <1>2, <1>3

\* LeastLoaded's loop keeps its random start unless some position is lighter than
\* position 0, and then ends with the first of the lightest.
LEMMA LighterLoopPicks ==
    ASSUME NEW m \in Nat, m # 0, NEW a \in [0 .. m-1 -> Nat], NEW start \in 0 .. m-1, NEW f,
           LighterRun(f, m, a, start)
    PROVE  f[m-1].best \in LeastLoadedPicks(a, m)
<1> DEFINE T == {k \in 0 .. m-1 : Carries(a, start, k, f[k])}
           top == m-1
<1>0. top \in Nat
    OBVIOUS
<1>1. 0 \in T
    <2>1. f[0] = [best |-> start, least |-> a[0]] /\ a[0] \in Nat /\ 0 .. 0 = {0}
        BY DEF Lighter, LighterRun
    <2>2. Carries(a, start, 0, f[0])
        BY <2>1 DEF Carries
    <2>3. QED
        BY <2>2
<1>2. ASSUME NEW k \in 0 .. top-1, k \in T PROVE k + 1 \in T
    <2>1. k+1 \in 1 .. m-1 /\ (k+1)-1 = k /\ Carries(a, start, k, f[k])
        BY <1>2
    <2>2. f[k+1] = Lighter(a, start, f[k], k+1)
        BY <2>1 DEF LighterRun
    <2>3. Carries(a, start, k+1, f[k+1])
        BY <2>1, <2>2, LighterStep
    <2>4. QED
        BY <2>1, <2>3
<1> HIDE DEF T, top
<1>3. \A k \in 0 .. top : k \in T
    BY <1>0, <1>1, <1>2, UpToInduction
<1>4. Carries(a, start, m-1, f[m-1])
    BY <1>0, <1>3 DEF T, top
<1> DEFINE s == f[m-1]
           lighter == {i \in 0 .. m-1 : a[i] < a[0]}
<1>5. LeastLoadedPicks(a, m) =
        IF lighter = {} THEN 0 .. m-1
        ELSE {i \in lighter : \A k \in lighter : a[i] < a[k] \/ (a[i] = a[k] /\ i <= k)}
    BY DEF LeastLoadedPicks, Positions
<1>6. Carries(a, start, m-1, s) /\ 0 \in 0 .. m-1 /\ \A i \in 0 .. m-1 : a[i] \in Nat
    BY <1>4
<1> HIDE DEF s
<1>7. CASE s.least = a[0]
    <2>1. lighter = {}
        BY <1>6, <1>7 DEF Carries
    <2>2. s.best \in 0 .. m-1
        BY <1>6, <1>7 DEF Carries
    <2>3. QED
        BY <1>5, <2>1, <2>2 DEF s
<1>8. CASE s.least # a[0]
    <2>1. s.best \in 0 .. m-1 /\ a[s.best] = s.least /\ s.least <= a[0] /\ s.least \in Nat
        BY <1>6, <1>8 DEF Carries
    <2>2. s.best \in lighter
        BY <1>6, <1>8, <2>1
    <2>3. ASSUME NEW k \in lighter PROVE a[s.best] < a[k] \/ (a[s.best] = a[k] /\ s.best <= k)
        <3>1. k \in 0 .. m-1 /\ a[k] \in Nat
            BY <1>6
        <3>2. s.least <= a[k] /\ (a[k] = s.least => s.best <= k)
            BY <1>6, <1>8, <3>1 DEF Carries
        <3>3. QED
            BY <2>1, <3>1, <3>2
    <2>4. lighter # {}
        BY <2>2
    <2> HIDE DEF lighter
    <2>5. QED
        BY <1>5, <2>2, <2>3, <2>4 DEF s
<1>9. QED
    BY <1>7, <1>8

\* The positions below k of the highest score among those.
Tops(score, k) == {i \in 0 .. k-1 : \A j \in 0 .. k-1 : score[i] >= score[j]}

\* An iteration of LoadCacheAware takes the next position into account.
LEMMA BetterStep ==
    ASSUME NEW m \in Nat, NEW score \in [0 .. m-1 -> Int], NEW k \in 1 .. m, NEW s,
           s = Tops(score, k-1), k-1 # 0 => s # {}
    PROVE  LET t == Better(score, s, k) IN t = Tops(score, k) /\ t # {}
<1> DEFINE last == k-1
           t == Better(score, s, k)
<1>1. /\ last \in 0 .. m-1 /\ 0 .. k-1 = (0 .. last-1) \cup {last} /\ last \notin 0 .. last-1
      /\ last \in 0 .. k-1 /\ \A j \in 0 .. k-1 : score[j] \in Int /\ score[j] >= score[j]
    OBVIOUS
<1>2. /\ \A i \in s : i \in 0 .. last-1 /\ \A j \in 0 .. last-1 : score[i] >= score[j]
      /\ \A i \in 0 .. last-1 : (\A j \in 0 .. last-1 : score[i] >= score[j]) => i \in s
    BY DEF Tops
<1>3. last # 0 => s # {}
    OBVIOUS
<1>4. t = IF \A i \in s : score[last] > score[i] THEN {last}
          ELSE IF \A i \in s : score[last] = score[i] THEN s \cup {last} ELSE s
    BY DEF Better
<1>5. Tops(score, k) = {i \in 0 .. k-1 : \A j \in 0 .. k-1 : score[i] >= score[j]}
    BY DEF Tops
<1> HIDE DEF last, t
<1>6. CASE \A i \in s : score[last] > score[i]
    <2>1. ASSUME NEW j \in 0 .. last-1 PROVE score[last] > score[j]
        <3>1. last # 0
            BY <1>1
        <3>2. PICK i \in s : TRUE
            BY <1>3, <3>1
        <3>3. score[last] > score[i] /\ score[i] >= score[j]
            BY <1>2, <1>6, <3>2
        <3>4. i \in 0 .. last-1
            BY <1>2, <3>2
        <3>5. score[i] \in Int /\ score[j] \in Int /\ score[last] \in Int
            BY <1>1, <3>4
        <3>6. QED
            BY <3>3, <3>5
    <2>2. \A i \in Tops(score, k) : i = last
        BY <1>1, <1>5, <2>1
    <2>3. last \in 0 .. k-1 /\ \A j \in 0 .. k-1 : score[last] >= score[j]
        BY <1>1, <2>1
    <2>5. last \in Tops(score, k)
        BY <1>5, <2>3
    <2>4. QED
        BY <1>4, <1>6, <2>2, <2>5 DEF t
<1>7. CASE ~(\A i \in s : score[last] > score[i]) /\ \A i \in s : score[last] = score[i]
    <2>1. PICK i \in s : TRUE
        BY <1>7
    <2>2. i \in 0 .. last-1 /\ score[last] = score[i]
        BY <1>2, <1>7, <2>1
    <2>3. \A j \in 0 .. last-1 : score[last] >= score[j]
        BY <1>2, <2>1, <2>2
    <2>8. last \in 0 .. k-1 /\ \A j \in 0 .. k-1 : score[last] >= score[j]
        BY <1>1, <2>3
    <2>4. last \in Tops(score, k)
        BY <1>5, <2>8
    <2>5. ASSUME NEW j \in s PROVE j \in Tops(score, k)
        <3>1. j \in 0 .. last-1 /\ score[j] >= score[last]
            BY <1>1, <1>2, <1>7
        <3>2. QED
            BY <1>1, <1>2, <1>5, <3>1
    <2>6. ASSUME NEW j \in Tops(score, k), j # last PROVE j \in s
        BY <1>1, <1>2, <1>5, <2>6
    <2>7. QED
        BY <1>4, <1>7, <2>1, <2>4, <2>5, <2>6 DEF t
<1>8. CASE ~(\A i \in s : score[last] > score[i]) /\ ~(\A i \in s : score[last] = score[i])
    <2>1. PICK x \in s : ~(score[last] > score[x])
        BY <1>8
    <2>2. PICK y \in s : score[last] # score[y]
        BY <1>8
    <2>3. x \in 0 .. last-1 /\ y \in 0 .. last-1
        BY <1>2, <2>1, <2>2
    <2>4. score[x] \in Int /\ score[y] \in Int /\ score[last] \in Int
        BY <1>1, <2>3
    <2>5. score[x] >= score[y] /\ score[y] >= score[x]
        BY <1>2, <2>1, <2>2, <2>3
    <2>6. score[last] < score[x]
        BY <2>1, <2>2, <2>4, <2>5
    <2>7. ASSUME NEW j \in s PROVE j \in Tops(score, k)
        <3>1. j \in 0 .. last-1 /\ score[j] >= score[x] /\ score[j] \in Int
            BY <1>1, <1>2, <2>3
        <3>2. score[j] >= score[last]
            BY <2>4, <2>6, <3>1
        <3>3. QED
            BY <1>1, <1>2, <1>5, <3>1, <3>2
    <2>8. last \notin Tops(score, k)
        BY <1>1, <1>5, <2>3, <2>4, <2>6
    <2>9. ASSUME NEW j \in Tops(score, k) PROVE j \in s
        BY <1>1, <1>2, <1>5, <2>8, <2>9
    <2>10. QED
        BY <1>4, <1>8, <2>1, <2>7, <2>9 DEF t
<1>9. QED
    BY <1>6, <1>7, <1>8 DEF t

\* LoadCacheAware's loop ends with all positions of the highest score.
LEMMA BetterLoopPicks ==
    ASSUME NEW m \in Nat, NEW score \in [0 .. m-1 -> Int], NEW f,
           BetterRun(f, m, score)
    PROVE  f[m] = Tops(score, m)
<1> DEFINE T == {k \in 0 .. m : f[k] = Tops(score, k) /\ (k # 0 => f[k] # {})}
<1>1. 0 \in T
    <2>1. f[0] = {} /\ Tops(score, 0) = {}
        BY DEF Better, BetterRun, Tops
    <2>2. f[0] = Tops(score, 0) /\ 0 \in 0 .. m
        BY <2>1
    <2> HIDE DEF T
    <2>3. QED
        BY <2>2 DEF T
<1>2. ASSUME NEW k \in 0 .. m-1, k \in T PROVE k + 1 \in T
    <2>1. k+1 \in 1 .. m /\ (k+1)-1 = k /\ f[k] = Tops(score, k) /\ (k # 0 => f[k] # {})
        BY <1>2
    <2>2. f[k+1] = Better(score, f[k], k+1)
        BY <2>1 DEF BetterRun
    <2>3. f[k+1] = Tops(score, k+1) /\ f[k+1] # {}
        BY <2>1, <2>2, BetterStep
    <2>4. QED
        BY <2>1, <2>3
<1> HIDE DEF T
<1>3. \A k \in 0 .. m : k \in T
    BY <1>1, <1>2, UpToInduction
<1>4. QED
    BY <1>3 DEF T

-----------------------------------------------------------------------------
(* What a complete scan answers.                                           *)

\* What was read of each counter, when that many reads were made.
LEMMA SeenType ==
    ASSUME TypeOK, NEW k \in Nat, k # 0, NEW m \in Nat, k + m - 1 <= Len(vals)
    PROVE  /\ Seen(k, m) \in [0 .. m-1 -> 0 .. MaxActive]
           /\ \A i \in 0 .. m-1 : Seen(k, m)[i] = vals[k + i]
<1>1. vals \in Seq(0 .. MaxActive) /\ Len(vals) \in Nat
    BY DEF TypeOK
<1>2. ASSUME NEW i \in 0 .. m-1 PROVE vals[k + i] \in 0 .. MaxActive
    <2> DEFINE j == k + i
    <2>1. j \in 1 .. Len(vals)
        BY <1>1
    <2> HIDE DEF j
    <2>2. vals[j] \in 0 .. MaxActive
        BY <1>1, <2>1, ElementOfSeq
    <2>3. QED
        BY <2>2 DEF j
<1>3. QED
    BY <1>2 DEF Seen

\* A scan that answers has read n counters, all counters, or all and then n again.
LEMMA CompleteLength ==
    ASSUME TypeOK, Complete
    PROVE  /\ policy = "least_loaded" => Len(vals) = n
           /\ policy = "load_cache_aware" /\ n # 1 => Len(vals) = Size
           /\ FellBack => Len(vals) = 1 + Size + n
<1>1. /\ n \in Nat /\ Size \in Nat /\ n # 0 /\ n <= Size
      /\ vals \in Seq(0 .. MaxActive) /\ Len(vals) = Len(Order)
    BY SizeAssumption DEF TypeOK, Complete
<1>2. \A m \in Nat : UpTo(m) \in Seq(Int) /\ Len(UpTo(m)) = m
    BY DEF UpTo
<1>3. ASSUME FellBack PROVE Len(vals) = 1 + Size + n
    <2>1. policy = "prefix_affinity" /\ n # 1 /\ vals[1] >= Threshold
        BY <1>3 DEF FellBack
    <2>2. one \in Int
        BY SizeAssumption DEF TypeOK
    <2>3. CASE vals # << >> /\ vals[1] < Threshold
        <3>1. vals[1] \in Int /\ Threshold \in Int
            BY <1>1, <2>3, BoundsAssumption
        <3>2. QED
            BY <2>1, <2>3, <3>1
    <2>4. CASE ~(vals # << >> /\ vals[1] < Threshold)
        <3>1. Order = <<one>> \o UpTo(Size) \o UpTo(n)
            BY <2>1, <2>4 DEF Order
        <3>2. <<one>> \in Seq(Int) /\ Len(<<one>>) = 1
            BY <2>2
        <3>3. Len(<<one>> \o UpTo(Size) \o UpTo(n)) = 1 + Size + n
            <4> DEFINE s == <<one>>
                       t == UpTo(Size)
                       u == UpTo(n)
            <4>1. s \in Seq(Int) /\ t \in Seq(Int) /\ u \in Seq(Int) /\ Len(s) = 1 /\ Len(t) = Size /\ Len(u) = n
                BY <1>1, <1>2, <3>2
            <4> HIDE DEF s, t, u
            <4> DEFINE st == s \o t
            <4>2. st \in Seq(Int) /\ Len(st) = 1 + Size
                BY <4>1, ConcatProperties, ZenonT(30)
            <4> HIDE DEF st
            <4>3. Len(st \o u) = Len(st) + Len(u)
                BY <4>1, <4>2, ConcatProperties
            <4>4. Len(st \o u) = 1 + Size + n
                BY <1>1, <4>1, <4>2, <4>3
            <4>5. QED
                BY <4>4 DEF s, t, u, st
        <3>4. QED
            BY <1>1, <3>1, <3>3
    <2>5. QED
        BY <2>3, <2>4
<1>4. QED
    BY <1>1, <1>2, <1>3 DEF Order

\* A complete scan of LeastLoaded answers as a selection over what it read.
LEMMA LeastLoadedAnswer ==
    ASSUME TypeOK, Complete, policy = "least_loaded"
    PROVE  LeastLoadedLoop \in LeastLoadedPicks(Seen(1, n), n)
<1> DEFINE a == Seen(1, n)
           Runs(g) == g = [i \in Positions(n) |->
              IF i = 0 THEN [best |-> one, least |-> vals[1]]
              ELSE IF vals[i+1] < g[i-1].least THEN [best |-> i, least |-> vals[i+1]] ELSE g[i-1]]
           scan == CHOOSE g : Runs(g)
<1>1. n \in Nat /\ n # 0 /\ one \in 0 .. n-1
    BY SizeAssumption DEF TypeOK, Complete, Positions
<1>2. a \in [0 .. n-1 -> Nat] /\ \A i \in 0 .. n-1 : a[i] = vals[i+1]
    <2>1. Len(vals) = n
        BY CompleteLength
    <2>2. 1 \in Nat /\ 1 # 0 /\ 1 + n - 1 <= Len(vals)
        BY <1>1, <2>1
    <2>3. /\ Seen(1, n) \in [0 .. n-1 -> 0 .. MaxActive]
          /\ \A i \in 0 .. n-1 : Seen(1, n)[i] = vals[1 + i]
        BY <1>1, <2>2, SeenType
    <2>4. QED
        BY <2>3, BoundsAssumption
<1>3. LeastLoadedLoop = scan[n-1].best
    BY DEF LeastLoadedLoop
<1> HIDE DEF a
<1>4. ASSUME NEW g PROVE LighterRun(g, n, a, one) <=> Runs(g)
    <2>1. ASSUME NEW i \in 0 .. n-1
          PROVE  Lighter(a, one, g[i-1], i) =
                    IF i = 0 THEN [best |-> one, least |-> vals[1]]
                    ELSE IF vals[i+1] < g[i-1].least THEN [best |-> i, least |-> vals[i+1]] ELSE g[i-1]
        BY <1>1, <1>2 DEF Lighter
    <2>2. [i \in 0 .. n-1 |-> Lighter(a, one, g[i-1], i)] =
            [i \in 0 .. n-1 |->
                IF i = 0 THEN [best |-> one, least |-> vals[1]]
                ELSE IF vals[i+1] < g[i-1].least THEN [best |-> i, least |-> vals[i+1]] ELSE g[i-1]]
        BY <2>1
    <2>3. QED
        BY <2>2 DEF LighterRun, Positions
<1> HIDE DEF Runs
<1>5. Runs(scan)
    <2>1. \E g : LighterRun(g, n, a, one)
        BY <1>1, <1>2, LighterLoopExists
    <2>2. \E g : Runs(g)
        BY <1>4, <2>1
    <2>3. QED
        BY <2>2
<1> HIDE DEF scan
<1>6. scan[n-1].best \in LeastLoadedPicks(a, n)
    <2>1. LighterRun(scan, n, a, one)
        BY <1>4, <1>5
    <2>2. QED
        BY <1>1, <1>2, <2>1, LighterLoopPicks
<1>7. QED
    BY <1>3, <1>6 DEF a

\* What a scan of LoadCacheAware read of the pool is a load vector.
LEMMA LoadsSeen ==
    ASSUME TypeOK, Complete, policy = "load_cache_aware", n > 1
    PROVE  Loads(Seen(1, Size), n)
<1>1. n \in Nat /\ Size \in Nat /\ n # 0 /\ n <= Size /\ MaxActive \in Nat
    BY SizeAssumption, BoundsAssumption DEF TypeOK
<1>2. Len(vals) = Size
    BY <1>1, CompleteLength
<1>3. Seen(1, Size) \in [0 .. Size-1 -> 0 .. MaxActive]
    <2>1. 1 \in Nat /\ 1 # 0 /\ 1 + Size - 1 <= Len(vals)
        BY <1>1, <1>2
    <2>2. QED
        BY <1>1, <2>1, SeenType
<1>4. QED
    BY <1>1, <1>3 DEF Loads

\* best_indices holds positions already looked at.
LEMMA Indices ==
    ASSUME NEW m \in Nat, NEW f, f[0] = {}, \A k \in 0 .. m-1 : f[k+1] \subseteq f[k] \cup {k}
    PROVE  \A k \in 0 .. m : f[k] \subseteq 0 .. m-1
<1> DEFINE T == {k \in 0 .. m : f[k] \subseteq 0 .. m-1}
<1>1. 0 \in T
    OBVIOUS
<1>2. ASSUME NEW k \in 0 .. m-1, k \in T PROVE k + 1 \in T
    BY <1>2
<1>3. \A k \in T : f[k] \subseteq 0 .. m-1
    OBVIOUS
<1> HIDE DEF T
<1>4. \A k \in 0 .. m : k \in T
    BY <1>1, <1>2, UpToInduction
<1>5. QED
    BY <1>3, <1>4

\* So does a complete scan of LoadCacheAware, with the maximum of what it read.
LEMMA LoadCacheAwareAnswer ==
    ASSUME TypeOK, Complete, policy = "load_cache_aware", n > 1
    PROVE  LoadCacheAwareLoop = CacheAwarePicks(Seen(1, Size), n, one, two)
<1> DEFINE sc(i) == Score(Seen(1, Size), i, one, two)
           score == [i \in 0 .. n-1 |-> sc(i)]
           body(prev, k) ==
              IF k = 0 THEN {}
              ELSE IF \A i \in prev : sc(k-1) > sc(i) THEN {k-1}
              ELSE IF \A i \in prev : sc(k-1) = sc(i) THEN prev \cup {k-1} ELSE prev
           Runs(g) == g = [k \in 0 .. n |-> body(g[k-1], k)]
           best == CHOOSE g : Runs(g)
<1>1. n \in Nat /\ n # 0
    BY SizeAssumption DEF TypeOK
<1>2. LoadCacheAwareLoop = best[n]
    BY DEF LoadCacheAwareLoop
<1>3. CacheAwarePicks(Seen(1, Size), n, one, two) = {i \in 0 .. n-1 : \A j \in 0 .. n-1 : sc(i) >= sc(j)}
    BY DEF CacheAwarePicks, Positions
<1>4. \A i \in 0 .. n-1 : sc(i) \in Int
    BY LoadsSeen, ScoreBounds DEF Positions
<1> HIDE DEF sc
<1>5. score \in [0 .. n-1 -> Int] /\ \A i \in 0 .. n-1 : score[i] = sc(i)
    BY <1>4
<1> HIDE DEF score
<1>6. ASSUME NEW k \in 0 .. n, NEW prev \in SUBSET (0 .. n-1) PROVE body(prev, k) = Better(score, prev, k)
    <2>1. k # 0 => k-1 \in 0 .. n-1 /\ score[k-1] = sc(k-1)
        BY <1>1, <1>5
    <2>2. \A i \in prev : score[i] = sc(i)
        BY <1>5
    <2>3. QED
        BY <2>1, <2>2 DEF Better
<1>7. \A prev : body(prev, 0) = {} /\ Better(score, prev, 0) = {}
    BY DEF Better
<1>8. ASSUME NEW prev, NEW k \in 0 .. n-1
       PROVE  body(prev, k+1) \subseteq prev \cup {k} /\ Better(score, prev, k+1) \subseteq prev \cup {k}
    <2>1. (k+1)-1 = k
        OBVIOUS
    <2>2. QED
        BY <2>1 DEF Better
<1> HIDE DEF body
<1>9. ASSUME NEW g, g = [k \in 0 .. n |-> body(g[k-1], k)] \/ g = [k \in 0 .. n |-> Better(score, g[k-1], k)]
      PROVE  [k \in 0 .. n |-> body(g[k-1], k)] = [k \in 0 .. n |-> Better(score, g[k-1], k)]
    <2>1. g[0] = {}
        <3>1. 0 \in 0 .. n
            BY <1>1
        <3>2. g[0] = body(g[0-1], 0) \/ g[0] = Better(score, g[0-1], 0)
            BY <1>9, <3>1
        <3>3. QED
            BY <1>7, <3>2
    <2>2. ASSUME NEW k \in 0 .. n-1 PROVE g[k+1] \subseteq g[k] \cup {k}
        <3>1. k+1 \in 0 .. n /\ (k+1)-1 = k
            BY <1>1
        <3>2. g[k+1] = body(g[k], k+1) \/ g[k+1] = Better(score, g[k], k+1)
            BY <1>9, <3>1
        <3>3. QED
            BY <1>8, <3>2
    <2>3. \A k \in 0 .. n : g[k] \subseteq 0 .. n-1
        BY <1>1, <2>1, <2>2, Indices
    <2>4. ASSUME NEW k \in 0 .. n PROVE body(g[k-1], k) = Better(score, g[k-1], k)
        <3>1. CASE k = 0
            BY <1>1, <1>7, <3>1
        <3>2. CASE k # 0
            <4>1. k-1 \in 0 .. n
                BY <1>1, <3>2
            <4>2. g[k-1] \in SUBSET (0 .. n-1)
                BY <2>3, <4>1
            <4>3. QED
                BY <1>6, <4>2
        <3>3. QED
            BY <3>1, <3>2
    <2>5. QED
        BY <2>4
<1>10. \A g : BetterRun(g, n, score) <=> Runs(g)
    BY <1>9 DEF BetterRun
<1> HIDE DEF Runs
<1>11. Runs(best)
    <2>1. \E g : BetterRun(g, n, score)
        BY <1>1, BetterLoopExists
    <2>2. \E g : Runs(g)
        BY <1>10, <2>1
    <2>3. QED
        BY <2>2
<1> HIDE DEF best
<1>12. best[n] = Tops(score, n)
    <2>1. BetterRun(best, n, score)
        BY <1>10, <1>11
    <2>2. QED
        BY <1>1, <1>5, <2>1, BetterLoopPicks
<1>13. Tops(score, n) = {i \in 0 .. n-1 : \A j \in 0 .. n-1 : sc(i) >= sc(j)}
    BY <1>5 DEF Tops
<1>14. QED
    BY <1>2, <1>3, <1>12, <1>13

\* However the counters move between its reads, a scan of LeastLoaded or
\* LoadCacheAware answers what Policies has as the answers for one load vector: for
\* every length of the list, their loops compute those sets.
THEOREM LoopsAreSelections == Spec => []LoopsMatchPicks
<1>1. IInv => LoopsMatchPicks
    BY LeastLoadedAnswer, LoadCacheAwareAnswer DEF IInv, LoopsMatchPicks
<1>2. QED
    BY <1>1, InitOK, NextOK, PTL DEF Spec

\* A prefix entry, and without one a session entry, is the answer of every scan
\* over a full list, whatever the counters do meanwhile.
THEOREM EntryWinsMidScan == Spec => []CacheWinsMidScan
<1>1. IInv => CacheWinsMidScan
    <2> SUFFICES ASSUME TypeOK, Complete, policy = "load_cache_aware", n = Size, n > 1
                 PROVE  /\ one # None => LoadCacheAwareLoop = {one}
                        /\ one = None /\ two # None => LoadCacheAwareLoop = {two}
        BY DEF IInv, CacheWinsMidScan
    <2> DEFINE a == Seen(1, Size)
               picks == CacheAwarePicks(a, n, one, two)
    <2>1. LoadCacheAwareLoop = picks
        BY LoadCacheAwareAnswer
    <2>2. Loads(a, n)
        BY LoadsSeen
    <2>3. picks # {}
        <3>1. \E i \in Positions(n) : \A k \in Positions(n) : Score(a, i, one, two) >= Score(a, k, one, two)
            BY <2>2, BestScoreExists
        <3>2. QED
            BY <3>1 DEF CacheAwarePicks
    <2> HIDE DEF a
    <2>4. Positions(n) = 0 .. Size-1 /\ None = Size /\ one \in 0 .. Size /\ two \in 0 .. Size /\ Size \in Nat
        BY SizeAssumption DEF Positions, None, TypeOK
    <2>5. CASE one # None
        <3>1. one \in Positions(n)
            BY <2>4, <2>5
        <3>2. picks \subseteq {one}
            BY <2>2, <3>1, AffinityDominates
        <3>3. QED
            BY <2>1, <2>3, <2>5, <3>2
    <2>6. CASE one = None /\ two # None
        <3>1. two \in Positions(n) /\ one \notin Positions(n)
            BY <2>4, <2>6
        <3>2. picks \subseteq {two}
            BY <2>2, <3>1, AffinityDominates
        <3>3. QED
            BY <2>1, <2>3, <2>6, <3>2
    <2>7. QED
        BY <2>5, <2>6
<1>2. QED
    BY <1>1, InitOK, NextOK, PTL DEF Spec

\* jsq_fallback's candidates are empty, and its gen_range panics, only when a
\* counter moved between its two passes or the minimum of the first pass lies at a
\* worker behind the end of the list, for every pool.
THEOREM PanicIsExplained == Spec => []JsqPanicExplained
<1>1. IInv => JsqPanicExplained
    <2> SUFFICES ASSUME TypeOK, Complete, FellBack, Tied = {},
                        \A i \in Positions(n) : FirstPass[i] = SecondPass[i]
                 PROVE  \E w \in Pool \ Positions(n) : \A i \in Positions(n) : FirstPass[w] < FirstPass[i]
        BY DEF IInv, JsqPanicExplained
    <2>1. n \in Nat /\ Size \in Nat /\ n # 0 /\ n <= Size /\ Positions(n) \subseteq Pool
        BY SizeAssumption DEF TypeOK, Positions, Pool
    <2>2. FirstPass \in [Pool -> Nat]
        <3>1. Len(vals) = 1 + Size + n
            BY CompleteLength
        <3>2. 2 \in Nat /\ 2 # 0 /\ 2 + Size - 1 <= Len(vals)
            BY <2>1, <3>1
        <3>3. Seen(2, Size) \in [0 .. Size-1 -> 0 .. MaxActive]
            BY <2>1, <3>2, SeenType
        <3>4. QED
            BY <3>3, BoundsAssumption DEF FirstPass, Pool
    <2>3. PICK w \in Pool : FirstPass[w] = Minimum /\ \A i \in Pool : Minimum <= FirstPass[i]
        <3> DEFINE values == {FirstPass[i] : i \in Pool}
        <3>1. values \in SUBSET Nat /\ values # {}
            BY <2>1, <2>2 DEF Pool
        <3>2. PICK v \in values : \A u \in values : v <= u
            BY <3>1, LeastNatural
        <3>3. \A i \in Pool : v <= FirstPass[i]
            BY <3>2
        <3>4. Minimum \in values /\ \A i \in Pool : Minimum <= FirstPass[i]
            BY <3>2, <3>3 DEF Minimum
        <3>5. QED
            BY <3>4
    <2>4. ASSUME NEW i \in Positions(n) PROVE FirstPass[w] < FirstPass[i]
        <3>1. SecondPass[i] # Minimum
            BY DEF Tied
        <3>2. FirstPass[i] # FirstPass[w] /\ FirstPass[w] <= FirstPass[i]
            BY <2>1, <2>3, <3>1
        <3>3. FirstPass[i] \in Nat /\ FirstPass[w] \in Nat
            BY <2>1, <2>2
        <3>4. QED
            BY <3>2, <3>3
    <2>5. w \notin Positions(n)
        <3>1. FirstPass[w] \in Nat
            BY <2>2
        <3>2. QED
            BY <2>4, <3>1
    <2>6. QED
        BY <2>3, <2>4, <2>5
<1>2. QED
    BY <1>1, InitOK, NextOK, PTL DEF Spec

=============================================================================
