------------------------- MODULE LogRotationProofs -------------------------
(***************************************************************************)
(* The rotating writer, for every limit, clock and number of records: what *)
(* it stores is neither lost nor out of order, and its counter and its     *)
(* file's length are what they should be.                                  *)
(*                                                                         *)
(* None of the invariants is inductive.  That truncating loses nothing     *)
(* depends on what the steps before it stored (Kept); that a backup holds  *)
(* older records than the file fails between the copy and the truncation   *)
(* (Ordered), and rests on the record being written not being anywhere yet *)
(* (Shape); that the file stays within its limit depends on what was found *)
(* of the counter before the record was let through (Counted).             *)
(***************************************************************************)
EXTENDS LogRotation, PoliciesProofs, SequenceTheorems

-----------------------------------------------------------------------------
(* The length of a file.                                                   *)

\* The values SizeOf goes through for the records s of lengths lens.
Sums(f, lens, s) == f[0] = 0 /\ \A k \in 1 .. Len(s) : f[k] = f[k-1] + lens[s[k]]

\* SizeOf, as an operator of the lengths as well.
TotalOf(lens, records) ==
    LET sum[k \in 0 .. Len(records)] == IF k = 0 THEN 0 ELSE sum[k-1] + lens[records[k]]
    IN  sum[Len(records)]

\* The sum that the recursion computes is that of such values.
LEMMA TotalIs ==
    ASSUME NEW D, NEW lens, \A d \in D : lens[d] \in Nat, NEW s \in Seq(D)
    PROVE  \E f \in [0 .. Len(s) -> Nat] : Sums(f, lens, s) /\ TotalOf(lens, s) = f[Len(s)]
<1> DEFINE m == Len(s)
           step == [x \in Nat \X (1 .. m) |-> x[1] + lens[s[x[2]]]]
           Runs(f) == f = [k \in 0 .. m |-> IF k = 0 THEN 0 ELSE f[k-1] + lens[s[k]]]
           sum == CHOOSE f : Runs(f)
<1>1. m \in Nat /\ \A k \in 1 .. m : lens[s[k]] \in Nat
    OBVIOUS
<1>2. TotalOf(lens, s) = sum[m]
    BY DEF TotalOf
<1>3. \A x \in Nat, k \in 1 .. m : step[<<x, k>>] = x + lens[s[k]]
    OBVIOUS
<1>4. step \in [Nat \X (1 .. m) -> Nat]
    <2>1. ASSUME NEW x \in Nat \X (1 .. m) PROVE x[1] + lens[s[x[2]]] \in Nat
        <3>1. x[1] \in Nat /\ x[2] \in 1 .. m
            OBVIOUS
        <3>2. lens[s[x[2]]] \in Nat
            BY <1>1, <3>1
        <3>3. QED
            BY <3>1, <3>2
    <2> HIDE DEF m
    <2>2. QED
        BY <2>1
<1> HIDE DEF m, step
<1>5. Iterations(Nat, m, 0, step) # {}
    BY <1>1, <1>4, IterationsExist
<1>6. PICK f : f \in [0 .. m -> Nat] /\ f[0] = 0 /\ \A k \in 1 .. m : f[k] = step[<<f[k-1], k>>]
    BY <1>5 DEF Iterations
<1>7. Runs(f)
    <2>1. ASSUME NEW k \in 0 .. m PROVE f[k] = IF k = 0 THEN 0 ELSE f[k-1] + lens[s[k]]
        <3>1. CASE k = 0
            BY <1>6, <3>1
        <3>2. CASE k # 0
            <4>1. k \in 1 .. m /\ k-1 \in 0 .. m
                BY <1>1, <3>2
            <4>2. f[k-1] \in Nat
                BY <1>6, <4>1
            <4>3. QED
                BY <1>3, <1>6, <3>2, <4>1, <4>2
        <3>3. QED
            BY <3>1, <3>2
    <2>2. f = [k \in 0 .. m |-> f[k]]
        BY <1>6
    <2>3. QED
        BY <2>1, <2>2
<1> HIDE DEF Runs
<1>8. Runs(sum)
    BY <1>7
<1> HIDE DEF sum
<1>9. /\ sum = [k \in 0 .. m |-> sum[k]]
      /\ sum[0] = 0 /\ \A k \in 1 .. m : sum[k] = sum[k-1] + lens[s[k]]
    <2>1. sum = [k \in 0 .. m |-> IF k = 0 THEN 0 ELSE sum[k-1] + lens[s[k]]]
        BY <1>8 DEF Runs
    <2>2. sum = [k \in 0 .. m |-> sum[k]] /\ sum[0] = 0
        BY <1>1, <2>1
    <2>3. ASSUME NEW k \in 1 .. m PROVE sum[k] = sum[k-1] + lens[s[k]]
        <3>1. k \in 0 .. m /\ k # 0
            BY <1>1
        <3>2. QED
            BY <2>1, <3>1
    <2>4. QED
        BY <2>2, <2>3
<1>10. \A k \in 0 .. m : sum[k] \in Nat
    <2> DEFINE T == {k \in 0 .. m : sum[k] \in Nat}
    <2>1. 0 \in T
        BY <1>1, <1>9
    <2>2. ASSUME NEW k \in 0 .. m-1, k \in T PROVE k + 1 \in T
        <3>1. k+1 \in 1 .. m /\ (k+1)-1 = k /\ sum[k] \in Nat
            BY <1>1, <2>2
        <3>2. sum[k+1] = sum[k] + lens[s[k+1]] /\ lens[s[k+1]] \in Nat
            BY <1>1, <1>9, <3>1
        <3>3. QED
            BY <3>1, <3>2
    <2>3. \A k \in T : sum[k] \in Nat
        OBVIOUS
    <2> HIDE DEF T
    <2>4. \A k \in 0 .. m : k \in T
        BY <1>1, <2>1, <2>2, UpToInduction
    <2>5. QED
        BY <2>3, <2>4
<1>11. sum \in [0 .. m -> Nat]
    BY <1>9, <1>10
<1>12. QED
    BY <1>2, <1>9, <1>11 DEF m, Sums

\* What goes in up to the k-th record determines the sum up to there.
LEMMA SumsAgree ==
    ASSUME NEW m \in Nat, NEW f, NEW g, NEW lens, NEW r, NEW s, NEW t, Sums(f, lens, s), Sums(g, r, t),
           m <= Len(s), m <= Len(t), Len(s) \in Nat, Len(t) \in Nat,
           \A k \in 1 .. m : lens[s[k]] = r[t[k]]
    PROVE  f[m] = g[m]
<1> DEFINE T == {k \in 0 .. m : f[k] = g[k]}
<1>1. 0 \in T
    BY DEF Sums
<1>2. ASSUME NEW k \in 0 .. m-1, k \in T PROVE k + 1 \in T
    <2>1. k+1 \in 1 .. m /\ (k+1)-1 = k /\ f[k] = g[k] /\ k+1 \in 1 .. Len(s) /\ k+1 \in 1 .. Len(t)
        BY <1>2
    <2>2. f[k+1] = f[k] + lens[s[k+1]] /\ g[k+1] = g[k] + r[t[k+1]]
        BY <2>1 DEF Sums
    <2>3. QED
        BY <2>1, <2>2
<1>3. \A k \in T : f[k] = g[k]
    OBVIOUS
<1> HIDE DEF T
<1>4. \A k \in 0 .. m : k \in T
    BY <1>1, <1>2, UpToInduction
<1>5. m \in 0 .. m
    OBVIOUS
<1>6. QED
    BY <1>3, <1>4, <1>5

\* The length of a file: at least one per record, the sum of old and new when a
\* record is appended, and the same when further records are offered.
LEMMA TotalFacts ==
    ASSUME NEW D, NEW lens, \A d \in D : lens[d] \in Nat \ {0}, NEW s \in Seq(D)
    PROVE  /\ TotalOf(lens, s) \in Nat /\ Len(s) <= TotalOf(lens, s)
           /\ s = << >> => TotalOf(lens, s) = 0
           /\ \A x \in D : TotalOf(lens, Append(s, x)) = TotalOf(lens, s) + lens[x]
           /\ \A r : (\A d \in D : r[d] = lens[d]) => TotalOf(r, s) = TotalOf(lens, s)
<1> DEFINE m == Len(s)
<1>1. PICK f \in [0 .. m -> Nat] : Sums(f, lens, s) /\ TotalOf(lens, s) = f[m]
    BY TotalIs
<1>2. m \in Nat /\ f[m] \in Nat /\ \A k \in 1 .. m : s[k] \in D
    OBVIOUS
<1>3. m <= f[m]
    <2> DEFINE T == {k \in 0 .. m : k <= f[k]}
    <2>1. 0 \in T
        BY <1>2
    <2>2. ASSUME NEW k \in 0 .. m-1, k \in T PROVE k + 1 \in T
        <3>1. k \in 0 .. m /\ k+1 \in 1 .. m /\ (k+1)-1 = k /\ k <= f[k]
            BY <1>2, <2>2
        <3>2. f[k+1] = f[k] + lens[s[k+1]]
            BY <1>1, <3>1 DEF Sums
        <3>3. lens[s[k+1]] \in Nat \ {0} /\ f[k] \in Nat
            BY <1>2, <3>1
        <3>4. QED
            BY <3>1, <3>2, <3>3
    <2>3. \A k \in T : k <= f[k]
        OBVIOUS
    <2> HIDE DEF T, m
    <2>4. \A k \in 0 .. m : k \in T
        BY <1>2, <2>1, <2>2, UpToInduction
    <2>5. m \in 0 .. m
        BY <1>2
    <2>6. QED
        BY <2>3, <2>4, <2>5
<1>4. s = << >> => f[m] = 0
    BY <1>1 DEF Sums
<1>5. ASSUME NEW x \in D PROVE TotalOf(lens, Append(s, x)) = TotalOf(lens, s) + lens[x]
    <2> DEFINE t == Append(s, x)
    <2>1. /\ t \in Seq(D) /\ Len(t) = m + 1 /\ t[m+1] = x
          /\ \A k \in 1 .. m : t[k] = s[k]
        OBVIOUS
    <2> HIDE DEF t
    <2>2. PICK g \in [0 .. Len(t) -> Nat] : Sums(g, lens, t) /\ TotalOf(lens, t) = g[Len(t)]
        BY <2>1, TotalIs
    <2>3. g[m] = f[m]
        <3>1. m <= Len(t) /\ Len(t) \in Nat /\ m <= Len(s) /\ Len(s) \in Nat
            BY <1>2, <2>1
        <3>2. \A k \in 1 .. m : lens[t[k]] = lens[s[k]]
            BY <2>1
        <3> HIDE DEF m
        <3>3. QED
            BY <1>1, <1>2, <2>2, <3>1, <3>2, SumsAgree
    <2>4. g[m+1] = g[m] + lens[t[m+1]]
        <3>1. m+1 \in 1 .. Len(t) /\ (m+1)-1 = m
            BY <1>2, <2>1
        <3>2. QED
            BY <2>2, <3>1 DEF Sums
    <2>5. QED
        BY <1>1, <2>1, <2>2, <2>3, <2>4 DEF t
<1>6. ASSUME NEW r, \A d \in D : r[d] = lens[d] PROVE TotalOf(r, s) = TotalOf(lens, s)
    <2>1. PICK g \in [0 .. m -> Nat] : Sums(g, r, s) /\ TotalOf(r, s) = g[m]
        BY <1>6, TotalIs
    <2>2. \A k \in 1 .. m : r[s[k]] = lens[s[k]]
        BY <1>2, <1>6
    <2>3. m <= Len(s) /\ Len(s) \in Nat
        BY <1>2
    <2> HIDE DEF m
    <2>4. g[m] = f[m]
        BY <1>1, <1>2, <2>1, <2>2, <2>3, SumsAgree
    <2>5. QED
        BY <1>1, <2>1, <2>4
<1>7. QED
    BY <1>1, <1>2, <1>3, <1>4, <1>5, <1>6

-----------------------------------------------------------------------------
(* Types.                                                                  *)

\* The records that may be on disk: all that were offered, but for the one that is
\* still to be written.
Writable == 1 .. (IF pc \in Rotating \cup {"writing"} THEN Len(length) - 1 ELSE Len(length))

\* Types, where the writer has its file, and which records may be where.
Shape ==
    /\ length \in Seq(Lengths) /\ Len(length) <= MaxRecords
    /\ pc \in Rotating \cup {"ready", "writing", "dead", "down"}
    /\ open \in BOOLEAN /\ name \in Seconds /\ now \in Seconds
    /\ (pc \in Rotating \cup {"writing"} => length # << >>)
    /\ (pc = "writing" => open = TRUE) /\ (pc \in Rotating => open = FALSE)
    /\ file \in Seq(Writable) /\ content \in Seq(Writable)
    /\ backups \in [Seconds -> Seq(Writable)]
    /\ kept \in SUBSET Writable /\ lost \in SUBSET Writable /\ cut \in SUBSET Writable

\* What follows about Writable and length from a step.
LEMMA MoreWritable ==
    ASSUME Shape, [Next]_vars
    PROVE  /\ Writable \subseteq Writable'
           /\ length' = length \/ \E len \in Lengths : Offer(len)
           /\ pc' \in Rotating \cup {"ready", "writing", "dead", "down"}
<1>1. Len(length) \in Nat
    BY DEF Shape
<1>2. ASSUME NEW len \in Lengths, Offer(len) PROVE Len(length') = Len(length) + 1
    BY <1>2 DEF Offer, Shape
<1>3. ASSUME NEW len \in Lengths, Offer(len)
      PROVE  Writable \subseteq Writable' /\ pc' \in Rotating \cup {"ready", "writing", "dead", "down"}
    <2>1. pc = "ready" /\ pc' \in {"dead", "reading", "writing"}
        BY <1>3 DEF Offer, Goes
    <2>2. QED
        BY <1>1, <1>2, <1>3, <2>1 DEF Writable, Rotating
<1>4. CASE Start \/ Read \/ ReadFails \/ CreateBackup \/ FillBackup \/ Reopen \/ WriteRecord \/ WriteFails
           \/ RotationFails \/ Crash \/ Tick \/ UNCHANGED vars
    <2>1. length' = length
        BY <1>4 DEF Start, Read, ReadFails, CreateBackup, FillBackup, Reopen, WriteRecord, WriteFails,
                    RotationFails, Crash, Tick, vars
    <2>2. pc' \in Rotating \cup {"writing"} => pc \in Rotating \cup {"writing"}
        BY <1>4 DEF Start, Read, ReadFails, CreateBackup, FillBackup, Reopen, WriteRecord, WriteFails,
                    RotationFails, Crash, Tick, vars, memory, Goes, Rotating
    <2>3. pc' \in Rotating \cup {"ready", "writing", "dead", "down"}
        BY <1>4 DEF Start, Read, ReadFails, CreateBackup, FillBackup, Reopen, WriteRecord, WriteFails,
                    RotationFails, Crash, Tick, vars, memory, Goes, Rotating, Shape
    <2>4. QED
        BY <1>1, <2>1, <2>2, <2>3 DEF Writable
<1>5. QED
    BY <1>3, <1>4 DEF Next

\* What is on disk stays on disk as more may be.
LEMMA SeqWiden == ASSUME NEW S, NEW T, S \subseteq T, NEW s \in Seq(S) PROVE s \in Seq(T) /\ ToSet(s) \in SUBSET T
<1>1. s \in Seq(T)
    OBVIOUS
<1>2. DOMAIN s = 1 .. Len(s) /\ \A i \in 1 .. Len(s) : s[i] \in T
    OBVIOUS
<1>3. QED
    BY <1>1, <1>2 DEF ToSet

\* Nothing is offered or stored in the initial state.
LEMMA ShapeInit == Init => Shape
<1> SUFFICES ASSUME Init PROVE Shape
    OBVIOUS
<1>1. << >> \in Seq(Writable) /\ << >> \in Seq(Lengths) /\ Len(<< >>) = 0
    OBVIOUS
<1>2. file = << >> /\ content = << >> /\ backups \in [Seconds -> Seq(Writable)]
    BY <1>1 DEF Init
<1>3. length \in Seq(Lengths) /\ Len(length) <= MaxRecords
    BY <1>1, BoundAssumption DEF Init
<1>4. pc = "down" /\ open = FALSE /\ name \in Seconds /\ now \in Seconds /\ kept = {} /\ lost = {} /\ cut = {}
    BY DEF Init
<1>5. QED
    BY <1>1, <1>2, <1>3, <1>4 DEF Shape, Rotating

\* The record being written is nowhere until WriteRecord puts it into the file.
LEMMA ShapeStep == Shape /\ [Next]_vars => Shape'
<1> SUFFICES ASSUME Shape, [Next]_vars PROVE Shape'
    OBVIOUS
<1> DEFINE W == Writable'
<1>1. /\ Writable \subseteq W
      /\ length' = length \/ \E len \in Lengths : Offer(len)
      /\ pc' \in Rotating \cup {"ready", "writing", "dead", "down"}
    BY MoreWritable
<1>2. /\ file \in Seq(W) /\ content \in Seq(W) /\ backups \in [Seconds -> Seq(W)]
      /\ kept \in SUBSET W /\ lost \in SUBSET W /\ cut \in SUBSET W
      /\ ToSet(file) \in SUBSET W /\ \A s \in Seconds : ToSet(backups[s]) \in SUBSET W
      /\ << >> \in Seq(W)
    BY <1>1, SeqWiden DEF Shape
<1>3. /\ length' \in Seq(Lengths) /\ Len(length') <= MaxRecords
      /\ (pc' \in Rotating \cup {"writing"} => length' # << >>)
    <2>1. ASSUME NEW len \in Lengths, Offer(len)
          PROVE  length' \in Seq(Lengths) /\ Len(length') <= MaxRecords /\ length' # << >>
        <3>1. Len(length) \in Nat /\ length \in Seq(Lengths) /\ Len(length) < MaxRecords
            BY <2>1 DEF Offer, Shape
        <3>2. length' = Append(length, len)
            BY <2>1 DEF Offer
        <3>3. length' \in Seq(Lengths) /\ Len(length') = Len(length) + 1
            BY <3>1, <3>2
        <3>4. QED
            BY <3>1, <3>3, BoundAssumption
    <2>2. CASE Start \/ Read \/ ReadFails \/ CreateBackup \/ FillBackup \/ Reopen \/ WriteRecord \/ WriteFails
               \/ RotationFails \/ Crash \/ Tick \/ UNCHANGED vars
        <3>1. length' = length
            BY <2>2 DEF Start, Read, ReadFails, CreateBackup, FillBackup, Reopen, WriteRecord, WriteFails,
                        RotationFails, Crash, Tick, vars
        <3>2. pc' \in Rotating \cup {"writing"} => pc \in Rotating \cup {"writing"}
            BY <2>2 DEF Start, Read, ReadFails, CreateBackup, FillBackup, Reopen, WriteRecord, WriteFails,
                        RotationFails, Crash, Tick, vars, memory, Goes, Rotating
        <3>3. QED
            BY <3>1, <3>2 DEF Shape
    <2>3. QED
        BY <2>1, <2>2 DEF Next
<1>4. /\ open' \in BOOLEAN /\ (pc' = "writing" => open' = TRUE) /\ (pc' \in Rotating => open' = FALSE)
      /\ name' \in Seconds /\ now' \in Seconds
    <2>1. ASSUME NEW len \in Lengths, Offer(len)
          PROVE  open' \in BOOLEAN /\ (pc' = "writing" => open' = TRUE) /\ (pc' \in Rotating => open' = FALSE)
                 /\ name' = name /\ now' = now
        <3>1. CASE open = TRUE /\ TooLong(len)
            BY <2>1, <3>1 DEF Offer, Goes, Rotating
        <3>2. CASE open = TRUE /\ ~TooLong(len)
            BY <2>1, <3>2 DEF Offer, Goes, Rotating
        <3>3. CASE open = FALSE
            BY <2>1, <3>3 DEF Offer, Goes, Rotating
        <3>4. QED
            BY <2>1, <3>1, <3>2, <3>3 DEF Shape, Offer
    <2>2. CASE Start \/ Read \/ ReadFails \/ CreateBackup \/ FillBackup \/ Reopen \/ WriteRecord \/ WriteFails
               \/ RotationFails \/ Crash \/ Tick \/ UNCHANGED vars
        BY <2>2 DEF Start, Read, ReadFails, CreateBackup, FillBackup, Reopen, WriteRecord, WriteFails,
                    RotationFails, Crash, Tick, vars, memory, Goes, Rotating, Shape
    <2>3. QED
        BY <2>1, <2>2 DEF Next, Shape
<1>5. /\ file' \in Seq(W) /\ content' \in Seq(W) /\ backups' \in [Seconds -> Seq(W)]
      /\ kept' \in SUBSET W /\ lost' \in SUBSET W /\ cut' \in SUBSET W
    <2> HIDE DEF W
    <2>1. CASE UNCHANGED <<file, content, backups, kept, lost, cut>>
        BY <1>2, <2>1
    <2>2. CASE Read \/ ReadFails \/ Crash
        BY <1>2, <2>2 DEF Read, ReadFails, Crash
    <2>3. CASE CreateBackup \/ FillBackup
        BY <1>2, <2>3 DEF CreateBackup, FillBackup, Shape
    <2>4. CASE Reopen \/ RotationFails
        BY <1>2, <2>4 DEF Reopen, RotationFails
    <2>5. CASE WriteRecord
        <3>1. Len(length) \in W
            <4>1. length' = length /\ length # << >> /\ pc' = "ready"
                BY <2>5 DEF WriteRecord, Goes, Shape
            <4>2. Len(length) \in Nat /\ Len(length) # 0
                BY <4>1 DEF Shape
            <4>3. QED
                BY <4>1, <4>2 DEF W, Writable, Rotating
        <3>2. QED
            BY <1>2, <2>5, <3>1 DEF WriteRecord
    <2>6. QED
        BY <2>1, <2>2, <2>3, <2>4, <2>5 DEF Next, Start, Offer, WriteFails, Tick, vars, memory
<1>6. QED
    BY <1>1, <1>3, <1>4, <1>5 DEF Shape

-----------------------------------------------------------------------------
(* The counter and the limit.                                              *)

\* Records have a length.
LEMMA LengthsPositive ==
    ASSUME length \in Seq(Lengths)
    PROVE  \A x \in 1 .. Len(length) : length[x] \in Nat \ {0}
<1>1. ASSUME NEW x \in 1 .. Len(length) PROVE length[x] \in Lengths
    BY ElementOfSeq
<1>2. QED
    BY <1>1, LengthsAssumption

\* What SizeOf says of the records offered so far.
LEMMA SizeFacts ==
    ASSUME length \in Seq(Lengths), NEW s \in Seq(1 .. Len(length))
    PROVE  /\ SizeOf(s) = TotalOf(length, s)
           /\ SizeOf(s) \in Nat /\ (SizeOf(s) = 0 <=> s = << >>)
           /\ \A x \in 1 .. Len(length) : SizeOf(Append(s, x)) = SizeOf(s) + length[x]
           /\ \A len : TotalOf(Append(length, len), s) = SizeOf(s)
<1> DEFINE D == 1 .. Len(length)
<1>1. SizeOf(s) = TotalOf(length, s) /\ \A x \in D : SizeOf(Append(s, x)) = TotalOf(length, Append(s, x))
    BY DEF SizeOf, TotalOf
<1>2. \A d \in D : length[d] \in Nat \ {0}
    BY LengthsPositive
<1>3. \A len : \A d \in D : Append(length, len)[d] = length[d]
    OBVIOUS
<1>4. Len(s) \in Nat /\ (Len(s) = 0 => s = << >>)
    OBVIOUS
<1>5. s \in Seq(D)
    OBVIOUS
<1> HIDE DEF D
<1>6. /\ TotalOf(length, s) \in Nat /\ Len(s) <= TotalOf(length, s)
      /\ s = << >> => TotalOf(length, s) = 0
      /\ \A x \in D : TotalOf(length, Append(s, x)) = TotalOf(length, s) + length[x]
      /\ \A r : (\A d \in D : r[d] = length[d]) => TotalOf(r, s) = TotalOf(length, s)
    BY <1>2, <1>5, TotalFacts
<1>7. \A len : TotalOf(Append(length, len), s) = TotalOf(length, s)
    BY <1>3, <1>6
<1>8. QED
    BY <1>1, <1>4, <1>6, <1>7 DEF D

\* The counter, and the bound it is for.
Counted ==
    /\ bytes \in Nat
    /\ CounterExact /\ FileBounded
    /\ pc = "writing" /\ file # << >> => SizeOf(file) + length[Len(length)] <= MaxSize

\* Before the first start there is nothing to count.
LEMMA CountedInit == Init => Counted
<1> SUFFICES ASSUME Init PROVE Counted
    OBVIOUS
<1>1. pc = "down" /\ bytes = 0 /\ file = << >> /\ Len(file) = 0
    BY DEF Init
<1>2. QED
    BY <1>1 DEF Counted, CounterExact, FileBounded

\* Offer looks at the counter, and what it lets through fits.
LEMMA CountedStep == Shape /\ Counted /\ [Next]_vars => Counted'
<1> SUFFICES ASSUME Shape, Counted, [Next]_vars PROVE Counted'
    OBVIOUS
<1>1. length \in Seq(Lengths) /\ Len(length) \in Nat /\ file \in Seq(1 .. Len(length))
    <2> DEFINE D == 1 .. Len(length)
    <2>1. length \in Seq(Lengths) /\ Len(length) \in Nat
        BY DEF Shape
    <2>2. Writable \subseteq D
        BY <2>1 DEF Writable
    <2> HIDE DEF D
    <2>3. file \in Seq(D)
        BY <2>2, SeqWiden DEF Shape
    <2>4. QED
        BY <2>1, <2>3 DEF D
<1>2. /\ SizeOf(file) = TotalOf(length, file) /\ SizeOf(file) \in Nat /\ (SizeOf(file) = 0 <=> file = << >>)
      /\ \A x \in 1 .. Len(length) : SizeOf(Append(file, x)) = SizeOf(file) + length[x]
      /\ \A len : TotalOf(Append(length, len), file) = SizeOf(file)
    BY <1>1, SizeFacts
<1>3. SizeOf(file)' = TotalOf(length', file')
    BY DEF SizeOf, TotalOf
<1>4. bytes \in Nat /\ FileBounded /\ (pc \in {"ready", "writing"} /\ open => bytes = SizeOf(file))
      /\ (pc = "writing" /\ file # << >> => SizeOf(file) + length[Len(length)] <= MaxSize)
    BY DEF Counted, CounterExact
<1>5. ASSUME UNCHANGED <<file, length>>, pc' # "writing",
             bytes' \in Nat, pc' = "ready" /\ open' => bytes' = SizeOf(file)
      PROVE  Counted'
    <2>1. SizeOf(file)' = SizeOf(file)
        BY <1>2, <1>3, <1>5
    <2>2. FileBounded'
        BY <1>4, <1>5, <2>1 DEF FileBounded
    <2>3. CounterExact'
        BY <1>5, <2>1 DEF CounterExact
    <2>4. QED
        BY <1>5, <2>2, <2>3 DEF Counted
<1>6. CASE Start
    BY <1>2, <1>5, <1>6 DEF Start, Goes
<1>7. ASSUME NEW len \in Lengths, Offer(len) PROVE Counted'
    <2>1. /\ pc = "ready" /\ pc' \in {"dead", "reading", "writing"} /\ (pc' = "writing" => open /\ ~TooLong(len))
          /\ length' = Append(length, len) /\ UNCHANGED <<file, bytes>>
        BY <1>7 DEF Offer, Goes
    <2>2. SizeOf(file)' = SizeOf(file)
        BY <1>2, <1>3, <2>1
    <2>3. length'[Len(length')] = len /\ len \in Nat
        BY <1>1, <2>1, LengthsAssumption
    <2>4. FileBounded'
        BY <1>4, <2>1, <2>2 DEF FileBounded
    <2>5. pc' = "writing" => bytes' = SizeOf(file)'
        BY <1>4, <2>1, <2>2
    <2>6. pc' = "writing" /\ file' # << >> => SizeOf(file)' + length'[Len(length')] <= MaxSize
        <3>1. ASSUME pc' = "writing", file # << >> PROVE SizeOf(file) + len <= MaxSize
            <4>1. bytes = SizeOf(file) /\ ~(bytes + len > MaxSize /\ bytes > 0)
                BY <1>4, <2>1, <3>1 DEF TooLong
            <4>2. bytes # 0
                BY <1>2, <3>1, <4>1
            <4>3. QED
                BY <1>2, <2>3, <4>1, <4>2, SizeAssumption
        <3>2. QED
            BY <2>1, <2>2, <2>3, <3>1
    <2>7. CounterExact'
        BY <2>1, <2>5 DEF CounterExact
    <2>8. QED
        BY <1>4, <2>1, <2>4, <2>6, <2>7 DEF Counted
<1>8. CASE Read \/ ReadFails \/ CreateBackup \/ FillBackup
    BY <1>4, <1>5, <1>8 DEF Read, ReadFails, CreateBackup, FillBackup, Goes
<1>9. CASE Reopen
    <2>1. file' = << >> /\ bytes' = 0 /\ length' = length /\ Len(file') = 0
        BY <1>9 DEF Reopen
    <2>2. << >> \in Seq(1 .. Len(length))
        OBVIOUS
    <2>3. SizeOf(<< >>) = 0 /\ SizeOf(<< >>) = TotalOf(length, << >>)
        BY <1>1, <2>2, SizeFacts
    <2>4. SizeOf(file)' = 0
        BY <1>3, <2>1, <2>3
    <2>5. QED
        BY <2>1, <2>4 DEF Counted, CounterExact, FileBounded
<1>10. CASE WriteRecord
    <2> DEFINE x == Len(length)
    <2>1. /\ pc = "writing" /\ pc' = "ready" /\ open /\ length' = length /\ x \in 1 .. Len(length)
          /\ file' = Append(file, x) /\ bytes' = bytes + length[x]
        <3>1. /\ pc = "writing" /\ pc' = "ready" /\ length' = length
              /\ file' = Append(file, x) /\ bytes' = bytes + length[x]
            BY <1>10 DEF WriteRecord, Goes
        <3>2. length # << >> /\ open
            BY <3>1 DEF Shape
        <3>3. x \in 1 .. Len(length)
            BY <1>1, <3>2
        <3>4. QED
            BY <3>1, <3>2, <3>3
    <2>2. length[x] \in Nat
        BY <1>1, <2>1, LengthsPositive
    <2>3. SizeOf(file)' = SizeOf(file) + length[x]
        <3>1. Append(file, x) \in Seq(1 .. Len(length))
            BY <1>1, <2>1
        <3>2. SizeOf(Append(file, x)) = TotalOf(length, Append(file, x))
            BY <1>1, <3>1, SizeFacts
        <3>3. QED
            BY <1>2, <1>3, <2>1, <3>2
    <2>4. bytes = SizeOf(file)
        BY <1>4, <2>1
    <2>5. CounterExact' /\ bytes' \in Nat
        BY <1>2, <2>1, <2>2, <2>3, <2>4 DEF CounterExact
    <2>6. FileBounded'
        <3>1. CASE file = << >>
            <4>1. Len(file') = 1
                BY <1>1, <2>1, <3>1
            <4>2. QED
                BY <4>1 DEF FileBounded
        <3>2. CASE file # << >>
            BY <1>4, <2>1, <2>3, <3>2 DEF FileBounded
        <3>3. QED
            BY <3>1, <3>2
    <2>7. QED
        BY <2>1, <2>5, <2>6 DEF Counted
<1>11. CASE WriteFails
    BY <1>4, <1>5, <1>11 DEF WriteFails, Goes
<1>12. CASE RotationFails
    <2>1. open' = FALSE
        BY <1>12 DEF RotationFails, Goes, Shape, Rotating
    <2>2. QED
        BY <1>4, <1>5, <1>12, <2>1 DEF RotationFails, Goes
<1>13. CASE Crash
    BY <1>4, <1>5, <1>13 DEF Crash
<1>14. CASE Tick \/ UNCHANGED vars
    <2>1. UNCHANGED <<file, length, pc, open, bytes>>
        BY <1>14 DEF Tick, vars, memory
    <2>2. SizeOf(file)' = SizeOf(file)
        BY <1>2, <1>3, <2>1
    <2>3. QED
        BY <1>4, <2>1, <2>2 DEF Counted, CounterExact, FileBounded
<1>15. QED
    BY <1>6, <1>7, <1>8, <1>9, <1>10, <1>11, <1>12, <1>13, <1>14 DEF Next

-----------------------------------------------------------------------------
(* Nothing is lost.                                                        *)

\* What the next proof needs of the types.
Typed ==
    /\ file \in Seq(Nat) /\ content \in Seq(Nat)
    /\ backups \in [Seconds -> Seq(Nat)]
    /\ Len(length) \in Nat
    /\ now \in Seconds /\ name \in Seconds

\* It is part of Shape.
LEMMA ShapeTyped == Shape => Typed
<1> SUFFICES ASSUME Shape PROVE Typed
    OBVIOUS
<1>1. Len(length) \in Nat /\ Writable \subseteq Nat
    BY DEF Shape, Writable
<1>2. /\ file \in Seq(Nat) /\ content \in Seq(Nat)
      /\ \A s \in Seconds : backups[s] \in Seq(Nat)
    BY <1>1, SeqWiden DEF Shape
<1>3. QED
    BY <1>1, <1>2 DEF Shape, Typed

\* The file's records have been read; the backup was emptied, then filled; when
\* the file is about to be truncated they are in the backup or given up.
Kept ==
    /\ pc \in {"naming", "filling"} => content = file
    /\ pc = "filling" => backups[name] = << >>
    /\ pc = "reopening" => ToSet(file) \subseteq ToSet(backups[name]) \cup lost

\* An empty sequence has no elements, and appending adds one.
LEMMA ToSetFacts ==
    /\ ToSet(<< >>) = {}
    /\ \A s \in Seq(Nat), x \in Nat : ToSet(Append(s, x)) = ToSet(s) \cup {x}
<1>1. ToSet(<< >>) = {}
    BY DEF ToSet
<1>2. ASSUME NEW s \in Seq(Nat), NEW x \in Nat
      PROVE  ToSet(Append(s, x)) = ToSet(s) \cup {x}
    <2>1. /\ DOMAIN s = 1 .. Len(s) /\ DOMAIN Append(s, x) = 1 .. Len(s) + 1
          /\ Len(s) \in Nat
          /\ \A i \in 1 .. Len(s) : Append(s, x)[i] = s[i]
          /\ Append(s, x)[Len(s) + 1] = x
        OBVIOUS
    <2>2. 1 .. Len(s) + 1 = (1 .. Len(s)) \cup {Len(s) + 1}
        BY <2>1
    <2>. QED
        BY <2>1, <2>2 DEF ToSet
<1>. QED
    BY <1>1, <1>2

\* A step that leaves the disk and what was kept and lost alone.
LEMMA DiskUntouched ==
    ASSUME NothingLost, UNCHANGED <<file, backups, kept, lost>>
    PROVE  NothingLost'
BY DEF NothingLost, Stored

\* Every step preserves both.
LEMMA KeptStep == Typed /\ Kept /\ NothingLost /\ [Next]_vars => (Kept /\ NothingLost)'
<1>. SUFFICES ASSUME Typed, Kept, NothingLost, [Next]_vars PROVE (Kept /\ NothingLost)'
    OBVIOUS
<1>1. CASE Start
    BY <1>1, DiskUntouched DEF Start, Goes, Typed, Kept
<1>2. ASSUME NEW len \in Lengths, Offer(len) PROVE (Kept /\ NothingLost)'
    <2>1. Kept'
        BY <1>2 DEF Offer, Goes, Kept
    <2>. QED
        BY <1>2, <2>1, DiskUntouched DEF Offer
<1>3. CASE Read
    BY <1>3, DiskUntouched DEF Read, Goes, Typed, Kept
<1>4. CASE ReadFails
    BY <1>4 DEF ReadFails, Goes, Typed, Kept, NothingLost, Stored
<1>5. CASE CreateBackup
    <2>1. Kept'
        BY <1>5 DEF CreateBackup, Goes, Typed, Kept
    <2>2. \A s \in Seconds : s # now => backups'[s] = backups[s]
        BY <1>5 DEF CreateBackup, Typed
    <2>3. Stored \subseteq Stored' \cup ToSet(backups[now])
        BY <1>5, <2>2 DEF CreateBackup, Stored
    <2>4. NothingLost'
        BY <1>5, <2>3 DEF CreateBackup, NothingLost
    <2>. QED
        BY <2>1, <2>4
<1>6. CASE FillBackup
    <2>1. backups'[name] = file /\ \A s \in Seconds : s # name => backups'[s] = backups[s]
        BY <1>6 DEF FillBackup, Goes, Typed, Kept
    <2>2. Kept'
        BY <1>6, <2>1 DEF FillBackup, Goes, Kept
    <2>3. \A s \in Seconds : ToSet(backups[s]) \subseteq ToSet(backups'[s])
        <3>1. ToSet(backups[name]) = {}
            BY <1>6, ToSetFacts DEF FillBackup, Goes, Kept
        <3>. QED
            BY <2>1, <3>1
    <2>4. Stored \subseteq Stored'
        BY <1>6, <2>3 DEF FillBackup, Stored
    <2>5. NothingLost'
        BY <1>6, <2>4 DEF FillBackup, NothingLost
    <2>. QED
        BY <2>2, <2>5
<1>7. CASE Reopen
    <2>1. Kept'
        BY <1>7 DEF Reopen, Goes, Typed, Kept
    <2>2. ToSet(file) \subseteq ToSet(backups[name]) \cup lost
        BY <1>7 DEF Reopen, Goes, Kept
    <2>3. Stored \subseteq Stored' \cup lost
        BY <1>7, <2>2 DEF Reopen, Stored, Typed
    <2>4. NothingLost'
        BY <1>7, <2>3 DEF Reopen, NothingLost
    <2>. QED
        BY <2>1, <2>4
<1>8. CASE WriteRecord
    <2>1. Kept'
        BY <1>8 DEF WriteRecord, Goes, Kept
    <2>2. ToSet(file') = ToSet(file) \cup {Len(length)}
        BY <1>8, ToSetFacts DEF WriteRecord, Typed
    <2>3. NothingLost'
        BY <1>8, <2>2 DEF WriteRecord, NothingLost, Stored
    <2>. QED
        BY <2>1, <2>3
<1>9. CASE WriteFails
    BY <1>9, DiskUntouched DEF WriteFails, Goes, Typed, Kept
<1>10. CASE RotationFails
    BY <1>10, DiskUntouched DEF RotationFails, Goes, Typed, Kept
<1>11. CASE Crash
    <2>1. Kept'
        BY <1>11 DEF Crash, Typed, Kept
    <2>. QED
        BY <1>11, <2>1, DiskUntouched DEF Crash
<1>12. CASE Tick
    BY <1>12, DiskUntouched DEF Tick, memory, Typed, Kept
<1>13. CASE UNCHANGED vars
    BY <1>13, DiskUntouched DEF vars, memory, Typed, Kept
<1>. QED
    BY <1>1, <1>2, <1>3, <1>4, <1>5, <1>6, <1>7, <1>8, <1>9, <1>10, <1>11, <1>12, <1>13 DEF Next

-----------------------------------------------------------------------------
(* Order.                                                                  *)

\* Backups are disjoint but for records in cut.  What is in them is older than what
\* is in the file, from the truncation of the file to the next copy of it.
Ordered ==
    /\ \A s, t \in Seconds : s # t => ToSet(backups[s]) \cap ToSet(backups[t]) \subseteq cut
    /\ pc # "reopening" =>
          \A s \in Seconds : \A old \in ToSet(backups[s]), new \in ToSet(file) \ cut : old < new

\* Nothing is stored twice in the initial state.
LEMMA OrderedInit == Init => Ordered
<1> SUFFICES ASSUME Init PROVE Ordered
    OBVIOUS
<1>1. ToSet(file) = {} /\ \A s \in Seconds : ToSet(backups[s]) = {}
    BY ToSetFacts DEF Init
<1>2. QED
    BY <1>1 DEF Ordered

\* FillBackup copies what is newer than every backup; a rotation cut short before
\* the truncation leaves the copies in cut.
LEMMA OrderedStep == Shape /\ Kept /\ Ordered /\ [Next]_vars => Ordered'
<1> SUFFICES ASSUME Shape, Kept, Ordered, [Next]_vars PROVE Ordered'
    OBVIOUS
<1>1. ASSUME UNCHANGED <<file, backups>>, cut \subseteq cut', pc # "reopening" \/ ToSet(file) \subseteq cut'
      PROVE  Ordered'
    BY <1>1 DEF Ordered
<1>2. ASSUME NEW len \in Lengths, Offer(len) PROVE Ordered'
    BY <1>1, <1>2 DEF Offer, Goes
<1>3. CASE Start \/ Read \/ ReadFails \/ WriteFails
    BY <1>1, <1>3 DEF Start, Read, ReadFails, WriteFails, Goes
<1>4. CASE RotationFails \/ Crash
    <2>1. UNCHANGED <<file, backups>> /\ cut \subseteq cut'
        BY <1>4 DEF RotationFails, Crash
    <2>2. pc = "reopening" => ToSet(file) \subseteq cut'
        BY <1>4 DEF RotationFails, Crash, Rotating
    <2>3. QED
        BY <1>1, <2>1, <2>2
<1>5. CASE CreateBackup
    <2>1. /\ UNCHANGED <<file, cut>> /\ pc = "naming"
          /\ backups' = [backups EXCEPT ![now] = << >>] /\ now \in Seconds
        BY <1>5 DEF CreateBackup, Goes, Shape
    <2>2. \A s \in Seconds : ToSet(backups'[s]) \subseteq ToSet(backups[s])
        <3>1. ToSet(backups'[now]) = {}
            BY <2>1, ToSetFacts DEF Shape
        <3>2. \A s \in Seconds : s # now => backups'[s] = backups[s]
            BY <2>1 DEF Shape
        <3>3. QED
            BY <3>1, <3>2
    <2>3. QED
        BY <2>1, <2>2 DEF Ordered
<1>6. CASE FillBackup
    <2>1. /\ UNCHANGED <<file, cut, name>> /\ pc = "filling" /\ pc' = "reopening" /\ content = file
          /\ backups' = [backups EXCEPT ![name] = file] /\ name \in Seconds
        BY <1>6 DEF FillBackup, Goes, Shape, Kept
    <2>2. backups'[name] = file /\ \A s \in Seconds : s # name => backups'[s] = backups[s]
        BY <2>1 DEF Shape
    <2>3. \A s \in Seconds : ToSet(backups[s]) \subseteq Nat
        <3>1. ASSUME NEW s \in Seconds PROVE ToSet(backups[s]) \in SUBSET Writable
            <4>1. backups[s] \in Seq(Writable)
                BY DEF Shape
            <4>2. QED
                BY <4>1, SeqWiden
        <3>2. Writable \subseteq Nat
            BY DEF Writable
        <3>3. QED
            BY <3>1, <3>2
    <2>4. ASSUME NEW s \in Seconds PROVE ToSet(backups[s]) \cap ToSet(file) \subseteq cut
        <3>1. ASSUME NEW x \in ToSet(backups[s]) \cap ToSet(file), x \notin cut PROVE FALSE
            <4>1. x < x
                BY <2>1, <3>1 DEF Ordered
            <4>2. x \in Nat
                BY <2>3
            <4>3. QED
                BY <4>1, <4>2
        <3>2. QED
            BY <3>1
    <2>5. \A s, t \in Seconds : s # t => ToSet(backups'[s]) \cap ToSet(backups'[t]) \subseteq cut
        BY <2>2, <2>4 DEF Ordered
    <2>6. QED
        BY <2>1, <2>5 DEF Ordered
<1>7. CASE Reopen
    <2>1. UNCHANGED <<backups, cut>> /\ ToSet(file') = {}
        BY <1>7, ToSetFacts DEF Reopen
    <2>2. QED
        BY <2>1 DEF Ordered
<1>8. CASE WriteRecord
    <2> DEFINE x == Len(length)
    <2>1. /\ UNCHANGED <<backups, cut>> /\ pc = "writing" /\ file' = Append(file, x)
        BY <1>8 DEF WriteRecord, Goes
    <2>2. x \in Nat /\ Writable = 1 .. x-1
        BY <2>1 DEF Shape, Writable
    <2> HIDE DEF x
    <2>3. file \in Seq(Nat)
        <3>1. Writable \subseteq Nat /\ file \in Seq(Writable)
            BY <2>2 DEF Shape
        <3>2. QED
            BY <3>1, SeqWiden
    <2>4. ToSet(file') = ToSet(file) \cup {x}
        BY <2>1, <2>2, <2>3, ToSetFacts
    <2>5. ASSUME NEW s \in Seconds, NEW old \in ToSet(backups[s]) PROVE old < x
        <3>1. backups[s] \in Seq(Writable)
            BY DEF Shape
        <3>2. old \in Writable
            BY <3>1, SeqWiden
        <3>3. QED
            BY <2>2, <3>2
    <2>6. QED
        BY <2>1, <2>4, <2>5 DEF Ordered
<1>9. CASE Tick \/ UNCHANGED vars
    BY <1>9 DEF Tick, vars, memory, Ordered
<1>10. QED
    BY <1>2, <1>3, <1>4, <1>5, <1>6, <1>7, <1>8, <1>9 DEF Next

-----------------------------------------------------------------------------
(* Theorems.                                                               *)

IInv == Shape /\ Counted /\ Kept /\ NothingLost /\ Ordered

LEMMA Invariance == Spec => []IInv
<1>1. Init => IInv
    <2>1. Init => Kept /\ NothingLost
        BY DEF Init, Rotating, Kept, NothingLost
    <2>2. QED
        BY <2>1, ShapeInit, CountedInit, OrderedInit DEF IInv
<1>2. IInv /\ [Next]_vars => IInv'
    BY ShapeStep, ShapeTyped, CountedStep, KeptStep, OrderedStep DEF IInv
<1>3. QED
    BY <1>1, <1>2, PTL DEF Spec

\* Every variable keeps its type, and the unwrap of the file after a rotation
\* does not panic: a record is only written to a file that is open.
THEOREM TypeCorrect == Spec => []TypeOK
<1>1. IInv => TypeOK
    <2> SUFFICES ASSUME Shape, bytes \in Nat PROVE TypeOK
        BY DEF IInv, Counted
    <2>1. Writable \subseteq Records
        BY BoundAssumption DEF Shape, Writable, Records
    <2>2. /\ file \in Seq(Records) /\ content \in Seq(Records)
          /\ \A s \in Seconds : backups[s] \in Seq(Records)
        BY <2>1, SeqWiden DEF Shape
    <2>3. kept \cup lost \cup cut \subseteq Records
        BY <2>1 DEF Shape
    <2>4. QED
        BY <2>2, <2>3 DEF Shape, TypeOK
<1>2. QED
    BY <1>1, Invariance, PTL

\* A record for which write returned Ok is in the file or in a backup, unless the
\* file could not be read when it was rotated or its backup's name was used twice.
THEOREM RotationLosesNothing == Spec => []NothingLost
<1>1. IInv => NothingLost
    BY DEF IInv
<1>2. QED
    BY <1>1, Invariance, PTL

\* Whatever fails and wherever the process stops, a writer that has its file knows
\* the file's length.
THEOREM CounterIsExact == Spec => []CounterExact
<1>1. IInv => CounterExact
    BY DEF IInv, Counted
<1>2. QED
    BY <1>1, Invariance, PTL

\* For every limit, the file is longer than it only when it holds a single record.
THEOREM FileStaysBounded == Spec => []FileBounded
<1>1. IInv => FileBounded
    BY DEF IInv, Counted
<1>2. QED
    BY <1>1, Invariance, PTL

\* However rotations fail, crash and share names, backups hold what came before the
\* file and nothing is stored twice, but for what a rotation cut short left behind.
THEOREM StoredInOrder == Spec => []InOrderOnce
<1>1. IInv => InOrderOnce
    BY DEF IInv, Ordered, InOrderOnce, Rotating
<1>2. QED
    BY <1>1, Invariance, PTL

=============================================================================
