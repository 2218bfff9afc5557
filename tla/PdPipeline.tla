---------------------------- MODULE PdPipeline ----------------------------
(***************************************************************************)
(* The prefill/decode pipeline of routes/pd_handler.rs with static pools:  *)
(* vLLM mode sends the prefill request, waits for it, then sends decode;   *)
(* SGLang mode picks both workers, then sends both requests at once.       *)
(*                                                                         *)
(* Unlike the regular handler this one has no guard: it calls              *)
(* finish_prefill_request and finish_decode_request itself, and an early   *)
(* return, a panic or a dropped future in between leaves the counter as it *)
(* is.  `held[r]' is what the handler of slot r has started and not yet    *)
(* finished: the URLs in its locals.  When it ends they are forgotten, and *)
(* a charge that is still on a counter then is one no handler will ever    *)
(* take back.                                                              *)
(*                                                                         *)
(* Any healthy worker may be selected: which one is the business of module *)
(* Policies.  Health flags change at any time, which includes everything   *)
(* the health checker does.                                                *)
(***************************************************************************)
EXTENDS Integers, FiniteSets

CONSTANTS
    Modes,      \* the values of PdMode considered
    Size,       \* Size[p]: number of workers of pool p
    Requests,   \* client connections
    Usize,      \* number of values of a usize
    Faults      \* the kinds of failure that may happen

Pools      == {"prefill", "decode"}
FaultKinds == {"build", "send", "body", "client", "panic"}

ASSUME ModesAssumption    == Modes \subseteq {"vllm", "sglang"}
ASSUME SizeAssumption     == Size \in [Pools -> Nat \ {0}]
ASSUME RequestsAssumption == IsFiniteSet(Requests)
ASSUME UsizeAssumption    == Usize \in Nat /\ Usize > Cardinality(Requests)
ASSUME FaultsAssumption   == Faults \subseteq FaultKinds

Workers(p) == 0 .. Size[p] - 1
None       == -1                        \* no worker of that pool
NoneHeld   == [p \in Pools |-> None]

VARIABLES
    mode,      \* PdMode, fixed at start-up
    healthy,   \* Worker.healthy, per pool
    active,    \* the counters of prefill_policy and decode_policy
    pc,        \* where the handler of each slot is
    held       \* the worker of each pool started and not finished

vars == <<mode, healthy, active, pc, held>>

Stages == {"idle", "arrived", "prefill_ready", "prefill_sent", "prefill_body", "refused",
           "decode_wanted", "decode_ready", "decode_sent", "logprobs", "decode_body"}

PerWorker(S) == {f \in [Pools -> UNION {[Workers(p) -> S] : p \in Pools}] :
                   \A p \in Pools : f[p] \in [Workers(p) -> S]}

\* Every variable has its type: counters in their machine range, and a handler
\* holds workers of the pools they belong to.
TypeOK ==
    /\ mode \in Modes
    /\ healthy \in PerWorker(BOOLEAN)
    /\ active \in PerWorker(0 .. Usize-1)
    /\ pc \in [Requests -> Stages]
    /\ \A r \in Requests : /\ DOMAIN held[r] = Pools
                           /\ \A p \in Pools : held[r][p] \in Workers(p) \cup {None}

Init ==
    /\ mode \in Modes
    /\ healthy = [p \in Pools |-> [w \in Workers(p) |-> TRUE]]
    /\ active = [p \in Pools |-> [w \in Workers(p) |-> 0]]
    /\ pc = [r \in Requests |-> "idle"]
    /\ held = [r \in Requests |-> NoneHeld]

-----------------------------------------------------------------------------

Moves(r, from, to) == pc[r] = from /\ pc' = [pc EXCEPT ![r] = to]

HealthyIn(p) == {w \in Workers(p) : healthy[p][w]}

\* Mutant of Begin: one index variable for both pools.
BeginOneIndex(r, p, w) ==
    /\ healthy[p][w]
    /\ active' = [active EXCEPT ![p][w] = (@ + 1) % Usize]
    /\ held' = [held EXCEPT ![r] = [q \in Pools |-> w]]

\* next_prefill_worker, next_decode_worker: choose, on_request_start.
Begin(r, p, w) ==
    /\ healthy[p][w]
    /\ active' = [active EXCEPT ![p][w] = (@ + 1) % Usize]
    /\ held' = [held EXCEPT ![r][p] = w]

\* Mutant of Finish: the position in a one-worker list instead of the place in the pool.
FinishFirst(r, done) ==
    /\ active' = [p \in Pools |->
          IF p \in done THEN [active[p] EXCEPT ![0] = (@ - 1) % Usize] ELSE active[p]]
    /\ held' = [held EXCEPT ![r] = [p \in Pools |-> IF p \in done THEN None ELSE @[p]]]

\* finish_prefill_request, finish_decode_request for the pools of `done'.
Finish(r, done) ==
    /\ active' = [p \in Pools |->
          IF p \in done THEN [active[p] EXCEPT ![held[r][p]] = (@ - 1) % Usize] ELSE active[p]]
    /\ held' = [held EXCEPT ![r] = [p \in Pools |-> IF p \in done THEN None ELSE @[p]]]

\* The handler returns, panics or is dropped; the counters stay as they are.
Ends(r) ==
    /\ pc' = [pc EXCEPT ![r] = "idle"]
    /\ held' = [held EXCEPT ![r] = NoneHeld]
    /\ UNCHANGED <<mode, healthy, active>>

EndsAt(r, stages) == pc[r] \in stages /\ Ends(r)

\* What the handler of slot r fails with, if failures of this kind happen.
FailsAt(r, kind, stages) == kind \in Faults /\ EndsAt(r, stages)

-----------------------------------------------------------------------------
(* Selecting the workers.                                                  *)

\* An inference request whose body is JSON (anything else ends in a 400 before
\* any of this state is touched).
Arrive(r) ==
    /\ Moves(r, "idle", "arrived")
    /\ UNCHANGED <<mode, healthy, active, held>>

SelectPrefill(r) ==
    /\ Moves(r, "arrived", IF mode = "vllm" THEN "prefill_ready" ELSE "decode_wanted")
    /\ \E w \in Workers("prefill") : Begin(r, "prefill", w)
    /\ UNCHANGED <<mode, healthy>>

NoPrefillWorkers(r) == HealthyIn("prefill") = {} /\ EndsAt(r, {"arrived"})

SelectDecode(r) ==
    /\ Moves(r, "decode_wanted", "decode_ready")
    /\ \E w \in Workers("decode") : Begin(r, "decode", w)
    /\ UNCHANGED <<mode, healthy>>

\* In SGLang mode the prefill worker has been started already.
NoDecodeWorkers(r) == HealthyIn("decode") = {} /\ EndsAt(r, {"decode_wanted"})

\* select_with_context panics (jsq_fallback does, see Gateway).
PolicyPanics(r) == FailsAt(r, "panic", {"arrived", "decode_wanted"})

-----------------------------------------------------------------------------
(* Stage 1 of vLLM mode: the prefill request on its own.                   *)

SendPrefill(r) ==
    /\ Moves(r, "prefill_ready", "prefill_sent")
    /\ UNCHANGED <<mode, healthy, active, held>>

\* Headers with a success status; the body is still to be read.
PrefillHeaders(r) ==
    /\ Moves(r, "prefill_sent", "prefill_body")
    /\ UNCHANGED <<mode, healthy, active, held>>

\* Any other status: finish at once, then read the error text.
PrefillRefused(r) ==
    /\ Moves(r, "prefill_sent", "refused")
    /\ Finish(r, {"prefill"})
    /\ UNCHANGED <<mode, healthy>>

RefusalRead(r) == EndsAt(r, {"refused"})

PrefillDone(r) ==
    /\ Moves(r, "prefill_body", "decode_wanted")
    /\ Finish(r, {"prefill"})
    /\ UNCHANGED <<mode, healthy>>

\* The body breaks off, times out, or is not JSON.
PrefillBodyFails(r) == FailsAt(r, "body", {"prefill_body"})

-----------------------------------------------------------------------------
(* The decode request; in SGLang mode, both requests.                      *)

SendDecode(r) ==
    /\ Moves(r, "decode_ready", "decode_sent")
    /\ UNCHANGED <<mode, healthy, active, held>>

\* Mutant of DecodeHeaders: only the decode worker is finished in SGLang mode too.
DecodeHeadersAlone(r) ==
    /\ \/ Moves(r, "decode_sent", "decode_body")
       \/ mode = "sglang" /\ Moves(r, "decode_sent", "logprobs")
    /\ Finish(r, {"decode"})
    /\ UNCHANGED <<mode, healthy>>

\* In SGLang mode try_join! has the headers of both workers, and the prefill
\* body is read for its logprobs if they are asked for.
DecodeHeaders(r) ==
    /\ \/ Moves(r, "decode_sent", "decode_body")
       \/ mode = "sglang" /\ Moves(r, "decode_sent", "logprobs")
    /\ Finish(r, IF mode = "vllm" THEN {"decode"} ELSE Pools)
    /\ UNCHANGED <<mode, healthy>>

\* Read or failed to read: the response is built either way.
LogprobsRead(r) ==
    /\ Moves(r, "logprobs", "decode_body")
    /\ UNCHANGED <<mode, healthy, active, held>>

\* The body is streamed or collected, merged and returned, or an error is.
Respond(r) == EndsAt(r, {"decode_body"})

-----------------------------------------------------------------------------
(* Failures.                                                               *)

\* A worker URL does not parse, or prepare_prefill_request indexes into JSON
\* that is not an object and panics.
BuildFails(r) == FailsAt(r, "build", {"prefill_ready", "decode_ready"})

\* Mutant of SendFails: without the client's timeout only live workers can fail a send.
SendFailsNoTimeout(r) ==
    /\ \A p \in Pools : held[r][p] # None => healthy[p][held[r][p]]
    /\ FailsAt(r, "send", {"prefill_sent", "decode_sent"})

\* Refused connection or timeout, of either worker in SGLang mode.
SendFails(r) == FailsAt(r, "send", {"prefill_sent", "decode_sent"})

\* The client hangs up: the future is dropped at the await it is suspended in.
ClientGone(r) ==
    FailsAt(r, "client", {"prefill_sent", "prefill_body", "refused", "decode_sent",
                          "logprobs", "decode_body"})

HealthChanges(p, w) ==
    /\ healthy' = [healthy EXCEPT ![p][w] = ~@]
    /\ UNCHANGED <<mode, active, pc, held>>

-----------------------------------------------------------------------------

\* What ends by itself or by the HTTP client's timeout.
Router(r) ==
    \/ SelectPrefill(r) \/ NoPrefillWorkers(r)
    \/ SelectDecode(r) \/ NoDecodeWorkers(r)
    \/ SendPrefill(r) \/ RefusalRead(r) \/ PrefillBodyFails(r)
    \/ SendDecode(r) \/ SendFails(r) \/ LogprobsRead(r) \/ Respond(r)

\* What takes a worker's answer.
Answered(r) == PrefillHeaders(r) \/ PrefillRefused(r) \/ PrefillDone(r) \/ DecodeHeaders(r)

Next ==
    \/ \E r \in Requests : \/ Arrive(r) \/ Router(r) \/ Answered(r)
                           \/ BuildFails(r) \/ PolicyPanics(r) \/ ClientGone(r)
    \/ \E p \in Pools : \E w \in Workers(p) : HealthChanges(p, w)

Spec == Init /\ [][Next]_vars

\* The runtime runs every woken task and the timeout ends every send and body
\* (given "send" and "body" among the faults); no worker is assumed to answer.
FairSpec == Spec /\ \A r \in Requests : WF_vars(Router(r))

-----------------------------------------------------------------------------
(* Properties.                                                             *)

Holders(p, w) == {r \in Requests : held[r][p] = w}

\* What a counter shows beyond the requests under way, modulo its width.
Drift(p, w) == (active[p][w] - Cardinality(Holders(p, w))) % Usize

\* The stages between the start of a pool's worker and its finish.  In SGLang
\* mode the prefill worker is started before a decode worker is asked for.
Window(p) ==
    IF p = "decode"
    THEN {"decode_ready", "decode_sent"}
    ELSE {"prefill_ready", "prefill_sent", "prefill_body"}
            \cup (IF mode = "sglang" THEN {"decode_wanted", "decode_ready", "decode_sent"} ELSE {})

\* A counter parts from the requests under way in one way only: a handler ends,
\* by an early return, a panic or a dropped future, between its start of that
\* worker and its finish, and the counter keeps that one charge.  In particular
\* no charge is lost by a handler that ends elsewhere, and no request is
\* finished twice, in the other pool, or for another worker, however the two
\* modes, the failures and the disconnects interleave.
DriftsOnlyInWindow ==
    [][\A p \in Pools : \A w \in Workers(p) :
          Drift(p, w)' # Drift(p, w) =>
              /\ Drift(p, w)' = (Drift(p, w) + 1) % Usize
              /\ \E r \in Requests :
                     held[r][p] = w /\ pc[r] \in Window(p) /\ pc'[r] = "idle"]_vars

\* Once a handler has the response (or refusal) it will pass on, it owes the
\* policies nothing: what fails from there on, in the body, the merge or the
\* client, leaks no counter.
ReleasedBeforeResponding ==
    \A r \in Requests :
        pc[r] \in {"idle", "arrived", "refused", "logprobs", "decode_body"} => held[r] = NoneHeld

\* Every request that arrives is answered, refused or given up, under FairSpec.
RequestsAnswered == \A r \in Requests : pc[r] # "idle" ~> pc[r] = "idle"

=============================================================================
