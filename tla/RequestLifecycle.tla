-------------------------- MODULE RequestLifecycle --------------------------
(***************************************************************************)
(* What the router promises about a request and the load it accounts for   *)
(* it, whatever the policy, the pool and the failures: a request is charged *)
(* to one worker at most, the charge is taken back from that worker before *)
(* the answer is passed on or the request given up, and every request that *)
(* arrives is over in the end.  There is no pool, no health and no policy  *)
(* here; Gateway and K8sGateway implement this specification, PdPipeline   *)
(* does not.                                                               *)
(***************************************************************************)
EXTENDS Integers

CONSTANTS Requests, Workers, NoWorker

VARIABLES
    phase,    \* how far the current request of each slot is
    worker,   \* the worker it is charged to
    load      \* the requests charged to each worker

vars == <<phase, worker, load>>

Phases == {"idle", "waiting", "charged", "answering"}

Init ==
    /\ phase = [r \in Requests |-> "idle"]
    /\ worker = [r \in Requests |-> NoWorker]
    /\ load = [w \in Workers |-> 0]

Becomes(r, from, to) == phase[r] = from /\ phase' = [phase EXCEPT ![r] = to]

Arrive(r) == Becomes(r, "idle", "waiting") /\ UNCHANGED <<worker, load>>

\* No worker is available, or the policy failed.
Refuse(r) == Becomes(r, "waiting", "idle") /\ UNCHANGED <<worker, load>>

Charge(r) ==
    /\ Becomes(r, "waiting", "charged")
    /\ \E w \in Workers : /\ worker' = [worker EXCEPT ![r] = w]
                          /\ load' = [load EXCEPT ![w] = load[w] + 1]

\* The charge goes back when the answer is there, or there will be none.
Release(r) ==
    /\ Becomes(r, "charged", "answering") \/ Becomes(r, "charged", "idle")
    /\ worker' = [worker EXCEPT ![r] = NoWorker]
    /\ load' = [load EXCEPT ![worker[r]] = load[worker[r]] - 1]

Finish(r) == Becomes(r, "answering", "idle") /\ UNCHANGED <<worker, load>>

Serve(r) == Refuse(r) \/ Charge(r) \/ Release(r) \/ Finish(r)

Next == \E r \in Requests : Arrive(r) \/ Serve(r)

Spec == Init /\ [][Next]_vars

FairSpec == Spec /\ \A r \in Requests : WF_vars(Serve(r))

=============================================================================
