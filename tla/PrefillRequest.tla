--------------------------- MODULE PrefillRequest ---------------------------
(***************************************************************************)
(* routes/prefill.rs: the requests sent to the two workers of a pair, made *)
(* from the client's.  A limit of tokens is an integer; a minimum is       *)
(* [u64, n], the number n that it asks for (or that it starts with, for a  *)
(* float) and whether as_u64 reads it: a float such as 3.0, a string or a  *)
(* negative number it does not.                                            *)
(***************************************************************************)
EXTENDS Integers, JsonValues

CONSTANT RoomBound     \* an i64 is in -RoomBound .. RoomBound-1

ASSUME RoomAssumption == RoomBound \in Nat \ {0}

\* v[k] = x makes an object of null, and panics for anything else.
Indexable(v) == v.is \in {"object", "null"}
Put(v, k, x) == Obj(Over([f \in {k} |-> x], v.fields))

Without(v, k) == [v EXCEPT !.fields = [f \in DOMAIN v.fields \ {k} |-> v.fields[f]]]

\* as_object_mut().insert(..): what is not an object is left as it is.
Insert(v, more) == IF v.is = "object" THEN Obj(Over(more, v.fields)) ELSE v

\* Mutant of Clamped: the minimum stays as the client wrote it.
Unclamped(v) == v

\* json!(1), as a minimum.
AtLeastOne == [u64 |-> TRUE, n |-> 1]

\* What as_u64 reads as more than the limit of one token.
Exceeds(minimum) == minimum.u64 /\ minimum.n > 1

\* A minimum above the limit is lowered, if as_u64 reads it; else it stays.
Clamped(v) ==
    IF Has(v, "min_tokens") /\ Exceeds(v.fields["min_tokens"]) THEN Put(v, "min_tokens", AtLeastOne) ELSE v

PreparePanics(request, api) ==
    \/ ~Indexable(request)
    \/ api = "generate" /\ Has(request, "sampling_params") /\ ~Indexable(request.fields["sampling_params"])

\* The limits of each API, one token each.
OneToken(request, api) ==
    CASE api = "generate" ->
            Put(request, "sampling_params",
                IF Has(request, "sampling_params")
                THEN Clamped(Put(request.fields["sampling_params"], "max_tokens", 1))
                ELSE Obj([max_tokens |-> 1, min_tokens |-> AtLeastOne]))
      [] api = "responses" -> Put(request, "max_output_tokens", 1)
      [] api = "completions" ->
            LET limited == Put(request, "max_tokens", 1)
            IN  Clamped(IF Has(request, "max_completion_tokens")
                        THEN Put(limited, "max_completion_tokens", 1) ELSE limited)

\* prepare_prefill_request, where it does not panic.
Prepared(request, api) == Without(Put(OneToken(request, api), "stream", FALSE), "stream_options")

\* The port of a URL without one, or with the scheme's own (Url::port says None).
BootstrapHost(url) == <<url.host, IF url.port \in {"none", "scheme's"} THEN "8000" ELSE url.port>>

\* i64::abs, which wraps for the least value in a release build.
Abs(room) == IF room >= 0 \/ room = -RoomBound THEN room ELSE -room

\* build_sglang_bootstrap_params, with the room that was drawn.
BootstrapParams(url, room) ==
    [bootstrap_host |-> BootstrapHost(url), bootstrap_port |-> 8998, bootstrap_room |-> Abs(room)]

=============================================================================
