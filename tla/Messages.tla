------------------------------ MODULE Messages ------------------------------
(***************************************************************************)
(* What the router makes of one exchange: the routing context, the         *)
(* requests to the prefill and the decode worker, and the answer to the    *)
(* client, in the order in which pd_handler.rs makes them.  Selection,     *)
(* counters and failures of the transport are PdPipeline's; here every     *)
(* request is sent and answered.                                           *)
(***************************************************************************)
EXTENDS RequestContext, PrefillRequest, LogprobsMerge

CONSTANTS
    Modes,      \* "regular", "vllm", "sglang"
    Apis,       \* the APIs by their paths
    Inputs,     \* what clients send, [headers, body], in each mode
    Urls,       \* URLs of prefill workers: [host, port]
    Rooms,      \* what the random generator may draw
    Prefills,   \* answers of prefill workers
    Decodes     \* answers of decode workers

ASSUME ModesAssumption == Modes \subseteq {"regular", "vllm", "sglang"}
ASSUME ApisAssumption  == Apis \subseteq {"completions", "responses", "generate"}
ASSUME UrlsAssumption  == \A u \in Urls : DOMAIN u = {"host", "port"}
ASSUME RoomsAssumption == Rooms \subseteq -RoomBound .. RoomBound-1

\* The shapes that the other modules describe: of requests, where a field that is
\* no array is left out, and of answers.
IsLimited(v) == IsJson(v) /\ (Has(v, "min_tokens") => v.fields["min_tokens"] \in [u64 : BOOLEAN, n : Int])
IsRequest(b) ==
    /\ IsLimited(b)
    /\ Has(b, "messages") => IsArray(b.fields["messages"])
    /\ Has(b, "sampling_params") => IsLimited(b.fields["sampling_params"])
IsChoice(c) ==
    /\ PromptLen(c) \in Nat
    /\ Given("logprobs", c) =>
          \A a \in DOMAIN c.logprobs : /\ IsArray(c.logprobs[a])
                                       /\ a = "tokens" => c.logprobs[a] \in Seq(Token)
                                       /\ a = "text_offset" => c.logprobs[a] \in Seq(Int)
IsAnswer(a) ==
    /\ IsJson(a)
    /\ Has(a, "choices") => /\ IsArray(a.fields["choices"])
                            /\ \A c \in DOMAIN a.fields["choices"] : IsChoice(a.fields["choices"][c])

ASSUME InputsAssumption ==
    \A m \in Modes : \A i \in Inputs[m] : DOMAIN i = {"headers", "body"} /\ IsRequest(i.body)
ASSUME AnswersAssumption == (\A a \in Prefills : IsAnswer(a)) /\ (\A a \in Decodes : IsAnswer(a))

VARIABLES
    stage,      \* how far the exchange is
    mode, api, input,
    context,    \* extract_context's result
    url,        \* the prefill worker
    toPrefill, toDecode,    \* the requests, as sent
    ofPrefill, ofDecode,    \* their answers, as parsed
    answer      \* the body the client gets

vars == <<stage, mode, api, input, context, url, toPrefill, toDecode, ofPrefill, ofDecode, answer>>

body    == input.body
Nothing == [is |-> "nothing", fields |-> << >>]
Invalid == [is |-> "invalid", fields |-> << >>]

\* The stages of each mode.
StagesOf(m) ==
    {"idle", "done"}
    \cup (IF m = "regular" THEN {} ELSE {"received", "decode", "answered", "refused"})
    \cup (IF m = "vllm" THEN {"prefill", "panicked"} ELSE {})

\* What there is, and what there is not: each message follows from those before
\* it, and what is no JSON goes no further in the pipeline.
MadeInOrder ==
    /\ (mode # "regular" /\ body.is = "invalid") \/ (mode = "vllm" /\ ofPrefill.is = "invalid")
          => stage = "refused"
    /\ context = << >> <=> stage = "idle" \/ (mode # "regular" /\ body.is = "invalid")
    /\ toPrefill = Nothing <=> \/ mode = "regular" \/ body.is = "invalid"
                               \/ stage \in {"idle", "received", "panicked"}
    /\ ofPrefill = Nothing <=> toPrefill = Nothing \/ stage = "prefill"
    /\ toDecode = Nothing <=> ofPrefill = Nothing \/ (mode = "vllm" /\ ofPrefill.is = "invalid")
    /\ ofDecode = Nothing <=> toDecode = Nothing \/ stage = "decode"
    /\ answer = Nothing <=> ofDecode = Nothing \/ stage \in {"answered", "refused"}

\* Every variable has its type: at each stage of each mode, what has been made by
\* then is of its shape and the rest is absent.
TypeOK ==
    /\ mode \in Modes /\ api \in Apis /\ stage \in StagesOf(mode)
    /\ DOMAIN input = {"headers", "body"} /\ DOMAIN url = {"host", "port"}
    /\ IF stage = "idle" THEN body = Nothing ELSE IsRequest(body)
    /\ context # << >> => DOMAIN context = {"session_id", "prefix_key"}
    /\ \A m \in {toPrefill, toDecode, ofPrefill, ofDecode, answer} : m = Nothing \/ IsJson(m)
    /\ MadeInOrder

Init ==
    /\ stage = "idle"
    /\ mode \in Modes /\ api \in Apis
    /\ input = [headers |-> << >>, body |-> Nothing]
    /\ url = [host |-> "none", port |-> "none"]
    /\ context = << >>
    /\ toPrefill = Nothing /\ toDecode = Nothing
    /\ ofPrefill = Nothing /\ ofDecode = Nothing /\ answer = Nothing

Goes(from, to) == stage = from /\ stage' = to

-----------------------------------------------------------------------------

\* The regular handler takes any body; the pipeline wants JSON.
Receive ==
    /\ stage = "idle"
    /\ input' \in Inputs[mode]
    /\ stage' = (IF mode = "regular" THEN "done" ELSE IF body'.is = "invalid" THEN "refused" ELSE "received")
    /\ context' = IF stage' = "refused" THEN << >> ELSE Context(input'.headers, body')
    /\ UNCHANGED <<mode, api, url, toPrefill, toDecode, ofPrefill, ofDecode, answer>>

\* prepare_prefill_request panics on the client's JSON.
PrepareFails ==
    /\ mode = "vllm" /\ PreparePanics(body, api)
    /\ Goes("received", "panicked")
    /\ UNCHANGED <<mode, api, input, context, url, toPrefill, toDecode, ofPrefill, ofDecode, answer>>

\* vLLM, stage 1: the parameters of the KV transfer are asked for.
SendPrefill ==
    /\ mode = "vllm" /\ ~PreparePanics(body, api)
    /\ Goes("received", "prefill")
    /\ toPrefill' = Put(Prepared(body, api), "kv_transfer_params", "wanted")
    /\ UNCHANGED <<mode, api, input, context, url, toDecode, ofPrefill, ofDecode, answer>>

\* build_decode_kv_transfer_params: the prefill worker's, if it sent any.
KvOf(p) == IF Has(p, "kv_transfer_params") THEN [kv_transfer_params |-> p.fields["kv_transfer_params"]] ELSE << >>

\* Mutant of DecodeRequest: made from the request that was prepared for prefill.
DecodeRequestPrepared(p) == Insert(toPrefill, KvOf(p))

\* The decode request is the client's own but for the KV transfer.
DecodeRequest(p) == Insert(body, KvOf(p))

\* Mutant of SendDecode: whether the answer of stage 1 parses is not looked at.
SendDecodeUnchecked ==
    /\ mode = "vllm" /\ Goes("prefill", "decode")
    /\ ofPrefill' \in Prefills
    /\ toDecode' = DecodeRequest(ofPrefill')
    /\ UNCHANGED <<mode, api, input, context, url, toPrefill, ofDecode, answer>>

\* vLLM, stage 2, if the answer of stage 1 is JSON.
SendDecode ==
    /\ mode = "vllm" /\ stage = "prefill"
    /\ \E p \in Prefills :
          /\ ofPrefill' = p
          /\ stage' = (IF p.is = "invalid" THEN "refused" ELSE "decode")
          /\ toDecode' = IF p.is = "invalid" THEN Nothing ELSE DecodeRequest(p)
    /\ UNCHANGED <<mode, api, input, context, url, toPrefill, ofDecode, answer>>

\* Mutant of SendBoth: the parameters are built once per request.
SendBothTwice ==
    /\ mode = "sglang"
    /\ Goes("received", "decode")
    /\ url' \in Urls
    /\ \E room, other \in Rooms : /\ toPrefill' = Insert(body, BootstrapParams(url', room))
                                  /\ toDecode' = Insert(body, BootstrapParams(url', other))
    /\ ofPrefill' \in Prefills
    /\ UNCHANGED <<mode, api, input, context, ofDecode, answer>>

\* SGLang: both requests at once, with the same bootstrap parameters.
SendBoth ==
    /\ mode = "sglang"
    /\ Goes("received", "decode")
    /\ url' \in Urls
    /\ \E room \in Rooms : /\ toPrefill' = Insert(body, BootstrapParams(url', room))
                           /\ toDecode' = Insert(body, BootstrapParams(url', room))
    /\ ofPrefill' \in Prefills
    /\ UNCHANGED <<mode, api, input, context, ofDecode, answer>>

DecodeAnswers ==
    /\ Goes("decode", "answered")
    /\ ofDecode' \in Decodes
    /\ UNCHANGED <<mode, api, input, context, url, toPrefill, toDecode, ofPrefill, answer>>

Streaming     == Has(body, "stream") /\ body.fields["stream"] = TRUE
NeedsLogprobs == Has(body, "logprobs") \/ (Has(body, "echo") /\ body.fields["echo"] = TRUE)
Merging       == NeedsLogprobs /\ ~Streaming

\* SGLang merges what parses and else passes the decode answer on; vLLM refuses
\* a decode answer it cannot parse.
Respond ==
    /\ Goes("answered", IF Merging /\ mode = "vllm" /\ ofDecode.is = "invalid" THEN "refused" ELSE "done")
    /\ answer' = CASE stage' = "refused" -> Nothing
                   [] stage' = "done" ->
                        IF Merging /\ "invalid" \notin {ofPrefill.is, ofDecode.is}
                        THEN Merge(ofPrefill, ofDecode) ELSE ofDecode
    /\ UNCHANGED <<mode, api, input, context, url, toPrefill, toDecode, ofPrefill, ofDecode>>

Next == Receive \/ PrepareFails \/ SendPrefill \/ SendDecode \/ SendBoth \/ DecodeAnswers \/ Respond

Spec == Init /\ [][Next]_vars

-----------------------------------------------------------------------------
(* Properties.                                                             *)

\* A client whose first identifying header is usable keeps its session key whatever
\* it sends, JSON or not, so that its conversation stays with one worker.
HeaderDecides ==
    context # << >> =>
        \A k \in DOMAIN Identifying :
            /\ \A j \in 1 .. k : Identifying[j] \in DOMAIN input.headers <=> j = k
            /\ input.headers[Identifying[k]] \notin {Empty, Unusable}
            => context.session_id = input.headers[Identifying[k]]

\* A conversation keeps its prefix key from turn to turn: a message appended to it
\* changes nothing, unless it is the first one or the first of role system.
ConversationKeepsPrefix ==
    context # << >> /\ Has(body, "messages") =>
        LET said == body.fields["messages"]
        IN  \A k \in DOMAIN said :
                (\E i \in 1 .. k : said[i].role = "system") \/ (\A i \in DOMAIN said : said[i].role # "system")
                => context.prefix_key = PrefixKey(Put(body, "messages", SubSeq(said, 1, k)))

\* Where a request of each API states its token limits, and under which names.
Limits(m) ==
    CASE api = "generate" -> m.fields["sampling_params"].fields
      [] api \in {"responses", "completions"} -> m.fields
LimitNames == CASE api = "generate" -> {"max_tokens"}
                [] api = "responses" -> {"max_output_tokens"}
                [] api = "completions" -> {"max_tokens", "max_completion_tokens"}

\* The prefill worker of vLLM mode generates one token at most, and no stream:
\* no limit the client set survives, and no minimum exceeds the limits, unless
\* as_u64 does not read it (a float, say): such a one is passed on as it is.
PrefillOnly ==
    mode = "vllm" /\ toPrefill # Nothing =>
        /\ LimitNames \cap DOMAIN Limits(toPrefill) # {}
        /\ \A k \in LimitNames \cap DOMAIN Limits(toPrefill) : Limits(toPrefill)[k] = 1
        /\ api # "responses" /\ "min_tokens" \in DOMAIN Limits(toPrefill) => ~Exceeds(Limits(toPrefill)["min_tokens"])
        /\ toPrefill.fields["stream"] = FALSE /\ ~Has(toPrefill, "stream_options")

\* What the decode worker of vLLM mode is asked for is what the client asked for:
\* nothing that was set for prefill, which runs first, reaches it.
DecodeAsAsked ==
    mode = "vllm" /\ toDecode # Nothing =>
        /\ toDecode.is = body.is
        /\ \A k \in (DOMAIN body.fields \cup DOMAIN toDecode.fields) \ {"kv_transfer_params"} :
              /\ k \in DOMAIN body.fields \cap DOMAIN toDecode.fields
              /\ toDecode.fields[k] = body.fields[k]

\* The two workers of an SGLang pair meet: they are sent the same parameters, which
\* name the prefill worker unless its URL leaves the port to the scheme, and a room
\* that is no negative number, but for the one whose absolute value is no i64.
PairMeets ==
    mode = "sglang" /\ toDecode # Nothing /\ body.is = "object" =>
        /\ toPrefill = toDecode
        /\ toDecode.fields["bootstrap_host"] = <<url.host, url.port>> \/ url.port \in {"none", "scheme's"}
        /\ toDecode.fields["bootstrap_room"] >= 0 \/ toDecode.fields["bootstrap_room"] = -RoomBound

\* The characters of the text before the k-th token.
TextBefore(tokens, k) ==
    LET sum[i \in 0 .. Len(tokens)] == IF i = 0 THEN 0 ELSE sum[i-1] + tokens[i].chars
    IN  sum[k-1]

\* All four arrays of a choice describe the same tokens.
Arrays == {"tokens", "token_logprobs", "top_logprobs", "text_offset"}
Aligned(lp) ==
    /\ DOMAIN lp = Arrays
    /\ \A a \in Arrays : Len(lp[a]) = Len(lp.tokens)
    /\ \A k \in DOMAIN lp.tokens : lp.text_offset[k] = TextBefore(lp.tokens, k)

\* The c-th choice has logprobs, and they are aligned.
AlignedAt(m, c) ==
    /\ Has(m, "choices") /\ c <= Len(m.fields["choices"])
    /\ Given("logprobs", m.fields["choices"][c]) /\ Aligned(m.fields["choices"][c].logprobs)

\* The last token of the prompt, if a choice has one, has a byte per character.
PromptEndsInAscii(m, c) ==
    LET choice == m.fields["choices"][c]
        tokens == choice.logprobs.tokens
        last   == LeastOf(PromptLen(choice), Len(tokens))
    IN  last > 0 => tokens[last].bytes = tokens[last].chars

\* If both workers answer with aligned arrays, so does the router: after the
\* merge every array has an entry for every token, and the offsets run on from
\* the prompt's text into the generated one.  (A last prompt token that is not
\* ASCII moves the generated text's offsets, since the code adds its bytes.)
MergeAligned ==
    stage = "done" /\ Has(ofDecode, "choices") =>
        \A c \in DOMAIN ofDecode.fields["choices"] :
            AlignedAt(ofPrefill, c) /\ PromptEndsInAscii(ofPrefill, c) /\ AlignedAt(ofDecode, c)
                => AlignedAt(answer, c)

=============================================================================
