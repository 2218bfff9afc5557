----------------------------- MODULE MCMessages -----------------------------
(* Messages for TLC.  Headers and conversations vary in regular mode, the    *)
(* parameters of the request in the pipeline's; answers have up to two       *)
(* choices with up to two prompt tokens and one or two generated ones.       *)
EXTENDS Messages, FiniteSets, TLC

\* The functions from a part of D to S.
Partial(D, S) == UNION {[E -> S] : E \in SUBSET D}

SomeHeaders == Partial({"authorization", "x-forwarded-for", "cookie"}, {"h1", "h2", Empty, Unusable})
SomeIds     == Partial({"user", "session_id"}, {"u1", Empty, Unusable})
SomeMessages ==
    [role : {"system", "user"}, content : {<<"a", "b", "a">>, <<"a", "b", "b">>, << >>}] \cup {[role |-> "user"]}
Talks == {[messages |-> t] : t \in UNION {[1 .. k -> SomeMessages] : k \in 0 .. 3}}

NullJson == [is |-> "null", fields |-> << >>]
Other    == [is |-> "other", fields |-> << >>]
NotObjects == {NullJson, Other, Invalid}

Minimum  == Partial({"min_tokens"}, [u64 : BOOLEAN, n : {3}])
Sampling == Partial({"sampling_params"},
                    {NullJson, Other} \cup {Obj(m @@ l) : m \in Minimum, l \in Partial({"max_tokens"}, {9})})
Extras   == {<< >>, [logprobs |-> 1, stream |-> FALSE], [echo |-> TRUE], [logprobs |-> 1, stream |-> TRUE]}
Asked    == {m @@ s @@ f : m \in Minimum, s \in Sampling,
                f \in {[max_tokens |-> 9, max_completion_tokens |-> 9],
                       [max_output_tokens |-> 9, stream |-> TRUE, stream_options |-> "some"]}}

Bodies(fields) == {[headers |-> << >>, body |-> b] : b \in NotObjects \cup {Obj(f) : f \in fields}}
MCInputs ==
    [regular |-> Bodies(Talks) \cup {[headers |-> h, body |-> b] :
                                        h \in SomeHeaders, b \in NotObjects \cup {Obj(i) : i \in SomeIds}},
     vllm    |-> Bodies(Asked \cup Extras),
     sglang  |-> Bodies(Extras)]

MCUrls == {[host |-> "h", port |-> p] : p \in {"none", "scheme's", "30000"}}
MCRooms == {-2, -1, 1}

\* Tokens, one of them not ASCII; all but the last of a list have 2 characters.
Word   == [chars |-> 2, bytes |-> 2]
Cafe   == [chars |-> 2, bytes |-> 3]
Longer == [chars |-> 3, bytes |-> 3]

\* The arrays of those tokens.
ArraysOf(tokens, id) ==
    [tokens |-> tokens, token_logprobs |-> [k \in DOMAIN tokens |-> id],
     top_logprobs |-> [k \in DOMAIN tokens |-> id], text_offset |-> [k \in DOMAIN tokens |-> 2 * (k-1)]]

PromptTokens == {<<Longer>>, <<Word, Longer>>, <<Word, Word, Longer>>, <<Cafe, Word>>, <<Word, Cafe>>}

\* With the prompt echoed or not, the prompt's length stated or not.
PrefillChoices ==
    {p @@ l : p \in Partial({"prompt_logprobs"}, 0 .. 2),
              l \in {<< >>, [logprobs |-> << >>]} \cup {[logprobs |-> ArraysOf(t, 1)] : t \in PromptTokens}}
DecodeChoices == {<< >>, [logprobs |-> ArraysOf(<<Longer>>, 2)], [logprobs |-> ArraysOf(<<Word, Cafe>>, 2)],
                  [logprobs |-> [text_offset |-> <<0>>]]}

MCPrefills ==
    {Invalid, NullJson, Obj(<< >>), Obj([prompt_logprobs |-> 2, kv_transfer_params |-> "kv", meta_info |-> <<1>>])}
    \cup {Obj([kv_transfer_params |-> "kv", choices |-> c]) : c \in {<<p>> : p \in PrefillChoices}}
    \cup {Obj([choices |-> <<[prompt_logprobs |-> 1, logprobs |-> ArraysOf(<<Word, Longer>>, 1)], p>>]) : p \in PrefillChoices}
MCDecodes ==
    {Invalid, NullJson, Obj([meta_info |-> <<2>>])}
    \cup {Obj([choices |-> <<c>>]) : c \in DecodeChoices}
    \cup {Obj([choices |-> <<[logprobs |-> ArraysOf(<<Word, Longer>>, 2)], c>>]) : c \in DecodeChoices}
=============================================================================
