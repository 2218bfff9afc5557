--------------------------- MODULE LogprobsMerge ---------------------------
(***************************************************************************)
(* merge_logprobs_in_json of routes/logprobs_merge.rs: the log             *)
(* probabilities of the prompt, which the prefill worker computed, are put *)
(* before those the decode worker answers with.                            *)
(*                                                                         *)
(* Answers are JSON values.  A field that is present but not of the shape  *)
(* the code asks for is treated by it as absent, and is absent here;       *)
(* prompt_logprobs is the exception: it is copied whatever it holds, and   *)
(* only its length counts (0 for null).  A token is the length of its text *)
(* in characters, which the workers' text offsets count, and in bytes,     *)
(* which is what the code asks for; other entries are plain values.        *)
(***************************************************************************)
EXTENDS Integers, Sequences, JsonValues

Token == [chars : Nat, bytes : Nat]

LeastOf(a, b) == IF a < b THEN a ELSE b

\* What the first n entries of a sequence are, if it has as many.
UpToLen(s, n) == SubSeq(s, 1, LeastOf(n, Len(s)))

\* The length of the last prompt token, by the prefill worker's own token list:
\* str::len, so its bytes.
LastTokenLen(n, plp) ==
    IF Given("tokens", plp) /\ plp.tokens # << >>
    THEN plp.tokens[LeastOf(n, Len(plp.tokens))].bytes ELSE 0

\* Mutant of Base: the text continues where the last prompt token starts.
BaseAtLast(n, plp) == LET prompt == UpToLen(plp.text_offset, n) IN IF prompt = << >> THEN 0 ELSE prompt[Len(prompt)]

\* Where the generated text starts in the text of both.
Base(n, plp) ==
    LET prompt == UpToLen(plp.text_offset, n)
    IN  IF prompt = << >> THEN 0 ELSE prompt[Len(prompt)] + LastTokenLen(n, plp)

\* Mutant of Joined: token strings are taken whole, with what prefill generated.
JoinedWhole(a, n, plp, dlp) ==
    (IF a = "tokens" THEN plp[a] ELSE UpToLen(plp[a], n))
    \o (IF a = "text_offset" THEN [k \in DOMAIN dlp[a] |-> dlp[a][k] + Base(n, plp)] ELSE dlp[a])

\* One array of a choice: the prompt's entries, then the decode worker's.
Joined(a, n, plp, dlp) ==
    UpToLen(plp[a], n)
    \o (IF a = "text_offset" THEN [k \in DOMAIN dlp[a] |-> dlp[a][k] + Base(n, plp)] ELSE dlp[a])

PromptLen(choice) == IF Given("prompt_logprobs", choice) THEN choice.prompt_logprobs ELSE 0

\* A field of both is replaced; a decode choice without logprobs gets none.
MergedLogprobs(p, d) ==
    [a \in DOMAIN d.logprobs |->
        IF Given(a, p.logprobs) THEN Joined(a, PromptLen(p), p.logprobs, d.logprobs) ELSE d.logprobs[a]]

CopyPrompt(p, d) == IF Given("prompt_logprobs", p) THEN Over([prompt_logprobs |-> p.prompt_logprobs], d) ELSE d

MergedChoice(p, d) ==
    IF Given("logprobs", p) /\ Given("logprobs", d)
    THEN Over([logprobs |-> MergedLogprobs(p, d)], CopyPrompt(p, d))
    ELSE CopyPrompt(p, d)

\* Choices are paired by position; a decode choice without a partner stays.
MergedChoices(ps, ds) == [c \in DOMAIN ds |-> IF c <= Len(ps) THEN MergedChoice(ps[c], ds[c]) ELSE ds[c]]

\* The whole answer: each part is merged if both have it; only prompt_logprobs
\* needs no counterpart.
Merge(prefill, decode) ==
    LET p == prefill.fields
        d == decode.fields
        meta    == IF Given("meta_info", p) /\ Given("meta_info", d)
                   THEN [meta_info |-> p.meta_info \o d.meta_info] ELSE << >>
        choices == IF Given("choices", p) /\ Given("choices", d)
                   THEN [choices |-> MergedChoices(p.choices, d.choices)] ELSE << >>
    IN  IF decode.is # "object" THEN decode
        ELSE [decode EXCEPT !.fields = Over(meta, Over(choices, CopyPrompt(p, d)))]

=============================================================================
