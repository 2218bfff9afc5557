--------------------------- MODULE RequestContext ---------------------------
(***************************************************************************)
(* extract_context of middleware/context.rs: the two keys by which the     *)
(* affinity policies recognise a request.                                  *)
(*                                                                         *)
(* Headers are a function from those present to their values, a body is a  *)
(* JSON value.  Texts that matter for equality only are plain values;      *)
(* message contents are sequences of characters.                           *)
(***************************************************************************)
EXTENDS Integers, JsonValues, SequencesExt

CONSTANT PrefixChars        \* characters of a message kept in prefix_key (200)

ASSUME PrefixAssumption == PrefixChars \in Nat

Empty         == "empty text"
Unusable      == "unusable"     \* a header that is not text, a field that is no string
DefaultId     == "default"
DefaultPrefix == <<"default">>

\* The first of a sequence of names that is a key of f, as a sequence.
FirstIn(names, f) ==
    LET first == SelectInSeq(names, LAMBDA name : name \in DOMAIN f)
    IN  IF first = 0 THEN << >> ELSE <<f[names[first]]>>

Identifying == <<"authorization", "x-forwarded-for", "cookie">>

\* The first header that is present decides, even if it holds nothing usable.
ImplicitKey(headers) ==
    LET value == FirstIn(Identifying, headers)
    IN  IF value \in {<<Empty>>, <<Unusable>>} THEN << >> ELSE value

\* Mutant of SessionId: a body that is not JSON is looked at first.
SessionIdBodyFirst(headers, body) ==
    IF body.is = "invalid" \/ ImplicitKey(headers) = << >> THEN DefaultId ELSE Head(ImplicitKey(headers))

SessionId(headers, body) ==
    LET field == FirstIn(<<"user", "session_id">>, body.fields)
    IN  IF ImplicitKey(headers) # << >> THEN Head(ImplicitKey(headers))
        ELSE IF field \in {<< >>, <<Unusable>>} THEN DefaultId ELSE Head(field)

\* Mutant of Addressed: the last message of role system.
AddressedLast(messages) ==
    LET system == SelectLastInSeq(messages, LAMBDA m : m.role = "system")
    IN  IF system # 0 THEN <<messages[system]>>
        ELSE IF messages # << >> THEN <<Head(messages)>> ELSE << >>

\* The message that stands for the conversation: the first of role system, or the first.
Addressed(messages) ==
    LET system == SelectInSeq(messages, LAMBDA m : m.role = "system")
    IN  IF system # 0 THEN <<messages[system]>>
        ELSE IF messages # << >> THEN <<Head(messages)>> ELSE << >>

Clipped(text) == SubSeq(text, 1, IF Len(text) < PrefixChars THEN Len(text) ELSE PrefixChars)

PrefixKey(body) ==
    LET message == IF "messages" \in DOMAIN body.fields THEN Addressed(body.fields["messages"]) ELSE << >>
    IN  IF message # << >> /\ "content" \in DOMAIN Head(message)
        THEN Clipped(Head(message)["content"]) ELSE DefaultPrefix

Context(headers, body) ==
    [session_id |-> SessionId(headers, body), prefix_key |-> PrefixKey(body)]

=============================================================================
