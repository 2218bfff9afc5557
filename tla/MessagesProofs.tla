--------------------------- MODULE MessagesProofs ---------------------------
(***************************************************************************)
(* What Messages promises holds of requests and answers of every size and  *)
(* content, and for every length of a prefix key.                          *)
(*                                                                         *)
(* The inductive invariant Made says of every message in flight what it    *)
(* was made of; each property then follows from the pure functions.        *)
(***************************************************************************)
EXTENDS Messages, PoliciesProofs, SequenceTheorems

-----------------------------------------------------------------------------
(* The invariant.                                                          *)

ContextMade == context # << >> => context = Context(input.headers, body)
PrefillMade == mode = "vllm" /\ toPrefill # Nothing =>
                   /\ ~PreparePanics(body, api)
                   /\ toPrefill = Put(Prepared(body, api), "kv_transfer_params", "wanted")
DecodeMade  == mode = "vllm" /\ toDecode # Nothing => toDecode = DecodeRequest(ofPrefill)
PairMade    == mode = "sglang" /\ toDecode # Nothing =>
                   \E room \in Rooms :
                       /\ toPrefill = Insert(body, BootstrapParams(url, room))
                       /\ toDecode = Insert(body, BootstrapParams(url, room))
AnswersCame == ofPrefill \in Prefills \cup {Nothing} /\ ofDecode \in Decodes \cup {Nothing}
AnswerMade  == stage = "done" => answer \in {ofDecode, Merge(ofPrefill, ofDecode)}

\* Every message in flight is made of what was received, as the code makes it.
Made ==
    /\ TypeOK
    /\ ContextMade
    /\ PrefillMade /\ DecodeMade /\ PairMade
    /\ AnswersCame /\ AnswerMade

\* What is made of JSON values is JSON, and JSON is never mistaken for nothing.
LEMMA JsonIsSomething == ASSUME NEW v, IsJson(v) PROVE v # Nothing
BY DEF IsJson, Nothing

LEMMA ObjJson == ASSUME NEW f PROVE IsJson(Obj(f))
BY DEF IsJson, Obj

LEMMA PutJson == ASSUME NEW v, NEW k, NEW x PROVE IsJson(Put(v, k, x))
BY ObjJson DEF Put

LEMMA InsertJson == ASSUME NEW v, IsJson(v), NEW more PROVE IsJson(Insert(v, more))
BY ObjJson DEF Insert

LEMMA MergeJson == ASSUME NEW p, NEW d, IsJson(d) PROVE IsJson(Merge(p, d))
<1>1. CASE d.is # "object"
  BY <1>1 DEF Merge
<1>2. CASE d.is = "object"
  <2>1. PICK f : Merge(p, d) = [d EXCEPT !.fields = f]
    BY <1>2 DEF Merge
  <2>2. Merge(p, d).is = d.is /\ DOMAIN Merge(p, d) = DOMAIN d
    BY <2>1
  <2> QED
    BY <1>2, <2>2 DEF IsJson
<1> QED
  BY <1>1, <1>2

\* What was received is a request, once something was.
LEMMA InputRequest ==
  ASSUME TypeOK, stage # "idle"
  PROVE  IsRequest(body) /\ IsJson(body)
BY DEF TypeOK, IsRequest, IsLimited

LEMMA AnswersJson == (\A p \in Prefills : IsJson(p)) /\ (\A d \in Decodes : IsJson(d))
BY AnswersAssumption DEF IsAnswer

\* A context has both keys, so it is not the empty one.
LEMMA ContextThere ==
  ASSUME NEW h, NEW b
  PROVE  Context(h, b) # << >> /\ DOMAIN Context(h, b) = {"session_id", "prefix_key"}
<1>1. DOMAIN Context(h, b) = {"session_id", "prefix_key"}
  BY DEF Context
<1>2. DOMAIN << >> = {}
  OBVIOUS
<1> QED
  BY <1>1, <1>2

\* What can be prepared for prefill did parse.
LEMMA PreparedParsed == ASSUME NEW b, NEW a, ~PreparePanics(b, a) PROVE b.is # "invalid"
BY DEF PreparePanics, Indexable

LEMMA InitMade == Init => Made
<1> SUFFICES ASSUME Init PROVE Made
  OBVIOUS
<1>1. TypeOK
  <2>1. body = Nothing /\ Nothing.is = "nothing"
    BY DEF Init, body, Nothing
  <2>2. MadeInOrder
    BY <2>1 DEF Init, MadeInOrder
  <2>3. DOMAIN input = {"headers", "body"} /\ DOMAIN url = {"host", "port"}
    BY DEF Init
  <2> QED
    BY <2>1, <2>2, <2>3 DEF Init, TypeOK, StagesOf
<1>2. ContextMade /\ PrefillMade /\ DecodeMade /\ PairMade /\ AnswersCame /\ AnswerMade
  BY DEF Init, ContextMade, PrefillMade, DecodeMade, PairMade, AnswersCame, AnswerMade
<1> QED
  BY <1>1, <1>2 DEF Made

LEMMA ReceiveMade == Made /\ Receive => Made'
<1> SUFFICES ASSUME Made, Receive PROVE Made'
  OBVIOUS
<1>1. /\ stage = "idle" /\ input' \in Inputs[mode]
      /\ stage' = (IF mode = "regular" THEN "done" ELSE IF body'.is = "invalid" THEN "refused" ELSE "received")
      /\ context' = IF stage' = "refused" THEN << >> ELSE Context(input'.headers, body')
      /\ UNCHANGED <<mode, api, url, toPrefill, toDecode, ofPrefill, ofDecode, answer>>
  BY DEF Receive
<1>2. /\ toPrefill = Nothing /\ ofPrefill = Nothing /\ toDecode = Nothing
      /\ ofDecode = Nothing /\ answer = Nothing
  BY <1>1 DEF Made, TypeOK, MadeInOrder
<1>3. mode \in Modes /\ mode \in {"regular", "vllm", "sglang"} /\ api \in Apis /\ DOMAIN url = {"host", "port"}
  BY ModesAssumption DEF Made, TypeOK
<1>4. DOMAIN input' = {"headers", "body"} /\ IsRequest(body)'
  BY <1>1, <1>3, InputsAssumption DEF body
<1>5. /\ context' = << >> <=> stage' = "refused"
      /\ context' # << >> => DOMAIN context' = {"session_id", "prefix_key"}
      /\ context' # << >> => context' = Context(input'.headers, body')
  BY <1>1, ContextThere
<1>6. MadeInOrder' /\ stage' \in StagesOf(mode)
  <2>1. ofPrefill'.is # "invalid"
    BY <1>1, <1>2 DEF Nothing
  <2> QED
    BY <1>1, <1>2, <1>3, <1>5, <2>1 DEF MadeInOrder, StagesOf
<1>7. TypeOK'
  BY <1>1, <1>2, <1>3, <1>4, <1>5, <1>6 DEF TypeOK
<1>8. ContextMade'
  BY <1>5 DEF ContextMade
<1>9. PrefillMade' /\ DecodeMade' /\ PairMade'
  BY <1>1, <1>2 DEF PrefillMade, DecodeMade, PairMade
<1>10. AnswersCame' /\ AnswerMade'
  BY <1>1, <1>2 DEF AnswersCame, AnswerMade
<1> QED
  BY <1>7, <1>8, <1>9, <1>10 DEF Made

LEMMA PrepareFailsMade == Made /\ PrepareFails => Made'
<1> SUFFICES ASSUME Made, PrepareFails PROVE Made'
  OBVIOUS
<1>1. /\ mode = "vllm" /\ stage = "received" /\ stage' = "panicked"
      /\ UNCHANGED <<mode, api, input, context, url, toPrefill, toDecode, ofPrefill, ofDecode, answer>>
  BY DEF PrepareFails, Goes
<1>2. body' = body
  BY <1>1 DEF body
<1>3. MadeInOrder'
  BY <1>1, <1>2 DEF Made, TypeOK, MadeInOrder
<1>4. TypeOK'
  BY <1>1, <1>2, <1>3, InputRequest DEF Made, TypeOK, StagesOf
<1>5. ContextMade' /\ PrefillMade' /\ AnswersCame' /\ AnswerMade'
  BY <1>1, <1>2 DEF Made, ContextMade, PrefillMade, AnswersCame, AnswerMade
<1>6. DecodeMade' /\ PairMade'
  BY <1>1, <1>2 DEF Made, DecodeMade, DecodeRequest, PairMade
<1> QED
  BY <1>4, <1>5, <1>6 DEF Made

LEMMA SendPrefillMade == Made /\ SendPrefill => Made'
<1> SUFFICES ASSUME Made, SendPrefill PROVE Made'
  OBVIOUS
<1>1. /\ mode = "vllm" /\ ~PreparePanics(body, api) /\ stage = "received" /\ stage' = "prefill"
      /\ toPrefill' = Put(Prepared(body, api), "kv_transfer_params", "wanted")
      /\ UNCHANGED <<mode, api, input, context, url, toDecode, ofPrefill, ofDecode, answer>>
  BY DEF SendPrefill, Goes
<1>2. body' = body
  BY <1>1 DEF body
<1>3. IsJson(toPrefill') /\ toPrefill' # Nothing /\ body.is # "invalid"
  BY <1>1, PutJson, JsonIsSomething, PreparedParsed
<1>4. MadeInOrder'
  BY <1>1, <1>2, <1>3 DEF Made, TypeOK, MadeInOrder
<1>5. TypeOK'
  BY <1>1, <1>2, <1>3, <1>4, InputRequest DEF Made, TypeOK, StagesOf
<1>6. ContextMade' /\ PrefillMade' /\ AnswersCame' /\ AnswerMade'
  BY <1>1, <1>2 DEF Made, ContextMade, PrefillMade, AnswersCame, AnswerMade
<1>7. DecodeMade' /\ PairMade'
  BY <1>1, <1>2 DEF Made, DecodeMade, DecodeRequest, PairMade
<1> QED
  BY <1>5, <1>6, <1>7 DEF Made

LEMMA SendDecodeMade == Made /\ SendDecode => Made'
<1> SUFFICES ASSUME Made, SendDecode PROVE Made'
  OBVIOUS
<1>1. /\ mode = "vllm" /\ stage = "prefill" /\ ofPrefill' \in Prefills
      /\ stage' = (IF ofPrefill'.is = "invalid" THEN "refused" ELSE "decode")
      /\ toDecode' = IF ofPrefill'.is = "invalid" THEN Nothing ELSE DecodeRequest(ofPrefill')
      /\ UNCHANGED <<mode, api, input, context, url, toPrefill, ofDecode, answer>>
  BY DEF SendDecode
<1>2. body' = body /\ IsJson(body)
  BY <1>1, InputRequest DEF Made, body
<1>3. IsJson(ofPrefill') /\ ofPrefill' # Nothing
  BY <1>1, AnswersJson, JsonIsSomething
<1>4. ofPrefill'.is # "invalid" => IsJson(toDecode') /\ toDecode' # Nothing
  BY <1>1, <1>2, InsertJson, JsonIsSomething DEF DecodeRequest
<1>5. MadeInOrder'
  BY <1>1, <1>2, <1>3, <1>4 DEF Made, TypeOK, MadeInOrder
<1>6. TypeOK'
  BY <1>1, <1>2, <1>3, <1>4, <1>5, InputRequest DEF Made, TypeOK, StagesOf
<1>7. ContextMade' /\ PrefillMade' /\ AnswersCame' /\ AnswerMade'
  BY <1>1, <1>2 DEF Made, ContextMade, PrefillMade, AnswersCame, AnswerMade
<1>8. DecodeMade' /\ PairMade'
  BY <1>1, <1>2 DEF Made, DecodeMade, DecodeRequest, PairMade
<1> QED
  BY <1>6, <1>7, <1>8 DEF Made

LEMMA SendBothMade == Made /\ SendBoth => Made'
<1> SUFFICES ASSUME Made, SendBoth PROVE Made'
  OBVIOUS
<1>1. /\ mode = "sglang" /\ stage = "received" /\ stage' = "decode"
      /\ url' \in Urls /\ ofPrefill' \in Prefills
      /\ UNCHANGED <<mode, api, input, context, ofDecode, answer>>
  BY DEF SendBoth, Goes
<1>2. PICK room \in Rooms : /\ toPrefill' = Insert(body, BootstrapParams(url', room))
                            /\ toDecode' = Insert(body, BootstrapParams(url', room))
  BY DEF SendBoth
<1>3. body' = body /\ IsJson(body)
  BY <1>1, InputRequest DEF Made, body
<1>4. IsJson(ofPrefill') /\ IsJson(toPrefill') /\ IsJson(toDecode')
  BY <1>1, <1>2, <1>3, AnswersJson, InsertJson
<1>5. ofPrefill' # Nothing /\ toPrefill' # Nothing /\ toDecode' # Nothing
  BY <1>4, JsonIsSomething
<1>6. MadeInOrder'
  BY <1>1, <1>3, <1>5 DEF Made, TypeOK, MadeInOrder
<1>7. TypeOK'
  BY <1>1, <1>3, <1>4, <1>6, InputRequest, UrlsAssumption DEF Made, TypeOK, StagesOf
<1>8. PairMade'
  BY <1>2, <1>3 DEF PairMade
<1>9. ContextMade' /\ PrefillMade' /\ DecodeMade' /\ AnswersCame' /\ AnswerMade'
  BY <1>1, <1>3 DEF Made, ContextMade, PrefillMade, DecodeMade, AnswersCame, AnswerMade
<1> QED
  BY <1>7, <1>8, <1>9 DEF Made

LEMMA DecodeAnswersMade == Made /\ DecodeAnswers => Made'
<1> SUFFICES ASSUME Made, DecodeAnswers PROVE Made'
  OBVIOUS
<1>1. /\ stage = "decode" /\ stage' = "answered" /\ ofDecode' \in Decodes
      /\ UNCHANGED <<mode, api, input, context, url, toPrefill, toDecode, ofPrefill, answer>>
  BY DEF DecodeAnswers, Goes
<1>2. body' = body
  BY <1>1 DEF body
<1>3. IsJson(ofDecode') /\ ofDecode' # Nothing
  BY <1>1, AnswersJson, JsonIsSomething
<1>4. mode \in {"regular", "vllm", "sglang"} /\ mode # "regular"
  BY <1>1, ModesAssumption DEF Made, TypeOK, StagesOf
<1>5. toDecode # Nothing
  BY <1>1, <1>4 DEF Made, TypeOK, MadeInOrder
<1>6. MadeInOrder'
  BY <1>1, <1>2, <1>3, <1>4, <1>5 DEF Made, TypeOK, MadeInOrder
<1>7. TypeOK'
  BY <1>1, <1>2, <1>3, <1>4, <1>6, InputRequest DEF Made, TypeOK, StagesOf
<1>8. ContextMade' /\ PrefillMade' /\ AnswersCame' /\ AnswerMade'
  BY <1>1, <1>2 DEF Made, ContextMade, PrefillMade, AnswersCame, AnswerMade
<1>9. DecodeMade' /\ PairMade'
  BY <1>1, <1>2 DEF Made, DecodeMade, DecodeRequest, PairMade
<1> QED
  BY <1>7, <1>8, <1>9 DEF Made

LEMMA RespondMade == Made /\ Respond => Made'
<1> SUFFICES ASSUME Made, Respond PROVE Made'
  OBVIOUS
<1>1. /\ stage = "answered" /\ stage' \in {"refused", "done"}
      /\ UNCHANGED <<mode, api, input, context, url, toPrefill, toDecode, ofPrefill, ofDecode>>
  BY DEF Respond, Goes
<1>2. /\ stage' = "refused" => answer' = Nothing
      /\ stage' = "done" => answer' \in {ofDecode, Merge(ofPrefill, ofDecode)}
  BY DEF Respond
<1>3. body' = body
  BY <1>1 DEF body
<1>4. mode \in {"regular", "vllm", "sglang"} /\ mode # "regular"
  BY <1>1, ModesAssumption DEF Made, TypeOK, StagesOf
<1>5. ofDecode # Nothing /\ IsJson(ofDecode)
  BY <1>1, <1>4 DEF Made, TypeOK, MadeInOrder
<1>6. stage' = "done" => IsJson(answer') /\ answer' # Nothing
  BY <1>2, <1>5, MergeJson, JsonIsSomething
<1>7. MadeInOrder'
  BY <1>1, <1>2, <1>3, <1>4, <1>5, <1>6 DEF Made, TypeOK, MadeInOrder
<1>8. TypeOK'
  BY <1>1, <1>2, <1>3, <1>4, <1>6, <1>7, InputRequest DEF Made, TypeOK, StagesOf
<1>9. ContextMade' /\ PrefillMade' /\ AnswersCame' /\ AnswerMade'
  BY <1>1, <1>2, <1>3 DEF Made, ContextMade, PrefillMade, AnswersCame, AnswerMade
<1>10. DecodeMade' /\ PairMade'
  BY <1>1, <1>3 DEF Made, DecodeMade, DecodeRequest, PairMade
<1> QED
  BY <1>8, <1>9, <1>10 DEF Made

LEMMA StutterMade == Made /\ UNCHANGED vars => Made'
<1> SUFFICES ASSUME Made, UNCHANGED vars PROVE Made'
  OBVIOUS
<1>1. TypeOK'
  BY DEF Made, vars, TypeOK, MadeInOrder, body
<1>2. ContextMade' /\ PrefillMade' /\ DecodeMade' /\ PairMade' /\ AnswersCame' /\ AnswerMade'
  BY DEF Made, vars, ContextMade, PrefillMade, DecodeMade, DecodeRequest, PairMade, AnswersCame, AnswerMade, body
<1> QED
  BY <1>1, <1>2 DEF Made

\* Every message is made as the code makes it.
THEOREM MadeAlways == Spec => []Made
<1>1. Made /\ [Next]_vars => Made'
  BY ReceiveMade, PrepareFailsMade, SendPrefillMade, SendDecodeMade, SendBothMade, DecodeAnswersMade,
     RespondMade, StutterMade DEF Next
<1> QED
  BY InitMade, <1>1, PTL DEF Spec

\* The type invariant: at every stage of every mode, the messages made by then are
\* JSON of their shape, and those that are not due, or were refused, are absent.
THEOREM TypeCorrect == Spec => []TypeOK
<1>1. Made => TypeOK
  BY DEF Made
<1> QED
  BY MadeAlways, <1>1, PTL

-----------------------------------------------------------------------------
(* Routing keys.                                                           *)

\* Min is the least element.
LEMMA MinIs ==
  ASSUME NEW S \in SUBSET Int, NEW x \in S, \A y \in S : x <= y
  PROVE  Min(S) = x
<1>1. \A y \in S : (\A z \in S : y <= z) => y = x
  OBVIOUS
<1>2. Min(S) \in S /\ \A z \in S : Min(S) <= z
  BY DEF Min
<1> QED
  BY <1>1, <1>2

\* FirstIn looks a key up by the first name that is there.
LEMMA FirstInIs ==
  ASSUME NEW names, NEW f, NEW k \in 1 .. Len(names), Len(names) \in Nat,
         names[k] \in DOMAIN f, \A j \in 1 .. k-1 : names[j] \notin DOMAIN f
  PROVE  FirstIn(names, f) = <<f[names[k]]>>
<1> DEFINE I == {i \in 1 .. Len(names) : names[i] \in DOMAIN f}
<1>1. k \in I /\ I \in SUBSET Int /\ \A y \in I : k <= y
  OBVIOUS
<1>2. FirstIn(names, f) = LET first == IF I # {} THEN Min(I) ELSE 0
                          IN  IF first = 0 THEN << >> ELSE <<f[names[first]]>>
  BY DEF FirstIn, SelectInSeq
<1> HIDE DEF I
<1>3. Min(I) = k
  BY <1>1, MinIs
<1> QED
  BY <1>1, <1>2, <1>3

LEMMA HeaderIsKey ==
  ASSUME NEW headers, NEW b, NEW k \in DOMAIN Identifying,
         \A j \in 1 .. k : Identifying[j] \in DOMAIN headers <=> j = k,
         headers[Identifying[k]] \notin {Empty, Unusable}
  PROVE  SessionId(headers, b) = headers[Identifying[k]]
<1> DEFINE value == headers[Identifying[k]]
           names == Identifying
<1>1. Len(names) \in Nat /\ k \in 1 .. Len(names)
  BY DEF Identifying
<1> HIDE DEF names
<1>2. names[k] \in DOMAIN headers /\ \A j \in 1 .. k-1 : names[j] \notin DOMAIN headers
  BY <1>1 DEF names
<1>3. FirstIn(names, headers) = <<headers[names[k]]>>
  BY <1>1, <1>2, FirstInIs
<1>4. FirstIn(Identifying, headers) = <<value>>
  BY <1>3 DEF names
<1>5. value \notin {Empty, Unusable}
  OBVIOUS
<1> HIDE DEF value
<1>6. <<value>> \notin {<<Empty>>, <<Unusable>>}
  BY <1>5
<1>7. ImplicitKey(headers) = <<value>>
  BY <1>4, <1>6 DEF ImplicitKey
<1>8. SessionId(headers, b) = value
  BY <1>7 DEF SessionId
<1> QED
  BY <1>8 DEF value

\* A usable first header is the session key, whatever the body.
THEOREM HeaderAlwaysDecides == Spec => []HeaderDecides
<1>1. Made => HeaderDecides
  <2> SUFFICES ASSUME Made, context # << >>, NEW k \in DOMAIN Identifying,
                      \A j \in 1 .. k : Identifying[j] \in DOMAIN input.headers <=> j = k,
                      input.headers[Identifying[k]] \notin {Empty, Unusable}
               PROVE  context.session_id = input.headers[Identifying[k]]
    BY DEF HeaderDecides
  <2>1. context.session_id = SessionId(input.headers, body)
    BY DEF Made, ContextMade, Context
  <2> QED
    BY <2>1, HeaderIsKey
<1> QED
  BY MadeAlways, <1>1, PTL

\* Of the messages of role system there is a first one.
LEMMA FirstSystemExists ==
  ASSUME NEW said, NEW i \in Nat, said[i].role = "system", i # 0
  PROVE  \E j \in 1 .. i : /\ said[j].role = "system"
                           /\ \A h \in 1 .. j-1 : said[h].role # "system"
<1> DEFINE T == {h \in 1 .. i : said[h].role = "system"}
<1>1. T \in SUBSET Nat /\ T # {}
  OBVIOUS
<1> HIDE DEF T
<1>2. PICK j \in T : \A h \in T : j <= h
  BY <1>1, LeastNatural
<1> USE DEF T
<1>3. j \in 1 .. i /\ said[j].role = "system"
  OBVIOUS
<1>4. \A h \in 1 .. j-1 : said[h].role # "system"
  BY <1>2, <1>3
<1> QED
  BY <1>3, <1>4

\* The first message of role system is the one addressed.
LEMMA AddressedSystem ==
  ASSUME NEW said, Len(said) \in Nat, NEW j \in 1 .. Len(said), said[j].role = "system",
         \A h \in 1 .. j-1 : said[h].role # "system"
  PROVE  Addressed(said) = <<said[j]>>
<1> DEFINE I == {i \in 1 .. Len(said) : said[i].role = "system"}
<1>1. j \in I /\ I \in SUBSET Int /\ \A y \in I : j <= y
  OBVIOUS
<1>2. Addressed(said) = LET system == IF I # {} THEN Min(I) ELSE 0
                        IN  IF system # 0 THEN <<said[system]>>
                            ELSE IF said # << >> THEN <<Head(said)>> ELSE << >>
  BY DEF Addressed, SelectInSeq
<1> HIDE DEF I
<1>3. Min(I) = j
  BY <1>1, MinIs
<1> QED
  BY <1>1, <1>2, <1>3

\* Without one, it is the first message.
LEMMA AddressedFirst ==
  ASSUME NEW S, NEW said \in Seq(S), said # << >>, \A h \in 1 .. Len(said) : said[h].role # "system"
  PROVE  Addressed(said) = <<said[1]>>
<1> DEFINE I == {i \in 1 .. Len(said) : said[i].role = "system"}
<1>1. Addressed(said) = LET system == IF I # {} THEN Min(I) ELSE 0
                        IN  IF system # 0 THEN <<said[system]>>
                            ELSE IF said # << >> THEN <<Head(said)>> ELSE << >>
  BY DEF Addressed, SelectInSeq
<1>2. I = {}
  OBVIOUS
<1>3. Head(said) = said[1]
  OBVIOUS
<1> QED
  BY <1>1, <1>2, <1>3

\* The message addressed is that of any beginning of the conversation that holds
\* the first message of role system, if there is one at all.
LEMMA AddressedOfBeginning ==
  ASSUME NEW S, NEW said \in Seq(S), NEW k \in DOMAIN said,
         \/ \E i \in 1 .. k : said[i].role = "system"
         \/ \A i \in DOMAIN said : said[i].role # "system"
  PROVE  Addressed(SubSeq(said, 1, k)) = Addressed(said)
<1> DEFINE begun == SubSeq(said, 1, k)
<1>1. k \in 1 .. Len(said) /\ DOMAIN said = 1 .. Len(said) /\ Len(said) \in Nat
  OBVIOUS
<1>2. begun \in Seq(S) /\ Len(begun) = k /\ begun # << >> /\ \A i \in 1 .. k : begun[i] = said[i]
  BY <1>1
<1> HIDE DEF begun
<1>3. CASE \E i \in 1 .. k : said[i].role = "system"
  <2>1. PICK i \in 1 .. k : said[i].role = "system"
    BY <1>3
  <2>2. i \in Nat /\ i # 0
    BY <1>1
  <2>3. PICK j \in 1 .. i : /\ said[j].role = "system"
                            /\ \A h \in 1 .. j-1 : said[h].role # "system"
    BY <2>1, <2>2, FirstSystemExists
  <2>4. j \in 1 .. k /\ j \in 1 .. Len(said)
    BY <1>1
  <2>5. Addressed(said) = <<said[j]>>
    BY <1>1, <2>3, <2>4, AddressedSystem
  <2>6. begun[j].role = "system" /\ \A h \in 1 .. j-1 : begun[h].role # "system"
    BY <1>1, <1>2, <2>3, <2>4
  <2>7. Addressed(begun) = <<begun[j]>>
    BY <1>1, <1>2, <2>4, <2>6, AddressedSystem
  <2> QED
    BY <1>2, <2>4, <2>5, <2>7 DEF begun
<1>4. CASE \A i \in DOMAIN said : said[i].role # "system"
  <2>1. said # << >>
    BY <1>1
  <2>2. Addressed(said) = <<said[1]>>
    BY <1>1, <1>4, <2>1, AddressedFirst
  <2>3. \A h \in 1 .. Len(begun) : begun[h].role # "system"
    BY <1>1, <1>2, <1>4
  <2>4. Addressed(begun) = <<begun[1]>>
    BY <1>2, <2>3, AddressedFirst
  <2> QED
    BY <1>1, <1>2, <2>2, <2>4 DEF begun
<1> QED
  BY <1>3, <1>4

\* The prefix key of a conversation is that of its beginning.
THEOREM PrefixAlwaysKept == Spec => []ConversationKeepsPrefix
<1>1. Made => ConversationKeepsPrefix
  <2> DEFINE said == body.fields["messages"]
  <2> SUFFICES ASSUME Made, context # << >>, Has(body, "messages"), NEW k \in DOMAIN said,
                      \/ \E i \in 1 .. k : said[i].role = "system"
                      \/ \A i \in DOMAIN said : said[i].role # "system"
               PROVE  context.prefix_key = PrefixKey(Put(body, "messages", SubSeq(said, 1, k)))
    BY DEF ConversationKeepsPrefix
  <2> DEFINE begun == Put(body, "messages", SubSeq(said, 1, k))
             key(m) == IF m # << >> /\ "content" \in DOMAIN Head(m)
                       THEN Clipped(Head(m)["content"]) ELSE DefaultPrefix
  <2>1. context.prefix_key = PrefixKey(body)
    BY DEF Made, ContextMade, Context
  <2>2. said \in Seq({said[i] : i \in DOMAIN said})
    <3>1. TypeOK /\ stage # "idle"
      BY DEF Made, TypeOK, MadeInOrder
    <3> QED
      BY <3>1, InputRequest DEF IsRequest, IsArray
  <2>3. Addressed(SubSeq(said, 1, k)) = Addressed(said)
    BY <2>2, AddressedOfBeginning
  <2>4. Has(begun, "messages") /\ begun.fields["messages"] = SubSeq(said, 1, k)
    BY DEF Put, Obj, Over, Has
  <2>5. PrefixKey(body) = key(Addressed(said))
    BY DEF PrefixKey, Has
  <2>6. PrefixKey(begun) = key(Addressed(SubSeq(said, 1, k)))
    <3> HIDE DEF begun
    <3> QED
      BY <2>4 DEF PrefixKey, Has
  <2> QED
    BY <2>1, <2>3, <2>5, <2>6
<1> QED
  BY MadeAlways, <1>1, PTL

-----------------------------------------------------------------------------
(* The request to the prefill worker.                                      *)

\* v[k] = x sets one field and keeps the others.
LEMMA PutFields ==
  ASSUME NEW v, NEW k, NEW x
  PROVE  /\ Put(v, k, x) = Obj(Put(v, k, x).fields)
         /\ DOMAIN Put(v, k, x).fields = {k} \cup DOMAIN v.fields
         /\ Put(v, k, x).fields[k] = x
         /\ \A f \in DOMAIN v.fields \ {k} : Put(v, k, x).fields[f] = v.fields[f]
BY DEF Put, Obj, Over

LEMMA WithoutFields ==
  ASSUME NEW fields, NEW k
  PROVE  /\ DOMAIN Without(Obj(fields), k).fields = DOMAIN fields \ {k}
         /\ \A f \in DOMAIN fields \ {k} : Without(Obj(fields), k).fields[f] = fields[f]
<1>1. Without(Obj(fields), k) = Obj([f \in DOMAIN fields \ {k} |-> fields[f]])
  BY DEF Without, Obj
<1> QED
  BY <1>1 DEF Obj

\* A request made for prefill is what OneToken makes of it, but for three fields.
LEMMA PreparedFields ==
  ASSUME NEW r, NEW a
  PROVE  LET made == Put(Prepared(r, a), "kv_transfer_params", "wanted")
         IN  /\ made.fields["stream"] = FALSE /\ ~Has(made, "stream_options")
             /\ \A k : k \notin {"stream", "stream_options", "kv_transfer_params"} =>
                    /\ Has(made, k) <=> Has(OneToken(r, a), k)
                    /\ Has(made, k) => made.fields[k] = OneToken(r, a).fields[k]
<1> DEFINE one  == OneToken(r, a)
           put  == Put(one, "stream", FALSE)
           prep == Without(put, "stream_options")
           made == Put(prep, "kv_transfer_params", "wanted")
<1> HIDE DEF one
<1>1. /\ put = Obj(put.fields) /\ DOMAIN put.fields = {"stream"} \cup DOMAIN one.fields
      /\ put.fields["stream"] = FALSE
      /\ \A f \in DOMAIN one.fields \ {"stream"} : put.fields[f] = one.fields[f]
  BY DEF Put, Obj, Over
<1> HIDE DEF put
<1>2. prep = Without(Obj(put.fields), "stream_options")
  BY <1>1
<1>3. /\ DOMAIN prep.fields = DOMAIN put.fields \ {"stream_options"}
      /\ \A f \in DOMAIN put.fields \ {"stream_options"} : prep.fields[f] = put.fields[f]
  <2> HIDE DEF prep
  <2> QED
    BY <1>2, WithoutFields
<1> HIDE DEF prep
<1>4. /\ DOMAIN made.fields = {"kv_transfer_params"} \cup DOMAIN prep.fields
      /\ \A f \in DOMAIN prep.fields \ {"kv_transfer_params"} : made.fields[f] = prep.fields[f]
  BY DEF Put, Obj, Over
<1> HIDE DEF made
<1>5. made.fields["stream"] = FALSE /\ ~Has(made, "stream_options")
  BY <1>1, <1>3, <1>4 DEF Has
<1>6. ASSUME NEW k, k \notin {"stream", "stream_options", "kv_transfer_params"}
      PROVE  /\ Has(made, k) <=> Has(one, k)
             /\ Has(made, k) => made.fields[k] = one.fields[k]
  BY <1>1, <1>3, <1>4, <1>6 DEF Has
<1> QED
  BY <1>5, <1>6 DEF made, prep, put, one, Prepared

\* Clamping lowers a minimum that is read and touches nothing else.
LEMMA ClampedFields ==
  ASSUME NEW v
  PROVE  /\ DOMAIN Clamped(v).fields = DOMAIN v.fields
         /\ \A f \in DOMAIN v.fields \ {"min_tokens"} : Clamped(v).fields[f] = v.fields[f]
         /\ Has(v, "min_tokens") => ~Exceeds(Clamped(v).fields["min_tokens"])
<1>1. CASE Has(v, "min_tokens") /\ Exceeds(v.fields["min_tokens"])
  <2>1. Clamped(v) = Put(v, "min_tokens", AtLeastOne)
    BY <1>1 DEF Clamped
  <2>2. ~Exceeds(AtLeastOne)
    BY DEF Exceeds, AtLeastOne
  <2>3. /\ DOMAIN Put(v, "min_tokens", AtLeastOne).fields = {"min_tokens"} \cup DOMAIN v.fields
        /\ Put(v, "min_tokens", AtLeastOne).fields["min_tokens"] = AtLeastOne
        /\ \A f \in DOMAIN v.fields \ {"min_tokens"} :
               Put(v, "min_tokens", AtLeastOne).fields[f] = v.fields[f]
    BY PutFields
  <2> QED
    BY <1>1, <2>1, <2>2, <2>3 DEF Has
<1>2. CASE ~(Has(v, "min_tokens") /\ Exceeds(v.fields["min_tokens"]))
  BY <1>2 DEF Clamped
<1> QED
  BY <1>1, <1>2

\* Each API's limits are one token, and a minimum that is read no more.
LEMMA GenerateLimits ==
  ASSUME NEW r
  PROVE  LET one == OneToken(r, "generate")
             limits == one.fields["sampling_params"].fields
         IN  /\ Has(one, "sampling_params")
             /\ "max_tokens" \in DOMAIN limits /\ limits["max_tokens"] = 1
             /\ "min_tokens" \in DOMAIN limits => ~Exceeds(limits["min_tokens"])
<1> DEFINE given  == r.fields["sampling_params"]
           put    == Put(given, "max_tokens", 1)
           params == IF Has(r, "sampling_params") THEN Clamped(put)
                     ELSE Obj([max_tokens |-> 1, min_tokens |-> AtLeastOne])
           one    == OneToken(r, "generate")
<1>1. one = Put(r, "sampling_params", params)
  BY DEF OneToken
<1>2. /\ "max_tokens" \in DOMAIN params.fields /\ params.fields["max_tokens"] = 1
      /\ "min_tokens" \in DOMAIN params.fields => ~Exceeds(params.fields["min_tokens"])
  <2>1. CASE Has(r, "sampling_params")
    <3> HIDE DEF given
    <3>1. "max_tokens" \in DOMAIN put.fields /\ put.fields["max_tokens"] = 1
      BY PutFields
    <3> HIDE DEF put
    <3>2. /\ DOMAIN Clamped(put).fields = DOMAIN put.fields
          /\ \A f \in DOMAIN put.fields \ {"min_tokens"} : Clamped(put).fields[f] = put.fields[f]
          /\ Has(put, "min_tokens") => ~Exceeds(Clamped(put).fields["min_tokens"])
      BY ClampedFields
    <3>3. params = Clamped(put)
      BY <2>1
    <3> HIDE DEF params
    <3> QED
      BY <3>1, <3>2, <3>3 DEF Has
  <2>2. CASE ~Has(r, "sampling_params")
    BY <2>2 DEF Obj, Exceeds, AtLeastOne
  <2> QED
    BY <2>1, <2>2
<1> HIDE DEF params
<1>3. Has(one, "sampling_params") /\ one.fields["sampling_params"] = params
  <2> HIDE DEF one
  <2> QED
    BY <1>1 DEF Put, Obj, Over, Has
<1> QED
  BY <1>2, <1>3 DEF one

LEMMA CompletionsLimits ==
  ASSUME NEW r
  PROVE  LET one == OneToken(r, "completions")
         IN  /\ Has(one, "max_tokens") /\ one.fields["max_tokens"] = 1
             /\ Has(one, "max_completion_tokens") => one.fields["max_completion_tokens"] = 1
             /\ Has(one, "min_tokens") => ~Exceeds(one.fields["min_tokens"])
<1> DEFINE limited == Put(r, "max_tokens", 1)
           both    == IF Has(r, "max_completion_tokens")
                      THEN Put(limited, "max_completion_tokens", 1) ELSE limited
           one     == OneToken(r, "completions")
<1>1. one = Clamped(both)
  BY DEF OneToken
<1>2. /\ DOMAIN limited.fields = {"max_tokens"} \cup DOMAIN r.fields
      /\ limited.fields["max_tokens"] = 1
      /\ \A f \in DOMAIN r.fields \ {"max_tokens"} : limited.fields[f] = r.fields[f]
  BY PutFields
<1> HIDE DEF limited
<1>3. /\ "max_tokens" \in DOMAIN both.fields /\ both.fields["max_tokens"] = 1
      /\ "max_completion_tokens" \in DOMAIN both.fields => both.fields["max_completion_tokens"] = 1
  <2>1. CASE Has(r, "max_completion_tokens")
    <3>1. both = Put(limited, "max_completion_tokens", 1)
      BY <2>1
    <3> HIDE DEF both
    <3> QED
      BY <1>2, <3>1, PutFields
  <2>2. CASE ~Has(r, "max_completion_tokens")
    BY <1>2, <2>2 DEF Has
  <2> QED
    BY <2>1, <2>2
<1> HIDE DEF both
<1>4. /\ DOMAIN Clamped(both).fields = DOMAIN both.fields
      /\ \A f \in DOMAIN both.fields \ {"min_tokens"} : Clamped(both).fields[f] = both.fields[f]
      /\ Has(both, "min_tokens") => ~Exceeds(Clamped(both).fields["min_tokens"])
  BY ClampedFields
<1> HIDE DEF one
<1>5. /\ Has(one, "max_tokens") /\ one.fields["max_tokens"] = 1
      /\ Has(one, "max_completion_tokens") => one.fields["max_completion_tokens"] = 1
      /\ Has(one, "min_tokens") => ~Exceeds(one.fields["min_tokens"])
  BY <1>1, <1>3, <1>4 DEF Has
<1> QED
  BY <1>5 DEF one

LEMMA ResponsesLimits ==
  ASSUME NEW r
  PROVE  LET one == OneToken(r, "responses")
         IN  Has(one, "max_output_tokens") /\ one.fields["max_output_tokens"] = 1
<1>1. OneToken(r, "responses") = Put(r, "max_output_tokens", 1)
  BY DEF OneToken
<1> QED
  BY <1>1 DEF Put, Obj, Over, Has

\* The prefill worker of vLLM mode generates one token at most, whatever limits the
\* client set and in whatever combination, with no minimum above it that is read.
THEOREM PrefillAlwaysOnly == Spec => []PrefillOnly
<1>1. Made => PrefillOnly
  <2> SUFFICES ASSUME Made, mode = "vllm", toPrefill # Nothing
               PROVE  /\ LimitNames \cap DOMAIN Limits(toPrefill) # {}
                      /\ \A k \in LimitNames \cap DOMAIN Limits(toPrefill) : Limits(toPrefill)[k] = 1
                      /\ api # "responses" /\ "min_tokens" \in DOMAIN Limits(toPrefill)
                            => ~Exceeds(Limits(toPrefill)["min_tokens"])
                      /\ toPrefill.fields["stream"] = FALSE /\ ~Has(toPrefill, "stream_options")
    BY DEF PrefillOnly
  <2> DEFINE one == OneToken(body, api)
  <2>1. toPrefill = Put(Prepared(body, api), "kv_transfer_params", "wanted")
    BY DEF Made, PrefillMade
  <2>2. api \in {"completions", "responses", "generate"}
    BY ApisAssumption DEF Made, TypeOK
  <2>3. /\ toPrefill.fields["stream"] = FALSE /\ ~Has(toPrefill, "stream_options")
        /\ \A k : k \notin {"stream", "stream_options", "kv_transfer_params"} =>
               /\ Has(toPrefill, k) <=> Has(one, k)
               /\ Has(toPrefill, k) => toPrefill.fields[k] = one.fields[k]
    BY <2>1, PreparedFields
  <2> HIDE DEF one
  <2>4. CASE api = "generate"
    <3> DEFINE limits == one.fields["sampling_params"].fields
    <3>1. /\ Has(one, "sampling_params")
          /\ "max_tokens" \in DOMAIN limits /\ limits["max_tokens"] = 1
          /\ "min_tokens" \in DOMAIN limits => ~Exceeds(limits["min_tokens"])
      BY <2>2, <2>4, GenerateLimits DEF one
    <3>2. Limits(toPrefill) = limits /\ LimitNames = {"max_tokens"}
      BY <2>3, <2>4, <3>1 DEF Limits, LimitNames
    <3> HIDE DEF limits
    <3> QED
      BY <2>3, <3>1, <3>2
  <2>5. CASE api = "responses"
    <3>1. Has(one, "max_output_tokens") /\ one.fields["max_output_tokens"] = 1
      BY <2>5, ResponsesLimits DEF one
    <3>2. Has(toPrefill, "max_output_tokens") /\ toPrefill.fields["max_output_tokens"] = 1
      BY <2>3, <3>1
    <3>3. Limits(toPrefill) = toPrefill.fields /\ LimitNames = {"max_output_tokens"}
      BY <2>5 DEF Limits, LimitNames
    <3> QED
      BY <2>3, <2>5, <3>2, <3>3 DEF Has
  <2>6. CASE api = "completions"
    <3>1. /\ Has(one, "max_tokens") /\ one.fields["max_tokens"] = 1
          /\ Has(one, "max_completion_tokens") => one.fields["max_completion_tokens"] = 1
          /\ Has(one, "min_tokens") => ~Exceeds(one.fields["min_tokens"])
      BY <2>2, <2>6, CompletionsLimits DEF one
    <3>2. /\ Has(toPrefill, "max_tokens") /\ toPrefill.fields["max_tokens"] = 1
          /\ Has(toPrefill, "max_completion_tokens") => toPrefill.fields["max_completion_tokens"] = 1
          /\ Has(toPrefill, "min_tokens") => ~Exceeds(toPrefill.fields["min_tokens"])
      BY <2>3, <3>1
    <3>3. Limits(toPrefill) = toPrefill.fields /\ LimitNames = {"max_tokens", "max_completion_tokens"}
      BY <2>6 DEF Limits, LimitNames
    <3> QED
      BY <2>3, <3>2, <3>3 DEF Has
  <2> QED
    BY <2>2, <2>4, <2>5, <2>6
<1> QED
  BY MadeAlways, <1>1, PTL

-----------------------------------------------------------------------------
(* The request to the decode worker, and the pair.                         *)

\* Inserting fields changes no other field, and what is not an object not at all.
LEMMA InsertFields ==
  ASSUME NEW v, NEW more
  PROVE  /\ Insert(v, more).is = v.is
         /\ v.is = "object" => /\ DOMAIN Insert(v, more).fields = DOMAIN more \cup DOMAIN v.fields
                               /\ \A f \in DOMAIN more : Insert(v, more).fields[f] = more[f]
                               /\ \A f \in DOMAIN v.fields \ DOMAIN more :
                                      Insert(v, more).fields[f] = v.fields[f]
         /\ v.is # "object" => Insert(v, more) = v
BY DEF Insert, Obj, Over

\* The decode worker of vLLM mode is asked for what the client asked for.
THEOREM DecodeAlwaysAsAsked == Spec => []DecodeAsAsked
<1>1. Made => DecodeAsAsked
  <2> SUFFICES ASSUME Made, mode = "vllm", toDecode # Nothing
               PROVE  /\ toDecode.is = body.is
                      /\ \A k \in (DOMAIN body.fields \cup DOMAIN toDecode.fields) \ {"kv_transfer_params"} :
                            /\ k \in DOMAIN body.fields \cap DOMAIN toDecode.fields
                            /\ toDecode.fields[k] = body.fields[k]
    BY DEF DecodeAsAsked
  <2>1. toDecode = Insert(body, KvOf(ofPrefill))
    BY DEF Made, DecodeMade, DecodeRequest
  <2>2. DOMAIN KvOf(ofPrefill) \subseteq {"kv_transfer_params"}
    BY DEF KvOf
  <2>3. CASE body.is = "object"
    <3>1. /\ toDecode.is = body.is
          /\ DOMAIN toDecode.fields = DOMAIN KvOf(ofPrefill) \cup DOMAIN body.fields
          /\ \A f \in DOMAIN body.fields \ DOMAIN KvOf(ofPrefill) : toDecode.fields[f] = body.fields[f]
      BY <2>1, <2>3, InsertFields
    <3> QED
      BY <2>2, <3>1
  <2>4. CASE body.is # "object"
    <3>1. toDecode = body
      BY <2>1, <2>4, InsertFields
    <3> QED
      BY <3>1
  <2> QED
    BY <2>3, <2>4
<1> QED
  BY MadeAlways, <1>1, PTL

\* No room is negative, but for the one whose absolute value is no i64.
LEMMA AbsBounds ==
  ASSUME NEW room \in -RoomBound .. RoomBound-1
  PROVE  Abs(room) >= 0 \/ Abs(room) = -RoomBound
BY RoomAssumption DEF Abs

\* The two workers of an SGLang pair are sent the same parameters, and can meet.
THEOREM PairAlwaysMeets == Spec => []PairMeets
<1>1. Made => PairMeets
  <2> SUFFICES ASSUME Made, mode = "sglang", toDecode # Nothing, body.is = "object"
               PROVE  /\ toPrefill = toDecode
                      /\ \/ toDecode.fields["bootstrap_host"] = <<url.host, url.port>>
                         \/ url.port \in {"none", "scheme's"}
                      /\ \/ toDecode.fields["bootstrap_room"] >= 0
                         \/ toDecode.fields["bootstrap_room"] = -RoomBound
    BY DEF PairMeets
  <2>1. PICK room \in Rooms : /\ toPrefill = Insert(body, BootstrapParams(url, room))
                              /\ toDecode = Insert(body, BootstrapParams(url, room))
    BY DEF Made, PairMade
  <2> DEFINE params == BootstrapParams(url, room)
  <2>2. /\ DOMAIN params = {"bootstrap_host", "bootstrap_port", "bootstrap_room"}
        /\ params["bootstrap_host"] = BootstrapHost(url) /\ params["bootstrap_room"] = Abs(room)
    BY DEF BootstrapParams
  <2> HIDE DEF params
  <2>3. \A f \in DOMAIN params : toDecode.fields[f] = params[f]
    BY <2>1, InsertFields DEF params
  <2>4. toDecode.fields["bootstrap_host"] = BootstrapHost(url) /\ toDecode.fields["bootstrap_room"] = Abs(room)
    BY <2>2, <2>3
  <2>5. BootstrapHost(url) = <<url.host, url.port>> \/ url.port \in {"none", "scheme's"}
    BY DEF BootstrapHost
  <2>6. Abs(room) >= 0 \/ Abs(room) = -RoomBound
    BY AbsBounds, RoomsAssumption
  <2> QED
    BY <2>1, <2>4, <2>5, <2>6
<1> QED
  BY MadeAlways, <1>1, PTL

-----------------------------------------------------------------------------
(* The merge of log probabilities.                                         *)

LEMMA TokenAt == ASSUME NEW s \in Seq(Token), NEW i \in 1 .. Len(s) PROVE s[i].chars \in Nat
<1>1. s[i] \in Token
  OBVIOUS
<1> QED
  BY <1>1 DEF Token

\* The text before the tokens of a sequence grows by one token at a time.
LEMMA TextBeforeSteps ==
  ASSUME NEW s \in Seq(Token)
  PROVE  /\ TextBefore(s, 1) = 0
         /\ \A k \in 1 .. Len(s) : TextBefore(s, k+1) = TextBefore(s, k) + s[k].chars
         /\ \A k \in 1 .. Len(s)+1 : TextBefore(s, k) \in Nat
<1> DEFINE m == Len(s)
           step == [x \in Nat \X (1 .. m) |-> x[1] + s[x[2]].chars]
           Runs(f) == f = [i \in 0 .. m |-> IF i = 0 THEN 0 ELSE f[i-1] + s[i].chars]
           sum == CHOOSE f : Runs(f)
<1>1. m \in Nat /\ \A i \in 1 .. m : s[i].chars \in Nat
  BY TokenAt
<1>2. \A k : TextBefore(s, k) = sum[k-1]
  BY DEF TextBefore
<1>3. \A x \in Nat, i \in 1 .. m : step[<<x, i>>] = x + s[i].chars
  OBVIOUS
<1>4. step \in [Nat \X (1 .. m) -> Nat]
  <2>1. ASSUME NEW x \in Nat \X (1 .. m) PROVE x[1] + s[x[2]].chars \in Nat
    <3>1. x[1] \in Nat /\ x[2] \in 1 .. m
      OBVIOUS
    <3>2. s[x[2]].chars \in Nat
      BY <1>1, <3>1
    <3> QED
      BY <3>1, <3>2
  <2> HIDE DEF m
  <2> QED
    BY <2>1
<1> HIDE DEF m, step
<1>5. Iterations(Nat, m, 0, step) # {}
  BY <1>1, <1>4, IterationsExist
<1>6. PICK f : f \in [0 .. m -> Nat] /\ f[0] = 0 /\ \A i \in 1 .. m : f[i] = step[<<f[i-1], i>>]
  BY <1>5 DEF Iterations
<1>7. ASSUME NEW i \in 1 .. m PROVE f[i] = f[i-1] + s[i].chars
  <2>1. i-1 \in 0 .. m /\ f[i] = step[<<f[i-1], i>>]
    BY <1>1, <1>6
  <2>2. f[i-1] \in Nat
    BY <1>6, <2>1
  <2> QED
    BY <1>3, <2>1, <2>2
<1>8. Runs(f)
  <2>1. \A i \in 0 .. m : f[i] = IF i = 0 THEN 0 ELSE f[i-1] + s[i].chars
    BY <1>6, <1>7
  <2>2. f = [i \in 0 .. m |-> f[i]]
    BY <1>6
  <2> QED
    BY <2>1, <2>2
<1> HIDE DEF Runs
<1>9. Runs(sum)
  BY <1>8
<1> HIDE DEF sum
<1>10. /\ sum[0] = 0
       /\ \A i \in 1 .. m : sum[i] = sum[i-1] + s[i].chars
  BY <1>1, <1>9 DEF Runs
<1> DEFINE T == {i \in 0 .. m : sum[i] \in Nat}
<1>11. 0 \in T /\ \A i \in 0 .. m-1 : i \in T => i + 1 \in T
  <2>1. ASSUME NEW i \in 0 .. m-1, i \in T PROVE i + 1 \in T
    <3>1. i + 1 \in 1 .. m /\ (i + 1) - 1 = i /\ i + 1 \in 0 .. m
      BY <1>1
    <3>2. sum[i+1] = sum[i] + s[i+1].chars /\ s[i+1].chars \in Nat
      BY <1>1, <1>10, <3>1
    <3> QED
      BY <2>1, <3>1, <3>2
  <2> QED
    BY <1>1, <1>10, <2>1
<1>12. \A i \in T : sum[i] \in Nat
  OBVIOUS
<1> HIDE DEF T
<1>13. \A i \in 0 .. m : i \in T
  BY <1>1, <1>11, UpToInduction
<1>14. \A k \in 1 .. m : TextBefore(s, k+1) = TextBefore(s, k) + s[k].chars
  <2> SUFFICES ASSUME NEW k \in 1 .. m PROVE TextBefore(s, k+1) = TextBefore(s, k) + s[k].chars
    OBVIOUS
  <2>1. (k + 1) - 1 = k
    BY <1>1
  <2> QED
    BY <1>2, <1>10, <2>1
<1>15. \A k \in 1 .. m+1 : TextBefore(s, k) \in Nat
  <2> SUFFICES ASSUME NEW k \in 1 .. m+1 PROVE TextBefore(s, k) \in Nat
    OBVIOUS
  <2>1. k - 1 \in 0 .. m
    BY <1>1
  <2> QED
    BY <1>2, <1>12, <1>13, <2>1
<1>16. TextBefore(s, 1) = 0
  BY <1>2, <1>10
<1> QED
  BY <1>14, <1>15, <1>16 DEF m

\* The text before a token of two sequences in a row: that of the first, and from
\* there on what both hold.
LEMMA TextBeforeJoined ==
  ASSUME NEW s \in Seq(Token), NEW t \in Seq(Token), NEW m \in 0 .. Len(s), NEW both \in Seq(Token),
         Len(both) = m + Len(t),
         \A i \in 1 .. m : both[i] = s[i],
         \A i \in 1 .. Len(t) : both[m+i] = t[i]
  PROVE  /\ \A k \in 1 .. m+1 : TextBefore(both, k) = TextBefore(s, k)
         /\ \A k \in 1 .. Len(t)+1 : TextBefore(both, m+k) = TextBefore(s, m+1) + TextBefore(t, k)
<1>1. m \in Nat /\ Len(s) \in Nat /\ Len(t) \in Nat /\ m <= Len(s)
  OBVIOUS
<1>nat. \A i \in 1 .. Len(t) : t[i].chars \in Nat
  BY TokenAt
<1>assoc. \A x, y, z \in Nat : (x + y) + z = x + (y + z)
  OBVIOUS
<1> DEFINE A == {i \in 0 .. m : TextBefore(both, i+1) = TextBefore(s, i+1)}
           B == {i \in 0 .. Len(t) : TextBefore(both, m+(i+1)) = TextBefore(s, m+1) + TextBefore(t, i+1)}
<1>2. 0 \in A
  BY <1>1, TextBeforeSteps
<1>3. ASSUME NEW i \in 0 .. m-1, i \in A PROVE i + 1 \in A
  <2>1. i + 1 \in 1 .. m /\ i + 1 \in 1 .. Len(s) /\ i + 1 \in 1 .. Len(both) /\ i + 1 \in 0 .. m
    BY <1>1
  <2>2. /\ TextBefore(both, (i+1)+1) = TextBefore(both, i+1) + both[i+1].chars
        /\ TextBefore(s, (i+1)+1) = TextBefore(s, i+1) + s[i+1].chars
    BY <2>1, TextBeforeSteps
  <2> QED
    BY <1>3, <2>1, <2>2
<1>4. \A i \in 0 .. m : i \in A
  <2> HIDE DEF A
  <2> QED
    BY <1>1, <1>2, <1>3, UpToInduction
<1>5. \A k \in 1 .. m+1 : TextBefore(both, k) = TextBefore(s, k)
  <2> SUFFICES ASSUME NEW k \in 1 .. m+1 PROVE TextBefore(both, k) = TextBefore(s, k)
    OBVIOUS
  <2>1. k - 1 \in 0 .. m /\ (k-1)+1 = k
    BY <1>1
  <2>2. k - 1 \in A
    BY <1>4, <2>1
  <2> QED
    BY <2>1, <2>2
<1>6. TextBefore(s, m+1) \in Nat
  BY <1>1, TextBeforeSteps
<1>7. 0 \in B
  <2>1. TextBefore(both, m+1) = TextBefore(s, m+1) /\ TextBefore(t, 1) = 0
    BY <1>1, <1>5, TextBeforeSteps
  <2> QED
    BY <1>1, <1>6, <2>1
<1>8. ASSUME NEW i \in 0 .. Len(t)-1, i \in B PROVE i + 1 \in B
  <2>1. PICK j \in 1 .. Len(t) : j = i + 1
    BY <1>1
  <2>2. m + j \in 1 .. Len(both) /\ m + (j+1) = (m+j) + 1 /\ j \in 1 .. Len(t)+1 /\ j \in 0 .. Len(t)
    BY <1>1
  <2>3. /\ TextBefore(both, (m+j)+1) = TextBefore(both, m+j) + both[m+j].chars
        /\ TextBefore(t, j+1) = TextBefore(t, j) + t[j].chars
        /\ TextBefore(t, j) \in Nat
    BY <2>2, TextBeforeSteps
  <2>4. both[m+j] = t[j]
    BY Zenon
  <2>5. t[j].chars \in Nat
    BY <1>nat, Zenon
  <2>6. TextBefore(both, m+j) = TextBefore(s, m+1) + TextBefore(t, j)
    BY <1>8, <2>1
  <2>7. TextBefore(both, (m+j)+1) = (TextBefore(s, m+1) + TextBefore(t, j)) + t[j].chars
    BY <2>3, <2>4, <2>6, Zenon
  <2>8. (TextBefore(s, m+1) + TextBefore(t, j)) + t[j].chars = TextBefore(s, m+1) + (TextBefore(t, j) + t[j].chars)
    BY <1>6, <1>assoc, <2>3, <2>5, Zenon
  <2>9. TextBefore(both, m+(j+1)) = TextBefore(s, m+1) + TextBefore(t, j+1)
    BY <2>2, <2>3, <2>7, <2>8, Zenon
  <2> QED
    BY <2>1, <2>2, <2>9
<1>9. \A i \in 0 .. Len(t) : i \in B
  <2> HIDE DEF B
  <2> QED
    BY <1>1, <1>7, <1>8, UpToInduction
<1>10. \A k \in 1 .. Len(t)+1 : TextBefore(both, m+k) = TextBefore(s, m+1) + TextBefore(t, k)
  <2> SUFFICES ASSUME NEW k \in 1 .. Len(t)+1
               PROVE  TextBefore(both, m+k) = TextBefore(s, m+1) + TextBefore(t, k)
    OBVIOUS
  <2>1. k - 1 \in 0 .. Len(t) /\ (k-1)+1 = k
    BY <1>1
  <2>2. k - 1 \in B
    BY <1>9, <2>1
  <2> QED
    BY <2>1, <2>2
<1> QED
  BY <1>5, <1>10

\* What IsChoice says of the arrays of a choice.
Arrayed(lp) ==
    /\ \A a \in DOMAIN lp : IsArray(lp[a])
    /\ "tokens" \in DOMAIN lp => lp["tokens"] \in Seq(Token)
    /\ "text_offset" \in DOMAIN lp => lp["text_offset"] \in Seq(Int)

LEMMA ArrayDomain == ASSUME NEW s, IsArray(s) PROVE DOMAIN s = 1 .. Len(s) /\ Len(s) \in Nat
BY DEF IsArray

LEMMA UpToLenIs ==
  ASSUME NEW s, IsArray(s), NEW n \in Nat
  PROVE  /\ LeastOf(n, Len(s)) \in 0 .. Len(s) /\ Len(s) \in Nat
         /\ UpToLen(s, n) \in Seq({s[i] : i \in DOMAIN s})
         /\ Len(UpToLen(s, n)) = LeastOf(n, Len(s))
         /\ \A i \in 1 .. LeastOf(n, Len(s)) : UpToLen(s, n)[i] = s[i]
<1> DEFINE S == {s[i] : i \in DOMAIN s}
           m == LeastOf(n, Len(s))
<1>1. s \in Seq(S)
  BY DEF IsArray
<1> HIDE DEF S
<1>2. Len(s) \in Nat
  BY <1>1
<1>3. m \in 0 .. Len(s)
  BY <1>2 DEF LeastOf
<1> HIDE DEF m
<1>4. /\ SubSeq(s, 1, m) \in Seq(S) /\ Len(SubSeq(s, 1, m)) = m
      /\ \A i \in 1 .. m : SubSeq(s, 1, m)[i] = s[i]
  BY <1>1, <1>2, <1>3
<1> QED
  BY <1>2, <1>3, <1>4 DEF UpToLen, m, S

\* The last of the first n tokens, if there is one, has a byte per character.
LastInAscii(tokens, n) ==
    LET last == LeastOf(n, Len(tokens)) IN last > 0 => tokens[last].bytes = tokens[last].chars

\* The generated text starts where the text of the prompt ends.
LEMMA BaseIs ==
  ASSUME NEW lp, Arrayed(lp), Aligned(lp), NEW n \in Nat, LastInAscii(lp["tokens"], n)
  PROVE  Base(n, lp) = TextBefore(lp["tokens"], LeastOf(n, Len(lp["tokens"])) + 1)
<1> DEFINE tokens == lp["tokens"]
           offset == lp["text_offset"]
           m      == LeastOf(n, Len(tokens))
           prompt == UpToLen(offset, n)
<1>1. DOMAIN lp = {"tokens", "token_logprobs", "top_logprobs", "text_offset"}
  BY DEF Aligned, Arrays
<1>2. tokens \in Seq(Token) /\ offset \in Seq(Int) /\ IsArray(tokens) /\ IsArray(offset)
  BY <1>1 DEF Arrayed
<1>3. Len(offset) = Len(tokens) /\ \A k \in DOMAIN tokens : offset[k] = TextBefore(tokens, k)
  BY <1>1 DEF Aligned, Arrays
<1>4. Base(n, lp) = IF prompt = << >> THEN 0 ELSE prompt[Len(prompt)] + LastTokenLen(n, lp)
  BY DEF Base
<1>5. LastTokenLen(n, lp) = IF tokens # << >> THEN tokens[m].bytes ELSE 0
  BY <1>1 DEF LastTokenLen, Given
<1>ascii. m > 0 => tokens[m].bytes = tokens[m].chars
  BY DEF LastInAscii
<1> HIDE DEF tokens, offset
<1>6. /\ m \in 0 .. Len(tokens) /\ Len(tokens) \in Nat /\ m \in Nat
      /\ prompt \in Seq({offset[i] : i \in DOMAIN offset}) /\ Len(prompt) = m
      /\ \A i \in 1 .. m : prompt[i] = offset[i]
  <2>1. /\ LeastOf(n, Len(offset)) \in 0 .. Len(offset) /\ Len(offset) \in Nat
        /\ UpToLen(offset, n) \in Seq({offset[i] : i \in DOMAIN offset})
        /\ Len(UpToLen(offset, n)) = LeastOf(n, Len(offset))
        /\ \A i \in 1 .. LeastOf(n, Len(offset)) : UpToLen(offset, n)[i] = offset[i]
    BY <1>2, UpToLenIs
  <2>2. LeastOf(n, Len(offset)) = m
    BY <1>3
  <2> HIDE DEF m, prompt
  <2> QED
    BY <1>3, <2>1, <2>2 DEF prompt
<1> HIDE DEF m, prompt
<1>7. CASE m = 0
  <2>1. prompt = << >>
    BY <1>6, <1>7
  <2>2. TextBefore(tokens, 1) = 0
    BY <1>2, TextBeforeSteps
  <2> QED
    BY <1>4, <1>7, <2>1, <2>2 DEF m, tokens
<1>8. CASE m # 0
  <2>1. m \in 1 .. m /\ m \in 1 .. Len(tokens) /\ m \in DOMAIN tokens /\ prompt # << >> /\ tokens # << >>
    BY <1>2, <1>6, <1>8
  <2>2. prompt[Len(prompt)] = TextBefore(tokens, m)
    BY <1>3, <1>6, <2>1
  <2>3. TextBefore(tokens, m+1) = TextBefore(tokens, m) + tokens[m].chars
    BY <1>2, <2>1, TextBeforeSteps
  <2>4. tokens[m].bytes = tokens[m].chars
    BY <1>6, <1>8, <1>ascii
  <2> QED
    BY <1>4, <1>5, <2>1, <2>2, <2>3, <2>4 DEF m, tokens
<1> QED
  BY <1>7, <1>8

\* Two sequences in a row, whatever they hold.
LEMMA ConcatIs ==
  ASSUME NEW P, NEW D, NEW h \in Seq(P), NEW t \in Seq(D), NEW m, m = Len(h), NEW l, l = Len(t)
  PROVE  /\ m \in Nat /\ l \in Nat
         /\ h \o t \in Seq(P \cup D) /\ Len(h \o t) = m + l /\ DOMAIN (h \o t) = 1 .. m + l
         /\ \A i \in 1 .. m : (h \o t)[i] = h[i]
         /\ \A i \in 1 .. l : (h \o t)[m+i] = t[i]
<1>1. h \in Seq(P \cup D) /\ t \in Seq(P \cup D) /\ Len(h) \in Nat /\ Len(t) \in Nat
  OBVIOUS
<1>2. h \o t \in Seq(P \cup D) /\ Len(h \o t) = Len(h) + Len(t)
  BY <1>1
<1>3. DOMAIN (h \o t) = 1 .. Len(h) + Len(t)
  BY <1>2
<1>4. \A i \in 1 .. Len(h) : (h \o t)[i] = h[i]
  BY <1>1
<1>5. \A i \in 1 .. Len(t) : (h \o t)[Len(h)+i] = t[i]
  BY <1>1
<1> QED
  BY <1>1, <1>2, <1>3, <1>4, <1>5

\* A sequence that holds the first m entries of s and then the l entries of t.
InARow(both, m, s, l, t) ==
    /\ Len(both) = m + l /\ DOMAIN both = 1 .. m + l
    /\ \A i \in 1 .. m : both[i] = s[i]
    /\ \A i \in 1 .. l : both[m+i] = t[i]

LEMMA HeadAndRest ==
  ASSUME NEW s, IsArray(s), NEW n \in Nat, NEW D, NEW t \in Seq(D)
  PROVE  InARow(UpToLen(s, n) \o t, LeastOf(n, Len(s)), s, Len(t), t)
<1> DEFINE head == UpToLen(s, n)
           m    == LeastOf(n, Len(s))
           P    == {s[i] : i \in DOMAIN s}
<1>1. head \in Seq(P) /\ m = Len(head) /\ \A i \in 1 .. m : head[i] = s[i]
  BY UpToLenIs
<1> HIDE DEF head, m, P
<1>2. /\ Len(head \o t) = m + Len(t) /\ DOMAIN (head \o t) = 1 .. m + Len(t)
      /\ \A i \in 1 .. m : (head \o t)[i] = head[i]
      /\ \A i \in 1 .. Len(t) : (head \o t)[m+i] = t[i]
  BY <1>1, ConcatIs
<1>3. InARow(head \o t, m, s, Len(t), t)
  BY <1>1, <1>2 DEF InARow
<1> QED
  BY <1>3 DEF head, m

\* An array of both workers: the prompt's entries of the one, then the other's.
LEMMA JoinedIs ==
  ASSUME NEW a, a # "text_offset", NEW n \in Nat, NEW plp, NEW dlp, IsArray(plp[a]), IsArray(dlp[a])
  PROVE  InARow(Joined(a, n, plp, dlp), LeastOf(n, Len(plp[a])), plp[a], Len(dlp[a]), dlp[a])
<1>1. Joined(a, n, plp, dlp) = UpToLen(plp[a], n) \o dlp[a]
  BY DEF Joined
<1>2. dlp[a] \in Seq({dlp[a][i] : i \in DOMAIN dlp[a]})
  BY DEF IsArray
<1> QED
  BY <1>1, <1>2, HeadAndRest

\* The offsets of both: those of the other moved by Base.
LEMMA OffsetsJoinedAre ==
  ASSUME NEW n \in Nat, NEW plp, NEW dlp, IsArray(plp["text_offset"]), IsArray(dlp["text_offset"])
  PROVE  InARow(Joined("text_offset", n, plp, dlp),
                LeastOf(n, Len(plp["text_offset"])), plp["text_offset"],
                Len(dlp["text_offset"]), [k \in DOMAIN dlp["text_offset"] |-> dlp["text_offset"][k] + Base(n, plp)])
<1> DEFINE t     == dlp["text_offset"]
           base  == Base(n, plp)
           moved == [k \in DOMAIN t |-> t[k] + base]
           E     == {t[k] + base : k \in DOMAIN t}
<1>1. Joined("text_offset", n, plp, dlp) = UpToLen(plp["text_offset"], n) \o moved
  BY DEF Joined
<1>2. t \in Seq({t[i] : i \in DOMAIN t})
  BY DEF IsArray
<1> HIDE DEF t, base
<1>3. Len(t) \in Nat /\ DOMAIN t = 1 .. Len(t)
  BY <1>2
<1>4. moved = [k \in 1 .. Len(t) |-> t[k] + base] /\ \A k \in 1 .. Len(t) : t[k] + base \in E
  BY <1>3
<1> HIDE DEF moved, E
<1>5. moved \in Seq(E) /\ Len(moved) = Len(t)
  BY <1>3, <1>4
<1>6. InARow(UpToLen(plp["text_offset"], n) \o moved, LeastOf(n, Len(plp["text_offset"])),
             plp["text_offset"], Len(moved), moved)
  BY <1>5, HeadAndRest
<1> QED
  BY <1>1, <1>5, <1>6 DEF moved, t, base

\* Aligned arrays of both workers are aligned when they are joined.
LEMMA JoinedAligned ==
  ASSUME NEW n \in Nat, NEW plp, NEW dlp, Arrayed(plp), Arrayed(dlp), Aligned(plp), Aligned(dlp),
         LastInAscii(plp["tokens"], n)
  PROVE  Aligned([a \in DOMAIN dlp |-> IF Given(a, plp) THEN Joined(a, n, plp, dlp) ELSE dlp[a]])
<1> DEFINE lp == [a \in DOMAIN dlp |-> IF Given(a, plp) THEN Joined(a, n, plp, dlp) ELSE dlp[a]]
           s  == plp["tokens"]
           t  == dlp["tokens"]
           m  == LeastOf(n, Len(s))
           both == Joined("tokens", n, plp, dlp)
           offs == Joined("text_offset", n, plp, dlp)
<1>1. /\ DOMAIN plp = Arrays /\ \A a \in Arrays : Len(plp[a]) = Len(s)
      /\ \A k \in DOMAIN s : plp["text_offset"][k] = TextBefore(s, k)
  BY DEF Aligned
<1>2. /\ DOMAIN dlp = Arrays /\ \A a \in Arrays : Len(dlp[a]) = Len(t)
      /\ \A k \in DOMAIN t : dlp["text_offset"][k] = TextBefore(t, k)
  BY DEF Aligned
<1>3. {"tokens", "text_offset"} \subseteq Arrays
  BY DEF Arrays
<1>4. DOMAIN lp = Arrays /\ \A a \in Arrays : lp[a] = Joined(a, n, plp, dlp)
  BY <1>1, <1>2 DEF Given
<1> HIDE DEF lp
<1>5. /\ s \in Seq(Token) /\ t \in Seq(Token)
      /\ \A a \in Arrays : IsArray(plp[a]) /\ IsArray(dlp[a])
  BY <1>1, <1>2, <1>3 DEF Arrayed
<1>6. m \in 0 .. Len(s) /\ m \in Nat
  <2>1. Len(s) \in Nat
    BY <1>5
  <2> HIDE DEF s
  <2> QED
    BY <2>1 DEF LeastOf
<1>7. both \in Seq(Token)
  <2>1. both = SubSeq(s, 1, m) \o t
    BY DEF Joined, UpToLen
  <2> HIDE DEF both, m, s, t
  <2>2. SubSeq(s, 1, m) \in Seq(Token)
    BY <1>5, <1>6
  <2> QED
    BY <1>5, <2>1, <2>2
<1> HIDE DEF s, t, m, both, offs
<1>8. ASSUME NEW a \in Arrays
      PROVE  LeastOf(n, Len(plp[a])) = m /\ Len(dlp[a]) = Len(t) /\ IsArray(plp[a]) /\ IsArray(dlp[a])
  BY <1>1, <1>2, <1>5 DEF m
<1>9. ASSUME NEW a \in Arrays, a # "text_offset"
      PROVE  InARow(Joined(a, n, plp, dlp), m, plp[a], Len(t), dlp[a])
  <2>1. InARow(Joined(a, n, plp, dlp), LeastOf(n, Len(plp[a])), plp[a], Len(dlp[a]), dlp[a])
    BY <1>8, <1>9, JoinedIs
  <2> QED
    BY <1>8, <2>1
<1> DEFINE moved == [k \in DOMAIN dlp["text_offset"] |-> dlp["text_offset"][k] + Base(n, plp)]
<1>10. InARow(offs, m, plp["text_offset"], Len(t), moved)
  <2>1. InARow(offs, LeastOf(n, Len(plp["text_offset"])), plp["text_offset"], Len(dlp["text_offset"]), moved)
    BY <1>3, <1>8, OffsetsJoinedAre DEF offs
  <2> HIDE DEF moved
  <2> QED
    BY <1>3, <1>8, <2>1
<1>11. Base(n, plp) = TextBefore(s, m+1)
  BY BaseIs DEF s, m
<1>12. InARow(both, m, s, Len(t), t)
  BY <1>3, <1>9 DEF both, s, t
<1>13. /\ \A k \in 1 .. m+1 : TextBefore(both, k) = TextBefore(s, k)
       /\ \A k \in 1 .. Len(t)+1 : TextBefore(both, m+k) = TextBefore(s, m+1) + TextBefore(t, k)
  <2>1. /\ Len(both) = m + Len(t)
        /\ \A i \in 1 .. m : both[i] = s[i]
        /\ \A i \in 1 .. Len(t) : both[m+i] = t[i]
    BY <1>12 DEF InARow
  <2> QED
    BY <1>5, <1>6, <1>7, <2>1, TextBeforeJoined
<1>14. ASSUME NEW k \in DOMAIN both PROVE offs[k] = TextBefore(both, k)
  <2>1. Len(s) \in Nat /\ Len(t) \in Nat /\ DOMAIN s = 1 .. Len(s) /\ DOMAIN t = 1 .. Len(t)
    BY <1>5
  <2>2. k \in 1 .. m + Len(t)
    BY <1>12 DEF InARow
  <2>3. CASE k \in 1 .. m
    <3>1. k \in DOMAIN s /\ k \in 1 .. m+1
      BY <1>6, <2>1, <2>3
    <3>2. offs[k] = plp["text_offset"][k]
      BY <1>10, <2>3 DEF InARow
    <3> QED
      BY <1>1, <1>13, <3>1, <3>2 DEF s
  <2>4. CASE k \notin 1 .. m
    <3>1. PICK i \in 1 .. Len(t) : k = m + i
      <4>1. k - m \in 1 .. Len(t) /\ k = m + (k - m)
        BY <1>6, <2>1, <2>2, <2>4
      <4> QED
        BY <4>1
    <3>2. i \in DOMAIN t /\ i \in 1 .. Len(t)+1
      BY <2>1
    <3>3. i \in DOMAIN dlp["text_offset"]
      <4>1. DOMAIN dlp["text_offset"] = 1 .. Len(dlp["text_offset"])
        BY <1>3, <1>8, ArrayDomain
      <4> HIDE DEF moved
      <4> QED
        BY <1>3, <1>8, <4>1
    <3>4. offs[m+i] = dlp["text_offset"][i] + Base(n, plp)
      <4>1. offs[m+i] = moved[i]
        BY <1>10 DEF InARow
      <4> QED
        BY <3>3, <4>1
    <3>5. offs[k] = TextBefore(t, i) + TextBefore(s, m+1)
      BY <1>2, <1>11, <3>1, <3>2, <3>4 DEF t
    <3>6. TextBefore(both, k) = TextBefore(s, m+1) + TextBefore(t, i)
      BY <1>13, <3>1, <3>2, Zenon
    <3>7. TextBefore(s, m+1) \in Nat /\ TextBefore(t, i) \in Nat
      <4>1. m + 1 \in 1 .. Len(s)+1
        BY <1>6, <2>1
      <4> QED
        BY <1>5, <3>2, <4>1, TextBeforeSteps
    <3> QED
      BY <3>5, <3>6, <3>7
  <2> QED
    BY <2>3, <2>4
<1>15. lp["tokens"] = both /\ lp["text_offset"] = offs
  BY <1>3, <1>4 DEF both, offs
<1>16. ASSUME NEW a \in Arrays PROVE Len(lp[a]) = Len(lp["tokens"])
  <2>1. Len(offs) = m + Len(t) /\ Len(both) = m + Len(t)
    BY <1>10, <1>12 DEF InARow
  <2>2. CASE a = "text_offset"
    BY <1>15, <2>1, <2>2
  <2>3. CASE a # "text_offset"
    <3>1. Len(Joined(a, n, plp, dlp)) = m + Len(t)
      BY <1>9, <2>3 DEF InARow
    <3> QED
      BY <1>4, <1>15, <2>1, <3>1
  <2> QED
    BY <2>2, <2>3
<1>17. Aligned(lp)
  BY <1>4, <1>14, <1>15, <1>16 DEF Aligned
<1> QED
  BY <1>17 DEF lp

\* A choice whose logprobs are aligned with both workers has aligned logprobs.
LEMMA ChoiceAligned ==
  ASSUME NEW p, NEW d, IsChoice(p), IsChoice(d), Given("logprobs", p), Given("logprobs", d),
         Aligned(p["logprobs"]), Aligned(d["logprobs"]), LastInAscii(p["logprobs"]["tokens"], PromptLen(p))
  PROVE  Given("logprobs", MergedChoice(p, d)) /\ Aligned(MergedChoice(p, d)["logprobs"])
<1>1. MergedChoice(p, d) = Over([logprobs |-> MergedLogprobs(p, d)], CopyPrompt(p, d))
  BY DEF MergedChoice
<1>2. Given("logprobs", MergedChoice(p, d)) /\ MergedChoice(p, d)["logprobs"] = MergedLogprobs(p, d)
  BY <1>1 DEF Over, Given
<1>3. Arrayed(p["logprobs"]) /\ Arrayed(d["logprobs"]) /\ PromptLen(p) \in Nat
  BY DEF IsChoice, Arrayed
<1>4. Aligned([a \in DOMAIN d["logprobs"] |->
                  IF Given(a, p["logprobs"])
                  THEN Joined(a, PromptLen(p), p["logprobs"], d["logprobs"]) ELSE d["logprobs"][a]])
  BY <1>3, JoinedAligned
<1>5. Aligned(MergedLogprobs(p, d))
  BY <1>4 DEF MergedLogprobs
<1> QED
  BY <1>2, <1>5

\* Of an answer with choices, merging makes one with the merged choices.
LEMMA MergeChoices ==
  ASSUME NEW p, NEW d, d.is = "object", DOMAIN d = {"is", "fields"}, Has(p, "choices"), Has(d, "choices")
  PROVE  /\ Has(Merge(p, d), "choices")
         /\ Merge(p, d).fields["choices"] = MergedChoices(p.fields["choices"], d.fields["choices"])
<1> DEFINE meta    == IF Given("meta_info", p.fields) /\ Given("meta_info", d.fields)
                      THEN [meta_info |-> p.fields.meta_info \o d.fields.meta_info] ELSE << >>
           choices == [choices |-> MergedChoices(p.fields["choices"], d.fields["choices"])]
           copied  == CopyPrompt(p.fields, d.fields)
           merged  == Over(meta, Over(choices, copied))
<1>1. Merge(p, d) = [d EXCEPT !.fields = merged]
  BY DEF Merge, Has, Given
<1>2. "choices" \notin DOMAIN meta
  BY DEF Given
<1> HIDE DEF meta, copied
<1>3. /\ "choices" \in DOMAIN Over(choices, copied)
      /\ Over(choices, copied)["choices"] = MergedChoices(p.fields["choices"], d.fields["choices"])
  BY DEF Over
<1> HIDE DEF choices
<1>4. /\ "choices" \in DOMAIN merged
      /\ merged["choices"] = MergedChoices(p.fields["choices"], d.fields["choices"])
  BY <1>2, <1>3 DEF Over
<1> HIDE DEF merged
<1>5. Merge(p, d).fields = merged
  BY <1>1
<1> QED
  BY <1>4, <1>5 DEF Has

\* A choice of the answer is the merged one, if both workers have it.
LEMMA MergedChoicesAt ==
  ASSUME NEW ps, NEW ds, IsArray(ps), IsArray(ds), NEW c \in DOMAIN ds, c <= Len(ps)
  PROVE  /\ c \in DOMAIN ps
         /\ Len(MergedChoices(ps, ds)) = Len(ds)
         /\ MergedChoices(ps, ds)[c] = MergedChoice(ps[c], ds[c])
<1>1. DOMAIN ps = 1 .. Len(ps) /\ Len(ps) \in Nat /\ DOMAIN ds = 1 .. Len(ds) /\ Len(ds) \in Nat
  BY ArrayDomain
<1>2. c \in DOMAIN ps
  BY <1>1
<1>3. MergedChoices(ps, ds)[c] = MergedChoice(ps[c], ds[c])
  BY DEF MergedChoices
<1>4. Len(MergedChoices(ps, ds)) = Len(ds)
  <2> DEFINE merged(k) == IF k <= Len(ps) THEN MergedChoice(ps[k], ds[k]) ELSE ds[k]
  <2>1. MergedChoices(ps, ds) = [k \in 1 .. Len(ds) |-> merged(k)]
    BY <1>1 DEF MergedChoices
  <2> HIDE DEF merged
  <2> QED
    BY <1>1, <2>1
<1> QED
  BY <1>2, <1>3, <1>4

\* What both workers answer with aligned arrays, the client gets aligned, for any
\* numbers of choices, tokens and echoed prompt tokens, the last of these in ASCII.
THEOREM MergeAlwaysAligned == Spec => []MergeAligned
<1>1. Made => MergeAligned
  <2> SUFFICES ASSUME Made, stage = "done", Has(ofDecode, "choices"),
                      NEW c \in DOMAIN ofDecode.fields["choices"],
                      AlignedAt(ofPrefill, c), PromptEndsInAscii(ofPrefill, c), AlignedAt(ofDecode, c)
               PROVE  AlignedAt(answer, c)
    BY DEF MergeAligned
  <2> DEFINE ps == ofPrefill.fields["choices"]
             ds == ofDecode.fields["choices"]
  <2>1. Has(ofPrefill, "choices")
    BY DEF AlignedAt
  <2>2. ofPrefill # Nothing /\ ofDecode # Nothing
    BY <2>1 DEF Nothing, Has
  <2>3. IsAnswer(ofPrefill) /\ IsAnswer(ofDecode)
    BY <2>2, AnswersAssumption DEF Made, AnswersCame
  <2>4. ofDecode.is = "object" /\ DOMAIN ofDecode = {"is", "fields"}
    <3>1. ofDecode.fields # << >>
      BY DEF Has
    <3> QED
      BY <2>3, <3>1 DEF IsAnswer, IsJson
  <2>5. /\ IsArray(ps) /\ \A k \in DOMAIN ps : IsChoice(ps[k])
        /\ IsArray(ds) /\ \A k \in DOMAIN ds : IsChoice(ds[k])
    BY <2>1, <2>3 DEF IsAnswer
  <2>6. CASE answer = ofDecode
    BY <2>6
  <2>7. CASE answer = Merge(ofPrefill, ofDecode)
    <3>1. Has(answer, "choices") /\ answer.fields["choices"] = MergedChoices(ps, ds)
      BY <2>1, <2>4, <2>7, MergeChoices
    <3>2. /\ c <= Len(ps) /\ Given("logprobs", ps[c]) /\ Aligned(ps[c]["logprobs"])
          /\ c <= Len(ds) /\ Given("logprobs", ds[c]) /\ Aligned(ds[c]["logprobs"])
      BY DEF AlignedAt
    <3>ascii. LastInAscii(ps[c]["logprobs"]["tokens"], PromptLen(ps[c]))
      BY DEF PromptEndsInAscii, LastInAscii
    <3> HIDE DEF ps, ds
    <3>3. c \in DOMAIN ds
      BY DEF ds
    <3>4. /\ c \in DOMAIN ps /\ Len(MergedChoices(ps, ds)) = Len(ds)
          /\ MergedChoices(ps, ds)[c] = MergedChoice(ps[c], ds[c])
      BY <2>5, <3>2, <3>3, MergedChoicesAt
    <3>5. IsChoice(ps[c]) /\ IsChoice(ds[c])
      BY <2>5, <3>3, <3>4
    <3>6. Given("logprobs", MergedChoice(ps[c], ds[c])) /\ Aligned(MergedChoice(ps[c], ds[c])["logprobs"])
      BY <3>2, <3>5, <3>ascii, ChoiceAligned
    <3> QED
      BY <3>1, <3>2, <3>4, <3>6 DEF AlignedAt
  <2> QED
    BY <2>6, <2>7 DEF Made, AnswerMade
<1> QED
  BY MadeAlways, <1>1, PTL

=============================================================================
