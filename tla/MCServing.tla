----------------------------- MODULE MCServing -----------------------------
EXTENDS Serving

MCTextOf == [x |-> <<"x">>, y |-> <<"y">>, nl |-> <<"nl">>, lt |-> <<"<">>,
             think |-> <<"think">>, nthink |-> THINK_CLOSE,
             tool |-> <<"tool">>, call |-> <<"_call">> \o FUNCTION_OPEN,
             T |-> TOOL_OPEN, NT |-> TOOL_CLOSE, K |-> THINK_OPEN,
             F |-> FUNCTION_OPEN, NF |-> FUNCTION_CLOSE, stop |-> <<>>,
             O |-> TOOL_OPEN \o FUNCTION_OPEN, C |-> FUNCTION_CLOSE \o TOOL_CLOSE,
             OP |-> TOOL_OPEN \o FUNCTION_OPEN \o <<"a=", "x">>, FP |-> FUNCTION_OPEN \o <<"a=", "x">>,
             NP |-> <<"/param">>, NPn |-> <<"/param=">>, NFn |-> NAMED_CLOSE,
             P |-> <<"a=", "x">>, E |-> <<"a=", "x", "/param">>, G |-> <<"nl", "b=", "x", "/param">>,
             fence |-> <<"nl", "fence", "nl">>, inline |-> <<"fence">>,
             W |-> [i \in 1..6 |-> "x"]]

(* The template renders a message to one token: its text, or the argument  *)
(* of its tool call once that is an object.                                *)
MCTokenOf(message) ==
    LET content == Get(message, "content")
        calls == Get(message, "tool_calls")
    IN  IF Given(calls) THEN Get(calls.items[1].fields["function"].fields["arguments"], "path").says
        ELSE IF content.is = "array" THEN content.items[1].fields["text"].says
        ELSE content.says
MCRender(messages) == [i \in DOMAIN messages |-> MCTokenOf(messages[i])]
MCDefaults == [temperature |-> 10, top_p |-> 10, min_p |-> 0, presence_penalty |-> 0,
               top_k |-> 20, presence_context_size |-> 20]

Said(role, text) == Object([role |-> Text(role), content |-> Text(text)])
Body(prompt, max) ==
    Object([messages |-> List([i \in DOMAIN prompt |-> Said("user", prompt[i])]),
            max_tokens |-> Whole(max)])
With(body, field, value) ==
    Object([f \in DOMAIN body.fields \cup {field} |-> IF f = field THEN value ELSE body.fields[f]])

Plain == [supported |-> TRUE, thinking |-> FALSE, tools |-> FALSE]
Chat(prompt, max, tokens) ==
    [kind |-> "chat", body |-> Body(prompt, max), tokens |-> tokens, rows |-> {},
     asks |-> Plain]
Other(kind) == [Chat(<<"x">>, 1, {}) EXCEPT !.kind = kind]
Field(request, field, value) == [request EXCEPT !.body = With(@, field, value)]
Streamed(request) == Field(request, "stream", Bool(TRUE))

ReadTool == Object([type |-> Text("function"),
    function |-> Object([name |-> Text("read"), parameters |-> Object([properties |->
        Object([path |-> Object([type |-> Text("string")])])])])])
WithTool(request) == [Field(request, "tools", List(<<ReadTool>>)) EXCEPT !.asks.tools = TRUE]
ThinkingKwargs(enabled) == Object([enable_thinking |-> Bool(enabled)])

(* Streamed tool calls, whole markers and split ones.                      *)
Alone(request) ==
    [requests |-> <<request>>, thinking |-> FALSE, memory |-> 0, disk |-> "off",
     adaptive |-> FALSE, start |-> 1, faults |-> 0, hangups |-> FALSE]
Tools == Alone(Streamed(WithTool(Chat(<<"x">>, 5, {"T", "NT", "F", "NF"}))))
SplitMarkers == Alone(WithTool(Chat(<<"x">>, 5, {"lt", "tool", "call", "nl"})))

(* The stages of repair: named closers and closers left out, fences and    *)
(* newlines between and in the elements, and blocks that outgrow the limit *)
(* while they stream or when closers are added.                            *)
Repairs == Alone(WithTool(Chat(<<"x">>, 4, {"OP", "FP", "NP", "NPn", "NFn", "NT"})))
Fenced == Alone(WithTool(Chat(<<"x">>, 4, {"O", "F", "fence", "inline", "E", "C"})))
Parameters == Alone(WithTool(Chat(<<"x">>, 4, {"O", "P", "E", "G", "C"})))
Outgrown == Alone(WithTool(Chat(<<"x">>, 4, {"O", "W", "P", "NFn"})))
Reasoned == Alone(
    [Field(WithTool(Chat(<<"x">>, 4, {"lt", "think", "nthink", "T", "nl"})),
           "chat_template_kwargs", ThinkingKwargs(TRUE)) EXCEPT !.asks.thinking = TRUE])

(* One conversation and a second one, over both cache tiers.               *)
Conversation == [requests |-> <<Chat(<<"x", "x", "y">>, 2, {"x"}),
                                Chat(<<"x", "x", "y", "x", "y">>, 1, {"x"}),
                                Chat(<<"y">>, 2, {"x"})>>,
                 thinking |-> FALSE, memory |-> 12, disk |-> "full", adaptive |-> FALSE, start |-> 1,
                 faults |-> 1, hangups |-> FALSE]
Anchors == [Conversation EXCEPT !.disk = "anchors", !.faults = 0, !.memory = 9]

(* A prompt whose minimum fits an empty cache and whose copy does not: it   *)
(* is declined after the other conversation's prompt went.                 *)
Tight == [Conversation EXCEPT !.disk = "off", !.memory = 6,
              !.requests = <<Chat(<<"y">>, 2, {"x"}), Chat(<<"x", "x", "y", "x", "y">>, 1, {"x"})>>]

(* The first prompt comes back: a complete hit leaves nothing to prefill.  *)
Repeated == [Conversation EXCEPT !.disk = "off", !.hangups = TRUE,
                                 !.requests = <<@[1], @[1]>>]

(* Concurrent clients, a full queue, hang-ups and failing threads.         *)
Crowd == [requests |-> <<Streamed(Chat(<<"x">>, 2, {"x"})), Chat(<<"x">>, 1, {"x"}),
                         Chat(<<"x">>, 1, {"x"})>>,
          thinking |-> FALSE, memory |-> 0, disk |-> "off", adaptive |-> FALSE, start |-> 1,
          faults |-> 1, hangups |-> TRUE]
Adapting == [requests |-> <<Streamed(Chat(<<"x">>, 1, {"x"})),
                            Field(Chat(<<"x">>, 1, {"x"}), "top_p", Tenths(11)),
                            Other("health")>>,
             thinking |-> FALSE, memory |-> 0, disk |-> "off", adaptive |-> TRUE, start |-> 1,
             faults |-> 2, hangups |-> TRUE]

(* Sampled responses: rows of four logits out of three values, with every  *)
(* pattern of ties, under each filter alone and all together.              *)
MCVocabulary == <<"x", "y", "K", "stop">>
MCGrid == <<0, 1, 2, 3, 4, 6>>
Logit == {[neg |-> TRUE, mag |-> 2], [neg |-> FALSE, mag |-> 1], [neg |-> FALSE, mag |-> 3]}
Rows == {row \in [DOMAIN MCVocabulary -> Logit] : row[1] # row[4] /\ row[2] = row[3] /\ row[2].mag # 1}
Settings == <<
    [temperature |-> 0, presence_penalty |-> 10],
    [temperature |-> 0, presence_penalty |-> -10, presence_context_size |-> 10],
    [temperature |-> 10, top_k |-> 0],
    [temperature |-> 20, top_k |-> 10],
    [temperature |-> 5, top_k |-> 30, presence_penalty |-> 20],
    [temperature |-> 10, top_k |-> 0, top_p |-> 5],
    [temperature |-> 10, top_k |-> 0, top_p |-> 1],
    [temperature |-> 10, top_k |-> 0, min_p |-> 2],
    [temperature |-> 7, top_k |-> 20, top_p |-> 9, min_p |-> 1, presence_penalty |-> 10],
    [temperature |-> 10, top_k |-> 40]>>
Setting(settings) ==
    LET body == Body(<<"x", "y">>, 2)
    IN  [Chat(<<"x">>, 2, {}) EXCEPT !.rows = Rows, !.body =
            Object([f \in DOMAIN body.fields \cup DOMAIN settings |->
                       IF f \notin DOMAIN settings THEN body.fields[f]
                       ELSE IF f \in {"top_k", "presence_context_size"} THEN Whole(settings[f] \div 10)
                       ELSE Tenths(settings[f])])]

-----------------------------------------------------------------------------
(* One request each: overrides of the server's defaults, every field that  *)
(* is accepted with its neutral value, and every way to be refused.        *)

One == Chat(<<"x">>, 1, {"x", "K", "T"})
Call(arguments) ==
    Object([function |-> Object([name |-> Text("read"), arguments |-> arguments])])
Calling(message) == Field(One, "messages", List(<<Said("user", "x"), message>>))
Path == Object([path |-> Text("y")])

Accepted ==
  <<One, Streamed(One),
     Field(One, "model", Text("other")), Field(One, "n", Whole(1)), Field(One, "seed", Whole(7)),
     Field(One, "temperature", Whole(0)), Field(One, "repetition_penalty", Tenths(10)),
     Field(One, "frequency_penalty", Null), Field(One, "stop", List(<<>>)),
     Field(One, "logit_bias", NoFields), Field(One, "logprobs", Bool(FALSE)),
     Field(One, "response_format", Object([type |-> Text("text")])),
     Field(One, "top_logprobs", Whole(0)), Field(One, "user", Text("u")),
     Field(One, "metadata", NoFields), Field(One, "tool_choice", Text("auto")),
     Field(One, "reasoning_effort", Text("low")),
     Field(Streamed(One), "stream_options", Object([include_usage |-> Bool(TRUE)])),
     WithTool(One),
     [Field(One, "tools", List(<<>>)) EXCEPT !.asks.tools = TRUE],
     [Field(WithTool(One), "tool_choice", Text("none")) EXCEPT !.asks.tools = FALSE],
     [Field(One, "chat_template_kwargs", ThinkingKwargs(TRUE)) EXCEPT !.asks.thinking = TRUE],
     Field(One, "messages", List(<<Object([role |-> Text("user"),
        content |-> List(<<Object([type |-> Text("text"), text |-> Text("x")])>>)])>>)),
     Calling(Object([role |-> Text("assistant"), content |-> Null,
                     tool_calls |-> List(<<Call(Spelled(Path))>>)])),
     Calling(Object([role |-> Text("assistant"), tool_calls |-> List(<<Call(Path)>>)]))>>

Refused ==
  <<Field(One, "unknown", Null), Field(One, "model", Text("")), Field(One, "messages", Null),
     Field(One, "messages", List(<<>>)), Field(One, "messages", List(<<Said("owner", "x")>>)),
     Field(One, "messages", List(<<Object([role |-> Text("user")])>>)),
     Field(One, "messages", List(<<Object([role |-> Text("user"), content |-> Null])>>)),
     Field(One, "messages", List(<<Object([role |-> Text("user"), content |->
        List(<<Object([type |-> Text("image")])>>)])>>)),
     Calling(Object([role |-> Text("user"), content |-> Text("x"),
                     tool_calls |-> List(<<Call(Path)>>)])),
     Calling(Object([role |-> Text("assistant"), tool_calls |-> List(<<Call(Text("x"))>>)])),
     Calling(Object([role |-> Text("assistant"), tool_calls |-> List(<<NoFields>>)])),
     Field(One, "tools", Text("read")), Field(One, "tool_choice", Text("required")),
     Field(One, "tools", List(<<Object([type |-> Text("function")])>>)),
     Field(One, "tools", List(<<Object([type |-> Text("function"), function |->
        Object([name |-> Text("f"), parameters |-> Object([properties |->
            Object([p |-> Object([type |-> Text("path")])])])])])>>)),
     Field(One, "chat_template_kwargs", Object([other |-> Null])),
     Field(One, "chat_template_kwargs", Object([enable_thinking |-> Null])),
     Field(One, "reasoning_effort", Null), Field(One, "stream", Text("yes")),
     Field(One, "stream_options", NoFields),
     Field(Streamed(One), "stream_options", Object([other |-> Null])),
     Field(One, "max_completion_tokens", Whole(1)), Field(One, "max_tokens", Whole(0)),
     Field(One, "max_tokens", Null), Field(One, "max_tokens", Tenths(15)),
     Field(One, "max_tokens", Whole(9)), Field(One, "n", Whole(2)), Field(One, "n", Null),
     Field(One, "frequency_penalty", Tenths(1)), Field(One, "stop", Text("x")),
     Field(One, "stop", List(<<Text("x")>>)), Field(One, "logit_bias", Object([x |-> Whole(1)])),
     Field(One, "response_format", Object([type |-> Text("json_object")])),
     Field(One, "parallel_tool_calls", Bool(FALSE)), Field(One, "store", Bool(TRUE)),
     Field(One, "top_logprobs", Whole(1)), Field(One, "user", Whole(1)),
     Field(One, "metadata", Object([x |-> Null])), Field(One, "temperature", Text("hot")),
     Field(One, "temperature", Whole(-1)), Field(One, "top_k", Tenths(5)),
     Field(One, "seed", Whole(-1)),
     [One EXCEPT !.body = [is |-> "broken"]], [One EXCEPT !.body = [is |-> "oversized"]],
     [One EXCEPT !.body = List(<<>>)]>>

(* The server's default is to think: a request may say otherwise.          *)
Defaulted ==
  <<[Alone([One EXCEPT !.asks.thinking = TRUE]) EXCEPT !.thinking = TRUE],
     [Alone(Field(One, "chat_template_kwargs", ThinkingKwargs(FALSE))) EXCEPT !.thinking = TRUE]>>

MCWorkloads ==
    <<Tools, SplitMarkers, Repairs, Fenced, Parameters, Outgrown, Reasoned,
      Conversation, Anchors, Tight, Repeated, Crowd, Adapting>>
        \o [i \in DOMAIN Accepted |-> Alone(Accepted[i])]
        \o [i \in DOMAIN Refused |-> Alone([Refused[i] EXCEPT !.asks.supported = FALSE])]
        \o Defaulted
        \o [i \in DOMAIN Settings |-> Alone(Setting(Settings[i]))]
=============================================================================
