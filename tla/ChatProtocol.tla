---------------------------- MODULE ChatProtocol ----------------------------
(***************************************************************************)
(* Chat Completions request fields, checked before model state is touched  *)
(* (server/protocol.rs).  A JSON value is a tagged record: an object's     *)
(* fields are a function of its keys, a number counts tenths and says      *)
(* whether it was written as an integer, and a string may spell a JSON     *)
(* value.  Which refusal is worded first is left out: each one is a 400.   *)
(***************************************************************************)
EXTENDS Integers, Sequences, FiniteSets

Absent == [is |-> "absent"]
Null == [is |-> "null"]
Bool(b) == [is |-> "bool", holds |-> b]
Tenths(n) == [is |-> "number", tenths |-> n, whole |-> FALSE]
Whole(n) == [is |-> "number", tenths |-> 10 * n, whole |-> TRUE]
Text(s) == [is |-> "string", says |-> s, spells |-> Absent]
Spelled(json) == [is |-> "string", says |-> "json", spells |-> json]
List(s) == [is |-> "array", items |-> s]
Object(f) == [is |-> "object", fields |-> f]
NoFields == Object([key \in {} |-> Absent])

Get(json, key) ==
    IF json.is = "object" /\ key \in DOMAIN json.fields THEN json.fields[key] ELSE Absent
Given(json) == json.is \notin {"absent", "null"}
Present(json) == json # Absent
Elements(json) == {json.items[i] : i \in DOMAIN json.items}

(* The typed readings of a value.                                          *)
object(json) == json.is = "object"
number(json) == json.is = "number"
unsigned(json) == json.is = "number" /\ json.whole /\ json.tenths >= 0
Amount(json) == json.tenths \div 10
Nonempty(json) == json.is = "string" /\ json.says # ""

-----------------------------------------------------------------------------
(* Messages.                                                               *)

text_content(json) ==
    \/ json.is \in {"string", "null"}
    \/ /\ json.is = "array"
       /\ \A part \in Elements(json) :
             Get(part, "type") = Text("text") /\ Get(part, "text").is = "string"

Roles == {"system", "developer", "user", "assistant", "tool"}
Assistant(message) == Get(message, "role") = Text("assistant")

(* Content may be missing or null only beside an assistant's tool calls.   *)
ContentHolds(message) ==
    LET content == Get(message, "content")
        calls == Given(Get(message, "tool_calls"))
    IN  /\ Present(content) \/ calls
        /\ Present(content) => text_content(content)
        /\ content = Null => Assistant(message) /\ calls

ArgumentsHold(arguments) ==
    \/ arguments.is \in {"object", "absent"}
    \/ arguments.is = "string" /\ object(arguments.spells)
CallHolds(call) ==
    LET function == Get(call, "function")
    IN  /\ object(function)
        /\ Nonempty(Get(function, "name"))
        /\ ArgumentsHold(Get(function, "arguments"))
CallsHold(message) ==
    LET calls == Get(message, "tool_calls")
    IN  Given(calls) => /\ Assistant(message)
                        /\ calls.is = "array"
                        /\ \A call \in Elements(calls) : CallHolds(call)

MessageHolds(message) ==
    /\ object(message)
    /\ Get(message, "role").is = "string" /\ Get(message, "role").says \in Roles
    /\ ContentHolds(message)
    /\ CallsHold(message)

(* Arguments that arrive as a JSON string are replayed as the object they  *)
(* spell.                                                                  *)
DecodedCall(call) ==
    LET arguments == Get(call.fields["function"], "arguments")
    IN  IF arguments.is = "string"
        THEN Object([call.fields EXCEPT !["function"].fields["arguments"] = arguments.spells])
        ELSE call
NormalMessage(message) ==
    LET calls == Get(message, "tool_calls")
    IN  IF Given(calls)
        THEN Object([message.fields EXCEPT !["tool_calls"] =
                        List([i \in DOMAIN calls.items |-> DecodedCall(calls.items[i])])])
        ELSE message

MessagesHold(json) ==
    json.is = "array" /\ json.items # <<>> /\ \A message \in Elements(json) : MessageHolds(message)
normalize_messages(json) == [i \in DOMAIN json.items |-> NormalMessage(json.items[i])]

-----------------------------------------------------------------------------
(* Tools.                                                                  *)

SchemaTypes == {"array", "boolean", "integer", "null", "number", "object", "string"}
DeclarationHolds(declaration) ==
    \/ declaration.is = "absent"
    \/ declaration.is = "string" /\ declaration.says \in SchemaTypes
    \/ /\ declaration.is = "array" /\ declaration.items # <<>>
       /\ \A kind \in Elements(declaration) : kind.is = "string" /\ kind.says \in SchemaTypes

PropertiesHold(properties) ==
    /\ object(properties)
    /\ \A name \in DOMAIN properties.fields :
          object(properties.fields[name]) /\ DeclarationHolds(Get(properties.fields[name], "type"))
SchemaHolds(parameters) ==
    /\ object(parameters)
    /\ Present(Get(parameters, "properties")) => PropertiesHold(Get(parameters, "properties"))

ToolHolds(tool) ==
    LET function == Get(tool, "function")
    IN  /\ Get(tool, "type") = Text("function")
        /\ Nonempty(Get(function, "name"))
        /\ Present(Get(function, "parameters")) => SchemaHolds(Get(function, "parameters"))

ChoiceHolds(choice) == Given(choice) => choice \in {Text("auto"), Text("none")}
ToolsHold(tools, choice) ==
    /\ ChoiceHolds(choice)
    /\ Given(tools) => tools.is = "array" /\ \A tool \in Elements(tools) : ToolHolds(tool)

(* Are tool calls looked for in the response?  An empty list asks for it.  *)
WithTools(tools, choice) == Given(tools) /\ choice # Text("none")

-----------------------------------------------------------------------------
(* Template options.                                                       *)

Kwargs(request) == Get(request, "chat_template_kwargs")
Effort(request) ==
    IF Present(Get(request, "reasoning_effort")) THEN Get(request, "reasoning_effort")
    ELSE Get(Kwargs(request), "reasoning_effort")
OptionsHold(request) ==
    /\ Given(Kwargs(request)) =>
          /\ object(Kwargs(request))
          /\ DOMAIN Kwargs(request).fields
                \subseteq {"enable_thinking", "preserve_thinking", "reasoning_effort"}
          /\ \A key \in {"enable_thinking", "preserve_thinking"} :
                Get(Kwargs(request), key).is \in {"bool", "absent"}
    /\ Present(Effort(request)) => Effort(request) \in {Text("low"), Text("medium"), Text("xhigh")}

Thinking(request, default) ==
    LET asked == Get(Kwargs(request), "enable_thinking")
    IN  IF Present(asked) THEN asked.holds ELSE default

-----------------------------------------------------------------------------
(* The request.                                                            *)

SupportedFields ==
    {"model", "messages", "tools", "tool_choice", "stream", "stream_options", "max_tokens",
     "max_completion_tokens", "temperature", "top_p", "top_k", "min_p", "presence_penalty",
     "presence_context_size", "seed", "reasoning_effort", "chat_template_kwargs", "n",
     "frequency_penalty", "repetition_penalty", "stop", "logit_bias", "response_format",
     "parallel_tool_calls", "logprobs", "top_logprobs", "user", "metadata", "store"}

ModelHolds(model) == Given(model) => Nonempty(model)

Stream(request) == Get(request, "stream") = Bool(TRUE)
StreamHolds(request) ==
    LET options == Get(request, "stream_options")
    IN  /\ Given(Get(request, "stream")) => Get(request, "stream").is = "bool"
        /\ Given(options) =>
              /\ Stream(request) /\ object(options)
              /\ DOMAIN options.fields \subseteq {"include_usage"}
              /\ Get(options, "include_usage").is \in {"bool", "absent"}

(* Either name of the limit, never both, and a JSON null is not a limit.   *)
MaxValue(request) ==
    IF Present(Get(request, "max_tokens")) THEN Get(request, "max_tokens")
    ELSE Get(request, "max_completion_tokens")
LimitHolds(request) ==
    /\ ~ {"max_tokens", "max_completion_tokens"} \subseteq DOMAIN request.fields
    /\ Present(MaxValue(request)) => unsigned(MaxValue(request)) /\ Amount(MaxValue(request)) > 0
MaxTokens(request) ==
    IF Present(MaxValue(request)) THEN Amount(MaxValue(request)) ELSE 2048

(* Fields accepted only with the value that changes nothing.               *)
NeutralNumbers(request) ==
    /\ Present(Get(request, "n")) => Get(request, "n") = Whole(1)
    /\ \A field \in {<<"frequency_penalty", 0>>, <<"repetition_penalty", 10>>} :
          Given(Get(request, field[1])) =>
              number(Get(request, field[1])) /\ Get(request, field[1]).tenths = field[2]
NeutralLists(request) ==
    /\ Given(Get(request, "stop")) => Get(request, "stop") = List(<<>>)
    /\ Given(Get(request, "logit_bias")) => Get(request, "logit_bias") = NoFields
    /\ Given(Get(request, "response_format")) =>
          Get(Get(request, "response_format"), "type") = Text("text")
NeutralFlags(request) ==
    /\ \A field \in {<<"parallel_tool_calls", TRUE>>, <<"logprobs", FALSE>>, <<"store", FALSE>>} :
          Given(Get(request, field[1])) => Get(request, field[1]) = Bool(field[2])
    /\ Given(Get(request, "top_logprobs")) => Get(request, "top_logprobs") = Whole(0)
    /\ Given(Get(request, "user")) => Get(request, "user").is = "string"
    /\ Given(Get(request, "metadata")) => Get(request, "metadata") = NoFields

SamplingHolds(request) ==
    /\ \A field \in {"temperature", "top_p", "min_p", "presence_penalty"} :
          Given(Get(request, field)) => number(Get(request, field))
    /\ \A field \in {"top_k", "presence_context_size", "seed"} :
          Given(Get(request, field)) => unsigned(Get(request, field))

RequestHolds(request) ==
    /\ object(request)
    /\ DOMAIN request.fields \subseteq SupportedFields
    /\ ModelHolds(Get(request, "model"))
    /\ MessagesHold(Get(request, "messages"))
    /\ ToolsHold(Get(request, "tools"), Get(request, "tool_choice"))
    /\ OptionsHold(request)
    /\ StreamHolds(request)
    /\ LimitHolds(request)
    /\ NeutralNumbers(request) /\ NeutralLists(request) /\ NeutralFlags(request)
    /\ SamplingHolds(request)

(* The generation settings a request overrides; tenths for the reals.      *)
Sampling(request, defaults) ==
    [field \in DOMAIN defaults |->
        IF Given(Get(request, field)) THEN Get(request, field).tenths ELSE defaults[field]]
(* Ranges the sampler accepts.                                             *)
SamplingValid(sampling) ==
    /\ sampling["temperature"] >= 0
    /\ sampling["top_p"] \in 0..10 /\ sampling["min_p"] \in 0..10

(* What generation takes from an accepted request.                         *)
parse_chat(request, thinking, defaults) ==
    [messages |-> normalize_messages(Get(request, "messages")),
     tools |-> WithTools(Get(request, "tools"), Get(request, "tool_choice")),
     thinking |-> Thinking(request, thinking),
     sampling |-> Sampling(request, defaults),
     max |-> MaxTokens(request),
     seeded |-> Given(Get(request, "seed")),
     stream |-> Stream(request)]
=============================================================================
