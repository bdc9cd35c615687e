-------------------------------- MODULE WireMC --------------------------------
(* Values of the constants of Wire for TLC: requests of both dialects with *)
(* fields that the types know and fields that they do not.                 *)
EXTENDS WireContract, TLC

CONSTANTS m1, m2, rules, task1, task2, hint, args, shell, grep, dump, x, other

Say(text) == [text |-> text]

UserTurn(text) == [role |-> "user", content |-> Say(text), cache_control |-> x]

ChatOpening(model, messages) ==
  [ api |-> "openai",
    body |-> [ model |-> model, messages |-> messages, tools |-> Empty, stream |-> Empty,
               response_format |-> x ] ]

\* They differ in the first user message, the system prompt or the model.
ChatOpenings ==
  { ChatOpening(m1, <<[role |-> "system", content |-> Say(rules)], UserTurn(task1)>>),
    ChatOpening(m1, <<[role |-> "system", content |-> Say(rules)], UserTurn(task2)>>),
    ChatOpening(m1, <<UserTurn(task1)>>),
    ChatOpening(m2, <<UserTurn(task1)>>) }

AnthropicBody(text) ==
  [ model |-> m1, messages |-> <<
      [role |-> "user", content |-> [blocks |-> <<
         [type |-> "text", text |-> text, cache_control |-> x],
         [type |-> "image", source |-> x] >>]] >>,
    tools |-> Empty, metadata |-> x ]

AnthropicOpenings ==
  { [api |-> "anthropic", body |-> request] :
      request \in { [system |-> Say(rules)] @@ AnthropicBody(task1),
                  AnthropicBody(task1),
                  [system |-> Say(rules)] @@ AnthropicBody(task2) } }

EitherOpenings == ChatOpenings \cup AnthropicOpenings

ChatCall(fn) ==
  [ role |-> "assistant", content |-> Null, refusal |-> x,
    tool_calls |-> <<[id |-> x, type |-> "function", function |-> fn, extra_content |-> x]>> ]

ChatAnswer == [role |-> "tool", tool_call_id |-> x, content |-> Say(dump), name |-> Empty]

PlainCall == ChatCall([name |-> shell, arguments |-> args])

\* A call with a field of its own in the function.
SignedCall == ChatCall([name |-> shell, arguments |-> args, signature |-> x])

AnthropicRound ==
  << [role |-> "assistant", content |-> [blocks |-> <<
        [type |-> "thinking", thinking |-> x, signature |-> x],
        [type |-> "tool_use", id |-> x, name |-> grep, input |-> Empty] >>]],
     [role |-> "user", content |-> [blocks |-> <<
        [type |-> "tool_result", tool_use_id |-> x, content |-> Say(dump), is_error |-> x] >>]] >>

ByApi(chat, anthropic) ==
  [api \in {"openai", "anthropic"} |-> IF api = "openai" THEN chat ELSE anthropic]

PlainAdditions ==
  ByApi({<<PlainCall, ChatAnswer>>, <<UserTurn(hint)>>},
        {AnthropicRound, <<[role |-> "user", content |-> Say(hint)]>>})

SignedAdditions == ByApi({<<SignedCall, ChatAnswer>>}, {AnthropicRound})

SomeTools ==
  ByApi({Empty,
         <<[type |-> "function", cache_control |-> x,
            function |-> [name |-> shell, parameters |-> x, strict |-> x]],
           [type |-> "custom", custom |-> x]>>},
        {Empty,
         <<[name |-> grep, input_schema |-> x, cache_control |-> x],
           [type |-> "web_search", name |-> other, max_uses |-> x]>>})

==============================================================================
