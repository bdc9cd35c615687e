-------------------------------- MODULE Codec --------------------------------
(***************************************************************************)
(* The JSON types of both dialects: what UnmarshalJSON keeps of an object  *)
(* and what MarshalJSON writes of it.                                      *)
(*                                                                         *)
(* An object is a function from field names to values.  A value is Null,   *)
(* Empty (the zero value of a Go type: "", false, an empty list), another  *)
(* scalar, an object, or a sequence of objects.  Absent is the nil of a    *)
(* json.RawMessage and is never a value in an object.  A request has       *)
(* messages.  Order of fields, white space and escapes are left out, and   *)
(* so are names that differ from a field only in case, which encoding/json *)
(* takes for it.                                                           *)
(***************************************************************************)
EXTENDS Sequences

CONSTANTS Null, Empty, Absent

ASSUME ValueAssumption == Null # Empty /\ Null # Absent /\ Empty # Absent

\* A struct type: its fields, which of them are omitempty, which a RawMessage, and
\* whether the others of an object go into Extra.
StructTypes ==
  [fields : SUBSET STRING, omitempty : SUBSET STRING, raw : SUBSET STRING, extra : BOOLEAN]

\* Variant: a request without Extra.
StrictChatRequest ==
  [ fields |-> {"model", "messages", "tools", "stream"},
    omitempty |-> {"tools", "stream"}, raw |-> {}, extra |-> FALSE ]

ChatRequest ==
  [ fields |-> {"model", "messages", "tools", "stream"},
    omitempty |-> {"tools", "stream"}, raw |-> {}, extra |-> TRUE ]

ChatMessage ==
  [ fields |-> {"role", "content", "name", "tool_calls", "tool_call_id"},
    omitempty |-> {"content", "name", "tool_calls", "tool_call_id"},
    raw |-> {"content"}, extra |-> TRUE ]

ChatTool ==
  [ fields |-> {"type", "function"}, omitempty |-> {}, raw |-> {}, extra |-> TRUE ]

ToolFunction ==
  [ fields |-> {"name", "description", "parameters"},
    omitempty |-> {"description", "parameters"}, raw |-> {"parameters"}, extra |-> TRUE ]

ToolCall ==
  [ fields |-> {"id", "type", "function"}, omitempty |-> {}, raw |-> {}, extra |-> TRUE ]

\* The anonymous struct in ToolCall has no Extra.
CalledFunction ==
  [ fields |-> {"name", "arguments"}, omitempty |-> {}, raw |-> {}, extra |-> FALSE ]

MessagesRequest ==
  [ fields |-> {"model", "system", "messages", "tools", "stream"},
    omitempty |-> {"system", "tools", "stream"}, raw |-> {"system"}, extra |-> TRUE ]

AnthropicMessage ==
  [ fields |-> {"role", "content"}, omitempty |-> {"content"}, raw |-> {"content"},
    extra |-> TRUE ]

AnthropicTool ==
  [ fields |-> {"name", "description", "input_schema"},
    omitempty |-> {"description", "input_schema"}, raw |-> {"input_schema"}, extra |-> TRUE ]

BlockFields == {"type", "text", "id", "name", "input", "tool_use_id", "content"}

\* Variant: a block without Extra.
StrictContentBlock ==
  [ fields |-> BlockFields, omitempty |-> BlockFields \ {"type"},
    raw |-> {"input", "content"}, extra |-> FALSE ]

ContentBlock ==
  [ fields |-> BlockFields, omitempty |-> BlockFields \ {"type"},
    raw |-> {"input", "content"}, extra |-> TRUE ]

------------------------------------------------------------------------------
Zero(t, f) == IF f \in t.raw THEN Absent ELSE Empty

\* UnmarshalJSON: null leaves a field at its zero, but is data to a RawMessage.
Unmarshal(t, json) ==
  [ known |-> [f \in t.fields |->
                 IF f \in DOMAIN json /\ (f \in t.raw \/ json[f] # Null)
                   THEN json[f] ELSE Zero(t, f)],
    extra |-> [f \in {g \in DOMAIN json \ t.fields : t.extra} |-> json[f]] ]

\* Variant: no field is omitempty.
WrittenAll(t, s) == t.fields

Written(t, s) == {f \in t.fields : ~(f \in t.omitempty /\ s.known[f] = Zero(t, f))}

\* MarshalJSON: the known fields, and those of Extra over them.
Marshal(t, s) ==
  [f \in Written(t, s) \cup DOMAIN s.extra |->
     IF f \in DOMAIN s.extra THEN s.extra[f] ELSE s.known[f]]

Through(t, json) == Marshal(t, Unmarshal(t, json))

\* A list of structs; nil stays nil.
Each(Op(_), list) == IF list = Empty THEN Empty ELSE [i \in DOMAIN list |-> Op(list[i])]

\* A struct in a struct is written even if it was not there.
Nested(t, value) == Through(t, IF value = Empty THEN [f \in {} |-> Null] ELSE value)

ToolCallThrough(call) ==
  Marshal(ToolCall,
    [Unmarshal(ToolCall, call) EXCEPT !.known["function"] = Nested(CalledFunction, @)])

ChatMessageThrough(m) ==
  Marshal(ChatMessage,
    [Unmarshal(ChatMessage, m) EXCEPT !.known["tool_calls"] = Each(ToolCallThrough, @)])

ChatToolThrough(tool) ==
  Marshal(ChatTool,
    [Unmarshal(ChatTool, tool) EXCEPT !.known["function"] = Nested(ToolFunction, @)])

\* What json.Marshal writes of a request body that json.Unmarshal has read.
ChatThrough(body) ==
  Marshal(ChatRequest,
    [Unmarshal(ChatRequest, body) EXCEPT
       !.known["messages"] = Each(ChatMessageThrough, @),
       !.known["tools"] = Each(ChatToolThrough, @)])

BlockThrough(block) == Through(ContentBlock, block)

\* A content is a text or a list of blocks.
HasBlocks(message) ==
  /\ "content" \in DOMAIN message
  /\ message.content \notin {Null, Empty, Absent}
  /\ "blocks" \in DOMAIN message.content

\* dedupe_tool_results and compact_history read the blocks of a message, and write
\* all of them again if they have changed one; touched are the messages where they have.
BlocksThrough(message) ==
  [message EXCEPT !.content = [blocks |-> Each(BlockThrough, @.blocks)]]

AnthropicMessagesThrough(list, touched) ==
  IF list = Empty THEN Empty
  ELSE [i \in DOMAIN list |->
         LET m == Through(AnthropicMessage, list[i])
         IN  IF i \in touched /\ HasBlocks(m) THEN BlocksThrough(m) ELSE m]

AnthropicToolThrough(tool) == Through(AnthropicTool, tool)

AnthropicThrough(body, touched) ==
  Marshal(MessagesRequest,
    [Unmarshal(MessagesRequest, body) EXCEPT
       !.known["messages"] = AnthropicMessagesThrough(@, touched),
       !.known["tools"] = Each(AnthropicToolThrough, @)])

==============================================================================
