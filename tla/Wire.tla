--------------------------------- MODULE Wire ---------------------------------
(***************************************************************************)
(* What becomes of a request on its way through the JSON types, under      *)
(* which session it is counted, and what cmd/replay makes of a recording   *)
(* of the same requests.                                                   *)
(*                                                                         *)
(* A conversation begins with one of the Openings and grows by messages;   *)
(* its client may offer other tools on every turn.  A request is one step  *)
(* here: the interleaving of handlers is the subject of module Proxy, the  *)
(* texts that the passes change that of module History, and the passes     *)
(* that -prune-tools and shape_cache add are off or keep the body.         *)
(***************************************************************************)
EXTENDS Codec, Session, Functions

CONSTANTS
  Conversations,
  Openings,       \* first requests, each with its api
  Additions,      \* messages that follow, by api
  ToolLists,      \* the tools arrays, by api
  Headers,        \* what X-Session-Id can be
  NoHeader,       \* its absence
  Hits,           \* whether an answer can be, or not be, a cache hit
  Garbled,        \* a body that does not parse
  NotBegun,
  MaxRequests     \* bound: requests in a recording

ASSUME WireAssumption ==
  /\ MaxRequests \in Nat
  /\ Hits \subseteq BOOLEAN
  /\ \A o \in Openings : o.api \in {"openai", "anthropic"}
  /\ NotBegun \notin Openings

VARIABLES
  opening,     \* the opening of each conversation
  body,        \* its last request
  header,      \* its X-Session-Id
  sessions,    \* the session store of the proxy
  recording,   \* the requests so far, as a recorder has them, and what went upstream
  line,        \* how many lines of it replay has read
  replayed,    \* the session store of replay
  agg          \* turns of bySession in replay

vars == <<opening, body, header, sessions, recording, line, replayed, agg>>

------------------------------------------------------------------------------
(* The session of a request.                                               *)

Field(json, f) == IF f \in DOMAIN json THEN json[f] ELSE Absent

\* The last message of some role, for a variant.
LastContent(json, roles) ==
  LET these == {i \in DOMAIN json.messages : json.messages[i].role \in roles}
  IN  IF these = {} THEN Absent
      ELSE LET i == CHOOSE i \in these : \A j \in these : j <= i
           IN  <<json.messages[i].role, Field(json.messages[i], "content")>>

\* Role and content of the first message of some role.
FirstContent(json, roles) ==
  LET these == {i \in DOMAIN json.messages : json.messages[i].role \in roles}
  IN  IF these = {} THEN Absent
      ELSE LET i == CHOOSE i \in these : \A j \in these : i <= j
           IN  <<json.messages[i].role, Field(json.messages[i], "content")>>

\* Variant: the last user message instead of the first.
IDByLastMessage(json) ==
  [ model |-> json.model,
    system |-> Field(json, "system"),
    first |-> FirstContent(json, {"system", "user"}),
    user |-> LastContent(json, {"user"}) ]

\* What is hashed of the request as marshalled; the hash is taken to be injective.
IDForRequest(json) ==
  [ model |-> json.model,
    system |-> Field(json, "system"),
    first |-> FirstContent(json, {"system", "user"}),
    user |-> FirstContent(json, {"user"}) ]

IDFor(value, json) == IF value # NoHeader THEN value ELSE IDForRequest(json)

\* Store.Get
Get(store, id) == IF id \in DOMAIN store THEN store[id] ELSE NewSession

Put(store, id, s) ==
  [i \in DOMAIN store \cup {id} |-> IF i = id THEN s ELSE store[i]]

\* A range over nil does nothing.
Calls(message) ==
  IF Field(message, "tool_calls") \in {Absent, Empty} THEN <<>> ELSE message.tool_calls

ChatCallNames(json) ==
  UNION {{call.function.name : call \in Range(Calls(m))} : m \in Range(json.messages)}

AnthropicCallNames(json) ==
  UNION {{b.name : b \in {b \in Range(m.content.blocks) : b.type = "tool_use"}} :
           m \in {m \in Range(json.messages) : m.role = "assistant" /\ HasBlocks(m)}}

------------------------------------------------------------------------------
(* What clients send.                                                      *)

\* A request of either dialect as IDForRequest has it.
Read(api, request) ==
  IF api = "openai" THEN ChatThrough(request) ELSE AnthropicThrough(request, {})

OpeningId(o) == IDForRequest(Read(o.api, o.body))

Messages(api) ==
  UNION {Range(o.body.messages) : o \in {o \in Openings : o.api = api}}
  \cup UNION {Range(more) : more \in Additions[api]}

HasValues(o) == \A f \in DOMAIN o : o[f] # Absent

\* A request is an object with a list of messages, and the first one of a conversation
\* has a user message already.
ASSUME RequestAssumption ==
  /\ \A o \in Openings :
       /\ o.body = [f \in DOMAIN o.body |-> o.body[f]] /\ HasValues(o.body)
       /\ "messages" \in DOMAIN o.body /\ o.body.messages \in Seq(Messages(o.api))
       /\ \E i \in DOMAIN o.body.messages : Read(o.api, o.body).messages[i].role = "user"
  /\ \A api \in {"openai", "anthropic"} :
       /\ \A more \in Additions[api] : more \in Seq(Messages(api))
       /\ \A tools \in ToolLists[api] : tools # Absent

\* No two first requests are the same for IDForRequest.
ASSUME OpeningsDiffer ==
  \A o, other \in Openings : OpeningId(o) = OpeningId(other) => o = other

\* Tools are the names that calls have, as either dialect reads them.
ASSUME CallAssumption ==
  \A api \in {"openai", "anthropic"} : \A m \in Messages(api) :
    /\ HasValues(m)
    /\ ChatCallNames([messages |-> <<ChatMessageThrough(m)>>]) \subseteq Tools
    /\ api = "anthropic" =>
         AnthropicCallNames([messages |-> <<Through(AnthropicMessage, m)>>]) \subseteq Tools

------------------------------------------------------------------------------
Init ==
  /\ opening = [c \in Conversations |-> NotBegun]
  /\ body = [c \in Conversations |-> Garbled]
  /\ header = [c \in Conversations |-> NoHeader]
  /\ sessions = [id \in {} |-> NewSession]
  /\ recording = <<>>
  /\ line = 0
  /\ replayed = [id \in {} |-> NewSession]
  /\ agg = [id \in {} |-> 0]

Record(c, got, id) ==
  /\ Len(recording) < MaxRequests
  /\ recording' = Append(recording,
       [ conversation |-> c, opening |-> opening'[c], header |-> header'[c],
         sent |-> body'[c], got |-> got, id |-> id ])

\* handleChatCompletions: Unmarshal, IDFor, Apply, Marshal, RecordCacheHit.
HandleChatCompletions(c, request) ==
  LET json == ChatThrough(request)
      id == IDFor(header'[c], json)
  IN  /\ \E hit \in Hits :
           sessions' = Put(sessions, id,
             RecordCacheHit(ObserveToolCalls(Get(sessions, id), ChatCallNames(json)), hit))
      /\ Record(c, json, id)

\* handleAnthropicMessages; the passes rewrite the blocks of any of the messages.
HandleAnthropicMessages(c, request) ==
  LET json == AnthropicThrough(request, {})
      id == IDFor(header'[c], json)
  IN  /\ \E hit \in Hits :
           sessions' = Put(sessions, id,
             RecordCacheHit(ObserveToolCalls(Get(sessions, id), AnthropicCallNames(json)), hit))
      /\ \E touched \in SUBSET DOMAIN request.messages :
           Record(c, AnthropicThrough(request, touched), id)

Handle(c) ==
  IF opening'[c].api = "openai" THEN HandleChatCompletions(c, body'[c])
                                ELSE HandleAnthropicMessages(c, body'[c])

\* The first turn of a conversation.
Begin(c) ==
  /\ opening[c] = NotBegun
  /\ \E o \in Openings, value \in Headers \cup {NoHeader} :
       /\ opening' = [opening EXCEPT ![c] = o]
       /\ body' = [body EXCEPT ![c] = o.body]
       /\ header' = [header EXCEPT ![c] = value]
  /\ Handle(c)
  /\ UNCHANGED <<line, replayed, agg>>

\* A later one: more messages, and any tools.
Continue(c) ==
  /\ opening[c] # NotBegun
  /\ \E more \in Additions[opening[c].api], tools \in ToolLists[opening[c].api] :
       body' = [body EXCEPT ![c].messages = @ \o more, ![c].tools = tools]
  /\ UNCHANGED <<opening, header>>
  /\ Handle(c)
  /\ UNCHANGED <<line, replayed, agg>>

\* A body that does not parse goes upstream as it came.
PassThrough(c) ==
  /\ opening[c] # NotBegun
  /\ Len(recording) < MaxRequests
  /\ recording' = Append(recording,
       [ conversation |-> c, opening |-> opening[c], header |-> header[c],
         sent |-> Garbled, got |-> Garbled, id |-> NoHeader ])
  /\ UNCHANGED <<opening, body, header, sessions, line, replayed, agg>>

\* One round of replay's loop.  Every line is read as a chat request.
ReplayLine ==
  /\ line < Len(recording)
  /\ line' = line + 1
  /\ LET request == recording[line + 1].sent
     IN  IF request = Garbled THEN UNCHANGED <<replayed, agg>>
         ELSE LET json == ChatThrough(request)
                  id == IDForRequest(json)
              IN  /\ replayed' = Put(replayed, id,
                       ObserveToolCalls(Get(replayed, id), ChatCallNames(json)))
                  /\ agg' = [i \in DOMAIN agg \cup {id} |->
                       (IF i \in DOMAIN agg THEN agg[i] ELSE 0) + (IF i = id THEN 1 ELSE 0)]
  /\ UNCHANGED <<opening, body, header, sessions, recording>>

Next ==
  \/ \E c \in Conversations : Begin(c) \/ Continue(c) \/ PassThrough(c)
  \/ ReplayLine

Spec == Init /\ [][Next]_vars

------------------------------------------------------------------------------
(* Properties.                                                             *)

Parsed == {i \in DOMAIN recording : recording[i].sent # Garbled}

TypeOK ==
  /\ sessions \in [DOMAIN sessions -> SessionStates]
  /\ replayed \in [DOMAIN replayed -> SessionStates]
  /\ agg \in [DOMAIN agg -> Nat \ {0}]
  /\ line \in 0 .. Len(recording)
  /\ \A i \in Parsed :
       LET got == recording[i].got
       IN  /\ HasValues(got)
           /\ \A k \in DOMAIN got.messages : HasValues(got.messages[k])

Valued(json) == {f \in DOMAIN json : json[f] \notin {Null, Empty, Absent}}

\* The fields of an object that have a value arrive with it; nested ones are
\* compared on their own.
Arrives(sent, got, nested) ==
  \A f \in Valued(sent) \ nested : f \in DOMAIN got /\ got[f] = sent[f]

\* The same for a list of objects: each arrives, in its place.
AllArrive(sent, got, f, Arrive(_, _)) ==
  f \in Valued(sent) =>
    /\ f \in DOMAIN got /\ DOMAIN got[f] = DOMAIN sent[f]
    /\ \A i \in DOMAIN sent[f] : Arrive(sent[f][i], got[f][i])

FunctionArrives(sent, got) ==
  "function" \in Valued(sent) => Arrives(sent.function, got.function, {})

ToolArrives(sent, got) ==
  /\ Arrives(sent, got, {"function"})
  /\ FunctionArrives(sent, got)

CallArrives(sent, got) == Arrives(sent, got, {"function"})

BlockArrives(sent, got) == Arrives(sent, got, {})

MessageArrives(sent, got) ==
  /\ Arrives(sent, got, {"tool_calls", "content"})
  /\ AllArrive(sent, got, "tool_calls", CallArrives)
  /\ IF HasBlocks(sent) THEN AllArrive(sent.content, got.content, "blocks", BlockArrives)
                        ELSE Field(got, "content") = Field(sent, "content")

RequestArrives(sent, got) ==
  /\ Arrives(sent, got, {"messages", "tools"})
  /\ AllArrive(sent, got, "messages", MessageArrives)
  /\ AllArrive(sent, got, "tools", ToolArrives)

\* Whatever the proxy does not know of a request, it passes on: fields of the
\* request, of messages, of blocks in messages it has rewritten, of tools and their
\* functions, and of tool calls (the Extra maps), with the null content of a message
\* that only calls tools.
FieldsSurvive == \A i \in Parsed : RequestArrives(recording[i].sent, recording[i].got)

\* The same with what a client says of the function a model has called.
CallsArriveWhole ==
  \A i \in Parsed : \A k \in DOMAIN recording[i].sent.messages :
    AllArrive(recording[i].sent.messages[k], recording[i].got.messages[k], "tool_calls",
              FunctionArrives)

\* Without a header, all turns of a conversation have one session, however it grows
\* and whatever tools it offers, and conversations that begin differently in model,
\* system prompt or first user message do not share one (IDForRequest).
OneSessionPerConversation ==
  \A i, j \in Parsed :
    recording[i].header = NoHeader /\ recording[j].header = NoHeader =>
      (recording[i].id = recording[j].id <=> recording[i].opening = recording[j].opening)

\* Replay counts the turns of a recording under the sessions of the proxy, for both
\* APIs, and learns the same tools from chat requests, unless a client names its
\* session in a header, which a recording of bodies does not have.
ReplayAgrees ==
  line = Len(recording) /\ (\A i \in DOMAIN recording : recording[i].header = NoHeader) =>
    /\ DOMAIN agg = DOMAIN sessions /\ DOMAIN replayed = DOMAIN sessions
    /\ \A id \in DOMAIN agg :
         agg[id] = sessions[id].turns /\ replayed[id].turns = sessions[id].turns
    /\ \A i \in Parsed : recording[i].opening.api = "openai" =>
         replayed[recording[i].id].toolsUsed = sessions[recording[i].id].toolsUsed

==============================================================================
