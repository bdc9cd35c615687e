----------------------------- MODULE Wire_proofs -----------------------------
(***************************************************************************)
(* Proofs about Wire, for all requests.                                    *)
(***************************************************************************)
EXTENDS Wire, FoldFacts, FiniteSetTheorems, TLAPS

------------------------------------------------------------------------------
(* What each type lets through.                                            *)

LEMMA CallKept ==
  ASSUME NEW call
  PROVE  CallArrives(call, ToolCallThrough(call))
BY ValueAssumption
DEF CallArrives, Arrives, Valued, ToolCallThrough, Through, Unmarshal, Marshal, Written,
    Zero, ToolCall

LEMMA FunctionKept ==
  ASSUME NEW function, function # Empty
  PROVE  Arrives(function, Nested(ToolFunction, function), {})
BY ValueAssumption
DEF Arrives, Valued, Nested, Through, Unmarshal, Marshal, Written, Zero, ToolFunction

LEMMA BlockKept ==
  ASSUME NEW block
  PROVE  BlockArrives(block, BlockThrough(block))
BY ValueAssumption
DEF BlockArrives, Arrives, Valued, BlockThrough, Through, Unmarshal, Marshal, Written,
    Zero, ContentBlock, BlockFields

LEMMA AnthropicToolKept ==
  ASSUME NEW tool
  PROVE  ToolArrives(tool, AnthropicToolThrough(tool))
BY ValueAssumption
DEF ToolArrives, AnthropicToolThrough, FunctionArrives, Arrives, Valued, Through,
    Unmarshal, Marshal, Written, Zero, AnthropicTool

LEMMA ChatToolKept ==
  ASSUME NEW tool
  PROVE  ToolArrives(tool, ChatToolThrough(tool))
<1> DEFINE got == ChatToolThrough(tool)
<1>1. Arrives(tool, got, {"function"})
  BY ValueAssumption
  DEF Arrives, Valued, ChatToolThrough, Through, Unmarshal, Marshal, Written, Zero, ChatTool
<1>2. ASSUME "function" \in Valued(tool)
      PROVE  got.function = Nested(ToolFunction, tool.function)
  BY <1>2, ValueAssumption
  DEF Valued, ChatToolThrough, Through, Unmarshal, Marshal, Written, Zero, ChatTool
<1>3. FunctionArrives(tool, got)
  <2> SUFFICES ASSUME "function" \in Valued(tool)
               PROVE  Arrives(tool.function, got.function, {})
    BY DEF FunctionArrives
  <2>1. tool.function # Empty
    BY DEF Valued
  <2> QED BY <1>2, <2>1, FunctionKept
<1> QED BY <1>1, <1>3 DEF ToolArrives

\* The values of the JSON types are no functions.
EmptyIsNoList == Empty # [i \in DOMAIN Empty |-> Empty[i]]

LEMMA ChatMessageKept ==
  ASSUME NEW m, EmptyIsNoList
  PROVE  MessageArrives(m, ChatMessageThrough(m))
<1> DEFINE got == ChatMessageThrough(m)
<1>1. Arrives(m, got, {"tool_calls", "content"})
  BY ValueAssumption
  DEF Arrives, Valued, ChatMessageThrough, Through, Unmarshal, Marshal, Written, Zero, ChatMessage
<1>2. AllArrive(m, got, "tool_calls", CallArrives)
  <2> SUFFICES ASSUME "tool_calls" \in Valued(m)
               PROVE  /\ "tool_calls" \in DOMAIN got
                      /\ DOMAIN got.tool_calls = DOMAIN m.tool_calls
                      /\ \A i \in DOMAIN m.tool_calls :
                            CallArrives(m.tool_calls[i], got.tool_calls[i])
    BY DEF AllArrive
  <2> DEFINE list == [i \in DOMAIN m.tool_calls |-> ToolCallThrough(m.tool_calls[i])]
  <2>1. list # Empty
    BY DEF EmptyIsNoList
  <2> HIDE DEF list
  <2>2. "tool_calls" \in DOMAIN got /\ got.tool_calls = list
    BY <2>1, ValueAssumption
    DEF list, Valued, ChatMessageThrough, Each, Through, Unmarshal, Marshal, Written, Zero,
        ChatMessage
  <2> QED BY <2>2, CallKept DEF list
<1>3. Field(got, "content") = Field(m, "content")
  BY ValueAssumption
  DEF Field, ChatMessageThrough, Through, Unmarshal, Marshal, Written, Zero, ChatMessage
<1>4. ASSUME HasBlocks(m)
      PROVE  AllArrive(m.content, got.content, "blocks", BlockArrives)
  <2>1. got.content = m.content
    BY <1>3, <1>4, ValueAssumption DEF HasBlocks, Field
  <2> QED BY <2>1 DEF AllArrive, BlockArrives, Arrives, Valued
<1> QED BY <1>1, <1>2, <1>3, <1>4 DEF MessageArrives

LEMMA AnthropicMessageKept ==
  ASSUME NEW m
  PROVE  MessageArrives(m, Through(AnthropicMessage, m))
<1> DEFINE got == Through(AnthropicMessage, m)
<1>1. Arrives(m, got, {"tool_calls", "content"})
  BY ValueAssumption
  DEF Arrives, Valued, Through, Unmarshal, Marshal, Written, Zero, AnthropicMessage
<1>2. "tool_calls" \in Valued(m) => /\ "tool_calls" \in DOMAIN got
                                   /\ got.tool_calls = m.tool_calls
  BY ValueAssumption
  DEF Valued, Through, Unmarshal, Marshal, Written, Zero, AnthropicMessage
<1>3. AllArrive(m, got, "tool_calls", CallArrives)
  BY <1>2 DEF AllArrive, CallArrives, Arrives, Valued
<1>4. Field(got, "content") = Field(m, "content")
  BY ValueAssumption
  DEF Field, Through, Unmarshal, Marshal, Written, Zero, AnthropicMessage
<1>5. ASSUME HasBlocks(m)
      PROVE  AllArrive(m.content, got.content, "blocks", BlockArrives)
  <2>1. got.content = m.content
    BY <1>4, <1>5, ValueAssumption DEF HasBlocks, Field
  <2> QED BY <2>1 DEF AllArrive, BlockArrives, Arrives, Valued
<1> QED BY <1>1, <1>3, <1>4, <1>5 DEF MessageArrives

\* A message whose blocks have been written again.
LEMMA RewrittenMessageKept ==
  ASSUME NEW m, HasBlocks(Through(AnthropicMessage, m))
  PROVE  MessageArrives(m, BlocksThrough(Through(AnthropicMessage, m)))
<1> DEFINE read == Through(AnthropicMessage, m)
           got == BlocksThrough(read)
<1>1. MessageArrives(m, read)
  BY AnthropicMessageKept
<1>2. Field(read, "content") = Field(m, "content")
  BY ValueAssumption
  DEF Field, Through, Unmarshal, Marshal, Written, Zero, AnthropicMessage
<1>3. HasBlocks(m) /\ read.content = m.content
  BY <1>2, ValueAssumption DEF HasBlocks, Field
<1>4. read = [f \in DOMAIN read |-> read[f]]
  BY DEF Through, Marshal
<1> HIDE DEF read
<1>5. /\ DOMAIN got = DOMAIN read
      /\ \A f \in DOMAIN read \ {"content"} : got[f] = read[f]
      /\ got.content = [blocks |-> Each(BlockThrough, read.content.blocks)]
  BY <1>3, <1>4 DEF BlocksThrough, HasBlocks, read
<1> HIDE DEF got
<1>6. Arrives(m, got, {"tool_calls", "content"})
  BY <1>1, <1>5 DEF MessageArrives, Arrives
<1>7. AllArrive(m, got, "tool_calls", CallArrives)
  BY <1>1, <1>5 DEF MessageArrives, AllArrive
<1>8. AllArrive(m.content, got.content, "blocks", BlockArrives)
  BY <1>3, <1>5, BlockKept DEF AllArrive, Each, Valued
<1> QED BY <1>3, <1>6, <1>7, <1>8 DEF MessageArrives, got, read

LEMMA ChatRequestKept ==
  ASSUME NEW json, EmptyIsNoList
  PROVE  RequestArrives(json, ChatThrough(json))
<1> DEFINE got == ChatThrough(json)
<1>1. Arrives(json, got, {"messages", "tools"})
  BY ValueAssumption
  DEF Arrives, Valued, ChatThrough, Through, Unmarshal, Marshal, Written, Zero, ChatRequest
<1>2. AllArrive(json, got, "messages", MessageArrives)
  <2>1. ASSUME "messages" \in Valued(json)
        PROVE  /\ "messages" \in DOMAIN got
               /\ got.messages = [i \in DOMAIN json.messages |->
                                    ChatMessageThrough(json.messages[i])]
    BY <2>1, ValueAssumption
    DEF Valued, ChatThrough, Each, Through, Unmarshal, Marshal, Written, Zero, ChatRequest
  <2> QED BY <2>1, ChatMessageKept DEF AllArrive
<1>3. AllArrive(json, got, "tools", ToolArrives)
  <2> SUFFICES ASSUME "tools" \in Valued(json)
               PROVE  /\ "tools" \in DOMAIN got
                      /\ DOMAIN got.tools = DOMAIN json.tools
                      /\ \A i \in DOMAIN json.tools : ToolArrives(json.tools[i], got.tools[i])
    BY DEF AllArrive
  <2> DEFINE list == [i \in DOMAIN json.tools |-> ChatToolThrough(json.tools[i])]
  <2>1. list # Empty
    BY DEF EmptyIsNoList
  <2> HIDE DEF list
  <2> DEFINE t == [Unmarshal(ChatRequest, json) EXCEPT
                      !.known["messages"] = Each(ChatMessageThrough, @),
                      !.known["tools"] = Each(ChatToolThrough, @)]
  <2>2. /\ t.known["tools"] = list
        /\ "tools" \notin DOMAIN t.extra
    BY DEF list, Valued, Each, Unmarshal, ChatRequest
  <2>3. got = Marshal(ChatRequest, t)
    BY DEF ChatThrough
  <2> HIDE DEF t, got
  <2>4. "tools" \in DOMAIN got /\ got.tools = list
    BY <2>1, <2>2, <2>3, ValueAssumption DEF Marshal, Written, Zero, ChatRequest
  <2> QED BY <2>4, ChatToolKept DEF list
<1> QED BY <1>1, <1>2, <1>3 DEF RequestArrives

LEMMA AnthropicRequestKept ==
  ASSUME NEW json, NEW touched, EmptyIsNoList
  PROVE  RequestArrives(json, AnthropicThrough(json, touched))
<1> DEFINE got == AnthropicThrough(json, touched)
           One(i) == Through(AnthropicMessage, json.messages[i])
<1>1. Arrives(json, got, {"messages", "tools"})
  BY ValueAssumption
  DEF Arrives, Valued, AnthropicThrough, Through, Unmarshal, Marshal, Written, Zero,
      MessagesRequest
<1>2. AllArrive(json, got, "messages", MessageArrives)
  <2>1. ASSUME "messages" \in Valued(json)
        PROVE  /\ "messages" \in DOMAIN got
               /\ got.messages = [i \in DOMAIN json.messages |->
                    IF i \in touched /\ HasBlocks(One(i)) THEN BlocksThrough(One(i))
                                                           ELSE One(i)]
    <3>1. /\ "messages" \in DOMAIN got
          /\ got.messages = AnthropicMessagesThrough(json.messages, touched)
      BY <2>1, ValueAssumption
      DEF Valued, AnthropicThrough, Through, Unmarshal, Marshal, Written, Zero, MessagesRequest
    <3>2. json.messages # Empty
      BY <2>1 DEF Valued
    <3> HIDE DEF got
    <3> QED BY <3>1, <3>2 DEF AnthropicMessagesThrough
  <2>2. ASSUME NEW i, HasBlocks(One(i))
        PROVE  MessageArrives(json.messages[i], BlocksThrough(One(i)))
    BY <2>2, RewrittenMessageKept
  <2>3. ASSUME NEW i
        PROVE  MessageArrives(json.messages[i], One(i))
    BY AnthropicMessageKept
  <2> HIDE DEF One
  <2> QED BY <2>1, <2>2, <2>3 DEF AllArrive
<1>3. AllArrive(json, got, "tools", ToolArrives)
  <2> SUFFICES ASSUME "tools" \in Valued(json)
               PROVE  /\ "tools" \in DOMAIN got
                      /\ DOMAIN got.tools = DOMAIN json.tools
                      /\ \A i \in DOMAIN json.tools : ToolArrives(json.tools[i], got.tools[i])
    BY DEF AllArrive
  <2> DEFINE list == [i \in DOMAIN json.tools |-> AnthropicToolThrough(json.tools[i])]
  <2>1. list # Empty
    BY DEF EmptyIsNoList
  <2> HIDE DEF list
  <2> DEFINE t == [Unmarshal(MessagesRequest, json) EXCEPT
                      !.known["messages"] = AnthropicMessagesThrough(@, touched),
                      !.known["tools"] = Each(AnthropicToolThrough, @)]
  <2>2. /\ t.known["tools"] = list
        /\ "tools" \notin DOMAIN t.extra
    BY DEF list, Valued, Each, Unmarshal, MessagesRequest
  <2>3. got = Marshal(MessagesRequest, t)
    BY DEF AnthropicThrough
  <2> HIDE DEF t, got
  <2>4. "tools" \in DOMAIN got /\ got.tools = list
    BY <2>1, <2>2, <2>3, ValueAssumption DEF Marshal, Written, Zero, MessagesRequest
  <2> QED BY <2>4, AnthropicToolKept DEF list
<1> QED BY <1>1, <1>2, <1>3 DEF RequestArrives

------------------------------------------------------------------------------
(* A recording holds nothing but what the types let through.               *)

Kept(entry) ==
  entry.sent # Garbled =>
    \/ entry.got = ChatThrough(entry.sent)
    \/ \E touched : entry.got = AnthropicThrough(entry.sent, touched)

RecordingInv ==
  /\ \E S : recording \in Seq(S)
  /\ \A i \in DOMAIN recording : Kept(recording[i])

LEMMA Grown ==
  ASSUME RecordingInv, NEW entry, Kept(entry), recording' = Append(recording, entry)
  PROVE  RecordingInv'
<1>1. PICK S : recording \in Seq(S)
  BY DEF RecordingInv
<1> DEFINE T == S \cup {entry}
<1>2. recording \in Seq(T) /\ entry \in T
  BY <1>1
<1>3. /\ recording' \in Seq(T)
      /\ DOMAIN recording' = 1 .. Len(recording) + 1
      /\ recording'[Len(recording) + 1] = entry
      /\ \A i \in DOMAIN recording : recording'[i] = recording[i]
      /\ DOMAIN recording = 1 .. Len(recording) /\ Len(recording) \in Nat
  BY <1>2
<1>4. ASSUME NEW i \in DOMAIN recording'
      PROVE  Kept(recording'[i])
  <2>1. CASE i \in DOMAIN recording
    BY <1>3, <2>1 DEF RecordingInv
  <2>2. CASE i = Len(recording) + 1
    BY <1>3, <2>2
  <2> QED BY <1>3, <2>1, <2>2
<1> QED BY <1>3, <1>4 DEF RecordingInv

LEMMA HandleKeeps ==
  ASSUME RecordingInv, NEW c, Handle(c)
  PROVE  RecordingInv'
<1> DEFINE Entry(got, id) ==
             [ conversation |-> c, opening |-> opening'[c], header |-> header'[c],
               sent |-> body'[c], got |-> got, id |-> id ]
<1>1. ASSUME NEW id, NEW got, Record(c, got, id),
             \/ got = ChatThrough(body'[c])
             \/ \E touched : got = AnthropicThrough(body'[c], touched)
      PROVE  RecordingInv'
  <2>1. Kept(Entry(got, id))
    BY <1>1 DEF Kept
  <2>2. recording' = Append(recording, Entry(got, id))
    BY <1>1 DEF Record
  <2> HIDE DEF Entry
  <2> QED BY <2>1, <2>2, Grown
<1>2. CASE HandleChatCompletions(c, body'[c])
  BY <1>1, <1>2 DEF HandleChatCompletions
<1>3. CASE HandleAnthropicMessages(c, body'[c])
  <2>1. PICK touched \in SUBSET DOMAIN body'[c].messages :
          Record(c, AnthropicThrough(body'[c], touched),
                 IDFor(header'[c], AnthropicThrough(body'[c], {})))
    BY <1>3 DEF HandleAnthropicMessages
  <2> QED BY <1>1, <2>1
<1> QED BY <1>2, <1>3 DEF Handle

LEMMA Recorded == Spec => []RecordingInv
<1>1. Init => RecordingInv
  <2> SUFFICES ASSUME Init PROVE RecordingInv
    OBVIOUS
  <2>1. recording = << >> /\ << >> \in Seq({})
    BY DEF Init
  <2> QED BY <2>1 DEF RecordingInv
<1>2. RecordingInv /\ [Next]_vars => RecordingInv'
  <2> SUFFICES ASSUME RecordingInv, [Next]_vars PROVE RecordingInv'
    OBVIOUS
  <2>1. CASE UNCHANGED recording
    BY <2>1 DEF RecordingInv, Kept
  <2>2. ASSUME NEW c \in Conversations, PassThrough(c)
        PROVE  RecordingInv'
    <3> DEFINE entry == [ conversation |-> c, opening |-> opening[c], header |-> header[c],
                          sent |-> Garbled, got |-> Garbled, id |-> NoHeader ]
    <3>1. Kept(entry)
      BY DEF Kept
    <3>2. recording' = Append(recording, entry)
      BY <2>2 DEF PassThrough
    <3> HIDE DEF entry
    <3> QED BY <3>1, <3>2, Grown
  <2>3. CASE UNCHANGED vars
    BY <2>1, <2>3 DEF vars
  <2>4. ASSUME NEW c \in Conversations, Begin(c) \/ Continue(c)
        PROVE  RecordingInv'
    BY <2>4, HandleKeeps DEF Begin, Continue
  <2>5. CASE ReplayLine
    BY <2>1, <2>5 DEF ReplayLine
  <2> QED BY <2>2, <2>3, <2>4, <2>5 DEF Next
<1> QED BY <1>1, <1>2, PTL DEF Spec

\* No field of a request that has a value is lost on the way through the JSON types,
\* neither in a message whose blocks a pass has written again nor in a tool or a tool
\* call, for any request of either dialect: UnmarshalJSON puts what it does not know into
\* Extra and MarshalJSON writes it back.
THEOREM FieldsAreKept ==
  ASSUME EmptyIsNoList
  PROVE  Spec => []FieldsSurvive
<1>1. RecordingInv => FieldsSurvive
  <2> SUFFICES ASSUME RecordingInv, NEW i \in Parsed
               PROVE  RequestArrives(recording[i].sent, recording[i].got)
    BY DEF FieldsSurvive
  <2>1. Kept(recording[i]) /\ recording[i].sent # Garbled
    BY DEF RecordingInv, Parsed
  <2> QED BY <2>1, ChatRequestKept, AnthropicRequestKept DEF Kept
<1> QED BY <1>1, Recorded, PTL

------------------------------------------------------------------------------
(* What the session of a request depends on.                               *)

\* Null, the zero of a Go type, nil and a body that does not parse are neither objects
\* nor lists.
ScalarsAreNoObjects ==
  \A v \in {Null, Empty, Absent, Garbled} : v # [f \in DOMAIN v |-> v[f]]

LEMMA ListsAreValues ==
  ASSUME ScalarsAreNoObjects, NEW T, NEW list \in Seq(T)
  PROVE  list \notin {Null, Empty, Absent, Garbled}
<1>1. list = [i \in DOMAIN list |-> list[i]]
  OBVIOUS
<1> QED BY <1>1 DEF ScalarsAreNoObjects

\* A string field that is always written.
StringRead(json, f) == IF f \in DOMAIN json /\ json[f] # Null THEN json[f] ELSE Empty

MessageRead(api, m) ==
  IF api = "openai" THEN ChatMessageThrough(m) ELSE Through(AnthropicMessage, m)

LEMMA FieldsOfMessage ==
  ASSUME NEW api, NEW m
  PROVE  /\ MessageRead(api, m).role = StringRead(m, "role")
         /\ Field(MessageRead(api, m), "content") = Field(m, "content")
<1>1. /\ ChatMessageThrough(m).role = StringRead(m, "role")
      /\ Field(ChatMessageThrough(m), "content") = Field(m, "content")
  BY ValueAssumption
  DEF StringRead, Field, ChatMessageThrough, Through, Unmarshal, Marshal, Written, Zero,
      ChatMessage
<1>2. /\ Through(AnthropicMessage, m).role = StringRead(m, "role")
      /\ Field(Through(AnthropicMessage, m), "content") = Field(m, "content")
  BY ValueAssumption
  DEF StringRead, Field, Through, Unmarshal, Marshal, Written, Zero, AnthropicMessage
<1> QED BY <1>1, <1>2 DEF MessageRead

LEMMA FieldsOfRequest ==
  ASSUME NEW api, NEW b
  PROVE  /\ Read(api, b).model = StringRead(b, "model")
         /\ Field(Read(api, b), "system") = Field(b, "system")
<1>1. /\ ChatThrough(b).model = StringRead(b, "model")
      /\ Field(ChatThrough(b), "system") = Field(b, "system")
  BY ValueAssumption
  DEF StringRead, Field, ChatThrough, Through, Unmarshal, Marshal, Written, Zero, ChatRequest
<1>2. /\ AnthropicThrough(b, {}).model = StringRead(b, "model")
      /\ Field(AnthropicThrough(b, {}), "system") = Field(b, "system")
  BY ValueAssumption
  DEF StringRead, Field, AnthropicThrough, Through, Unmarshal, Marshal, Written, Zero,
      MessagesRequest
<1> QED BY <1>1, <1>2 DEF Read

LEMMA MessagesOfRequest ==
  ASSUME NEW api, NEW b, "messages" \in Valued(b)
  PROVE  Read(api, b).messages =
           [i \in DOMAIN b.messages |-> MessageRead(api, b.messages[i])]
<1>1. ChatThrough(b).messages = [i \in DOMAIN b.messages |-> ChatMessageThrough(b.messages[i])]
  BY ValueAssumption
  DEF Valued, ChatThrough, Each, Through, Unmarshal, Marshal, Written, Zero, ChatRequest
<1>2. AnthropicThrough(b, {}).messages = AnthropicMessagesThrough(b.messages, {})
  BY ValueAssumption
  DEF Valued, AnthropicThrough, Through, Unmarshal, Marshal, Written, Zero, MessagesRequest
<1>3. AnthropicMessagesThrough(b.messages, {}) =
        [i \in DOMAIN b.messages |-> Through(AnthropicMessage, b.messages[i])]
  BY DEF AnthropicMessagesThrough, Valued
<1> QED BY <1>1, <1>2, <1>3 DEF Read, MessageRead

\* FirstContent of a request as sent.
FirstSaid(list, roles) ==
  LET these == {i \in DOMAIN list : StringRead(list[i], "role") \in roles}
  IN  IF these = {} THEN Absent
      ELSE LET i == CHOOSE i \in these : \A j \in these : i <= j
           IN  <<StringRead(list[i], "role"), Field(list[i], "content")>>

LEMMA FirstOfRequest ==
  ASSUME NEW api, NEW b, "messages" \in Valued(b), NEW T, b.messages \in Seq(T), NEW roles
  PROVE  FirstContent(Read(api, b), roles) = FirstSaid(b.messages, roles)
<1> DEFINE list == b.messages
           read == Read(api, b).messages
           these == {i \in DOMAIN list : StringRead(list[i], "role") \in roles}
           i == CHOOSE i \in these : \A j \in these : i <= j
<1>1. /\ DOMAIN read = DOMAIN list
      /\ \A k \in DOMAIN list : /\ read[k].role = StringRead(list[k], "role")
                                /\ Field(read[k], "content") = Field(list[k], "content")
  <2>1. read = [k \in DOMAIN list |-> MessageRead(api, list[k])]
    BY MessagesOfRequest
  <2> HIDE DEF read, list
  <2> QED BY <2>1, FieldsOfMessage
<1>2. {k \in DOMAIN read : read[k].role \in roles} = these
  BY <1>1
<1>3. FirstContent(Read(api, b), roles) =
        IF these = {} THEN Absent ELSE <<read[i].role, Field(read[i], "content")>>
  <2>1. FirstContent(Read(api, b), roles) =
          LET those == {k \in DOMAIN read : read[k].role \in roles}
          IN  IF those = {} THEN Absent
              ELSE LET k == CHOOSE k \in those : \A j \in those : k <= j
                   IN  <<read[k].role, Field(read[k], "content")>>
    BY DEF FirstContent
  <2> HIDE DEF these, read
  <2> QED BY <1>2, <2>1
<1>4. FirstSaid(list, roles) =
        IF these = {} THEN Absent
        ELSE <<StringRead(list[i], "role"), Field(list[i], "content")>>
  BY DEF FirstSaid
<1>5. these # {} => i \in DOMAIN list
  <2>1. these \in SUBSET Nat /\ these \subseteq DOMAIN list
    OBVIOUS
  <2> HIDE DEF these
  <2>2. these # {} => \E k \in these : \A j \in these : k <= j
    BY <2>1, Smallest
  <2> QED BY <2>1, <2>2
<1> QED BY <1>1, <1>3, <1>4, <1>5

\* The first message of some role stays the first one when messages are added.
LEMMA FirstStays ==
  ASSUME NEW T, NEW list \in Seq(T), NEW longer \in Seq(T), NEW roles,
         Len(list) <= Len(longer),
         \A k \in 1 .. Len(list) : longer[k] = list[k],
         \E k \in 1 .. Len(list) : StringRead(list[k], "role") \in roles
  PROVE  FirstSaid(longer, roles) = FirstSaid(list, roles)
<1> DEFINE these == {k \in DOMAIN list : StringRead(list[k], "role") \in roles}
           those == {k \in DOMAIN longer : StringRead(longer[k], "role") \in roles}
           i == CHOOSE i \in these : \A j \in these : i <= j
           k == CHOOSE k \in those : \A j \in those : k <= j
<1>1. /\ DOMAIN list = 1 .. Len(list) /\ Len(list) \in Nat
      /\ DOMAIN longer = 1 .. Len(longer) /\ Len(longer) \in Nat
  OBVIOUS
<1>2. /\ these \in SUBSET Nat /\ these # {} /\ these \subseteq 1 .. Len(list)
      /\ those \in SUBSET Nat /\ these \subseteq those
      /\ \A j \in those : j <= Len(list) => j \in these
  BY <1>1
<1>3. /\ FirstSaid(list, roles) =
           IF these = {} THEN Absent
           ELSE <<StringRead(list[i], "role"), Field(list[i], "content")>>
      /\ FirstSaid(longer, roles) =
           IF those = {} THEN Absent
           ELSE <<StringRead(longer[k], "role"), Field(longer[k], "content")>>
  BY DEF FirstSaid
<1> HIDE DEF these, those
<1>4. those # {}
  BY <1>2
<1>5. i \in these /\ \A j \in these : i <= j
  BY <1>2, Smallest
<1>6. k \in those /\ \A j \in those : k <= j
  BY <1>2, <1>4, Smallest
<1> HIDE DEF i, k
<1>7. k <= i /\ i <= Len(list) /\ i \in Nat /\ k \in Nat
  BY <1>1, <1>2, <1>5, <1>6
<1>8. k \in these
  BY <1>1, <1>2, <1>6, <1>7
<1>9. i = k
  BY <1>5, <1>7, <1>8
<1> QED BY <1>2, <1>3, <1>4, <1>5, <1>9

LEMMA IDOfRequest ==
  ASSUME NEW api, NEW b, "messages" \in Valued(b), NEW T, b.messages \in Seq(T)
  PROVE  IDForRequest(Read(api, b)) =
           [ model |-> StringRead(b, "model"),
             system |-> Field(b, "system"),
             first |-> FirstSaid(b.messages, {"system", "user"}),
             user |-> FirstSaid(b.messages, {"user"}) ]
BY FieldsOfRequest, FirstOfRequest DEF IDForRequest

------------------------------------------------------------------------------
(* The requests of a conversation.                                         *)

\* What is sent in a conversation that begins with o.
TurnOf(o, b) ==
  /\ b = [f \in DOMAIN o.body |-> b[f]]
  /\ "messages" \in DOMAIN b /\ b.messages \in Seq(Messages(o.api))
  /\ HasValues(b)
  /\ \A f \in DOMAIN b \ {"messages", "tools"} : b[f] = o.body[f]
  /\ Len(o.body.messages) <= Len(b.messages)
  /\ \A i \in 1 .. Len(o.body.messages) : b.messages[i] = o.body.messages[i]

LEMMA FirstTurn ==
  ASSUME NEW o \in Openings
  PROVE  TurnOf(o, o.body)
<1>1. /\ o.body = [f \in DOMAIN o.body |-> o.body[f]] /\ HasValues(o.body)
      /\ "messages" \in DOMAIN o.body /\ o.body.messages \in Seq(Messages(o.api))
  BY RequestAssumption
<1>2. Len(o.body.messages) \in Nat
  BY <1>1
<1> QED BY <1>1, <1>2 DEF TurnOf

Longer(b, more, tools) == [b EXCEPT !.messages = @ \o more, !.tools = tools]

LEMMA NextTurn ==
  ASSUME ScalarsAreNoObjects, NEW o \in Openings, NEW b, TurnOf(o, b),
         NEW more \in Additions[o.api], NEW tools \in ToolLists[o.api]
  PROVE  TurnOf(o, Longer(b, more, tools))
<1> DEFINE list == b.messages \o more
           c == Longer(b, more, tools)
           S == Messages(o.api)
<1>1. o.api \in {"openai", "anthropic"}
  BY WireAssumption
<1>2. more \in Seq(S) /\ tools # Absent
  BY <1>1, RequestAssumption
<1>3. b.messages \in Seq(S) /\ o.body.messages \in Seq(S)
  BY RequestAssumption DEF TurnOf
<1> HIDE DEF S
<1>4. /\ list \in Seq(S) /\ Len(list) = Len(b.messages) + Len(more)
      /\ \A i \in 1 .. Len(b.messages) : list[i] = b.messages[i]
      /\ Len(b.messages) \in Nat /\ Len(more) \in Nat /\ Len(o.body.messages) \in Nat
  BY <1>2, <1>3
<1>5. list # Absent
  BY <1>4, ListsAreValues
<1>6. /\ c = [f \in DOMAIN o.body |-> c[f]] /\ DOMAIN c = DOMAIN b
      /\ "messages" \in DOMAIN c
      /\ \A f \in DOMAIN b \ {"messages", "tools"} : c[f] = b[f]
      /\ c.messages = list
      /\ "tools" \in DOMAIN b => c.tools = tools
  BY DEF TurnOf, Longer
<1> HIDE DEF c, list
<1>7. HasValues(c)
  BY <1>2, <1>5, <1>6 DEF HasValues, TurnOf
<1>8. Len(o.body.messages) <= Len(list)
  BY <1>4 DEF TurnOf
<1>9. ASSUME NEW i \in 1 .. Len(o.body.messages) PROVE list[i] = o.body.messages[i]
  <2>1. i \in 1 .. Len(b.messages)
    BY <1>4 DEF TurnOf
  <2> QED BY <1>4, <2>1 DEF TurnOf
<1>10. TurnOf(o, c)
  BY <1>4, <1>6, <1>7, <1>8, <1>9 DEF TurnOf, S
<1> QED BY <1>10 DEF c

\* A request of a conversation is of its session, in either reading.
LEMMA SessionOfTurn ==
  ASSUME ScalarsAreNoObjects, NEW o \in Openings, NEW b, TurnOf(o, b), NEW api
  PROVE  IDForRequest(Read(api, b)) = OpeningId(o)
<1> DEFINE S == Messages(o.api)
           list == o.body.messages
<1>1. TurnOf(o, o.body)
  BY FirstTurn
<1>2. \A c : TurnOf(o, c) => c.messages \in Seq(S) /\ "messages" \in Valued(c)
  <2> SUFFICES ASSUME NEW c, TurnOf(o, c)
               PROVE  c.messages \in Seq(S) /\ "messages" \in Valued(c)
    OBVIOUS
  <2>1. c.messages \in Seq(S) /\ "messages" \in DOMAIN c
    BY DEF TurnOf
  <2>2. c.messages \notin {Null, Empty, Absent}
    BY <2>1, ListsAreValues
  <2> QED BY <2>1, <2>2 DEF Valued
<1> HIDE DEF S
<1>3. \E k \in 1 .. Len(list) : StringRead(list[k], "role") = "user"
  <2>1. PICK k \in DOMAIN list : Read(o.api, o.body).messages[k].role = "user"
    BY RequestAssumption
  <2>2. Read(o.api, o.body).messages[k] = MessageRead(o.api, list[k])
    <3>1. "messages" \in Valued(o.body)
      BY <1>1, <1>2
    <3>2. Read(o.api, o.body).messages =
            [i \in DOMAIN o.body.messages |-> MessageRead(o.api, o.body.messages[i])]
      BY <3>1, MessagesOfRequest
    <3> QED BY <2>1, <3>2
  <2>3. StringRead(list[k], "role") = "user"
    BY <2>1, <2>2, FieldsOfMessage
  <2>4. DOMAIN list = 1 .. Len(list)
    BY <1>1, <1>2
  <2> QED BY <2>1, <2>3, <2>4
<1>4. /\ list \in Seq(S) /\ b.messages \in Seq(S) /\ Len(list) <= Len(b.messages)
      /\ \A k \in 1 .. Len(list) : b.messages[k] = list[k]
  BY <1>1, <1>2 DEF TurnOf
<1>5. ASSUME NEW roles, "user" \in roles
      PROVE  FirstSaid(b.messages, roles) = FirstSaid(list, roles)
  <2>1. \E k \in 1 .. Len(list) : StringRead(list[k], "role") \in roles
    BY <1>3, <1>5
  <2> HIDE DEF list
  <2> QED BY <1>4, <2>1, FirstStays
<1>6. StringRead(b, "model") = StringRead(o.body, "model")
      /\ Field(b, "system") = Field(o.body, "system")
  BY DEF TurnOf, StringRead, Field
<1>7. IDForRequest(Read(api, b)) =
           [ model |-> StringRead(b, "model"),
             system |-> Field(b, "system"),
             first |-> FirstSaid(b.messages, {"system", "user"}),
             user |-> FirstSaid(b.messages, {"user"}) ]
  BY <1>2, IDOfRequest
<1>8. OpeningId(o) =
           [ model |-> StringRead(o.body, "model"),
             system |-> Field(o.body, "system"),
             first |-> FirstSaid(list, {"system", "user"}),
             user |-> FirstSaid(list, {"user"}) ]
  BY <1>1, <1>2, IDOfRequest DEF OpeningId
<1> HIDE DEF list
<1> QED BY <1>5, <1>6, <1>7, <1>8

------------------------------------------------------------------------------
(* The session of a conversation.                                          *)

\* A request that was parsed belongs to a conversation, and without a header to the
\* session that its opening has.
Traced(entry) ==
  entry.sent # Garbled =>
    /\ entry.opening \in Openings /\ TurnOf(entry.opening, entry.sent)
    /\ entry.header = NoHeader => entry.id = OpeningId(entry.opening)

ConversationInv ==
  /\ opening = [c \in Conversations |-> opening[c]]
  /\ body = [c \in Conversations |-> body[c]]
  /\ header = [c \in Conversations |-> header[c]]
  /\ \A c \in Conversations : opening[c] # NotBegun =>
       opening[c] \in Openings /\ TurnOf(opening[c], body[c])
  /\ \E S : recording \in Seq(S)
  /\ \A i \in DOMAIN recording : Traced(recording[i])

\* What one more entry does to a recording.
LEMMA Appended ==
  ASSUME \E S : recording \in Seq(S), NEW entry, recording' = Append(recording, entry)
  PROVE  /\ \E S : recording' \in Seq(S)
         /\ Len(recording) \in Nat /\ DOMAIN recording = 1 .. Len(recording)
         /\ Len(recording') = Len(recording) + 1
         /\ DOMAIN recording' = 1 .. Len(recording) + 1
         /\ recording'[Len(recording) + 1] = entry
         /\ \A i \in 1 .. Len(recording) : recording'[i] = recording[i]
<1>1. PICK S : recording \in Seq(S)
  OBVIOUS
<1> DEFINE T == S \cup {entry}
<1>2. recording \in Seq(T) /\ entry \in T
  BY <1>1
<1> QED BY <1>2

\* The names a request of either dialect calls.
CallNames(api, request) ==
  IF api = "openai" THEN ChatCallNames(Read(api, request))
                    ELSE AnthropicCallNames(Read(api, request))

\* A handler counts a request under the session of what it has read, and adds its entry.
Handled(c, got, id, hit) ==
  /\ recording' = Append(recording,
       [ conversation |-> c, opening |-> opening'[c], header |-> header'[c],
         sent |-> body'[c], got |-> got, id |-> id ])
  /\ id = IDFor(header'[c], Read(opening'[c].api, body'[c]))
  /\ sessions' = Put(sessions, id, RecordCacheHit(
       ObserveToolCalls(Get(sessions, id), CallNames(opening'[c].api, body'[c])), hit))

LEMMA HandledEntry ==
  ASSUME NEW c, Handle(c)
  PROVE  \E got, id : \E hit \in Hits : Handled(c, got, id, hit)
<1> DEFINE json == Read(opening'[c].api, body'[c])
           id == IDFor(header'[c], json)
           names == CallNames(opening'[c].api, body'[c])
<1>1. \E got : Record(c, got, id)
  <2>1. CASE opening'[c].api = "openai"
    <3>1. HandleChatCompletions(c, body'[c]) /\ json = ChatThrough(body'[c])
      BY <2>1 DEF Handle, Read
    <3> HIDE DEF json
    <3> QED BY <3>1 DEF HandleChatCompletions
  <2>2. CASE opening'[c].api # "openai"
    <3>1. HandleAnthropicMessages(c, body'[c]) /\ json = AnthropicThrough(body'[c], {})
      BY <2>2 DEF Handle, Read
    <3> HIDE DEF json
    <3> QED BY <3>1 DEF HandleAnthropicMessages
  <2> QED BY <2>1, <2>2
<1>2. \E hit \in Hits : sessions' =
        Put(sessions, id, RecordCacheHit(ObserveToolCalls(Get(sessions, id), names), hit))
  <2>1. CASE opening'[c].api = "openai"
    <3>1. /\ HandleChatCompletions(c, body'[c]) /\ json = ChatThrough(body'[c])
          /\ names = ChatCallNames(json)
      BY <2>1 DEF Handle, Read, CallNames
    <3> HIDE DEF json, names
    <3> QED BY <3>1 DEF HandleChatCompletions
  <2>2. CASE opening'[c].api # "openai"
    <3>1. /\ HandleAnthropicMessages(c, body'[c]) /\ json = AnthropicThrough(body'[c], {})
          /\ names = AnthropicCallNames(json)
      BY <2>2 DEF Handle, Read, CallNames
    <3> HIDE DEF json, names
    <3> QED BY <3>1 DEF HandleAnthropicMessages
  <2> QED BY <2>1, <2>2
<1>3. PICK got : Record(c, got, id)
  BY <1>1
<1>4. PICK hit \in Hits : sessions' =
        Put(sessions, id, RecordCacheHit(ObserveToolCalls(Get(sessions, id), names), hit))
  BY <1>2
<1>5. Handled(c, got, id, hit)
  BY <1>3, <1>4 DEF Handled, Record
<1> HIDE DEF id
<1> QED BY <1>5

\* A request of one conversation, its first or a later one.
LEMMA TurnTaken ==
  ASSUME ScalarsAreNoObjects, ConversationInv, NEW c \in Conversations, Begin(c) \/ Continue(c)
  PROVE  /\ opening' = [d \in Conversations |-> opening'[d]]
         /\ body' = [d \in Conversations |-> body'[d]]
         /\ header' = [d \in Conversations |-> header'[d]]
         /\ \A d \in Conversations \ {c} : opening'[d] = opening[d] /\ body'[d] = body[d]
         /\ opening'[c] \in Openings /\ TurnOf(opening'[c], body'[c])
<1>1. CASE Begin(c)
  <2>1. PICK o \in Openings, value \in Headers \cup {NoHeader} :
          /\ opening' = [opening EXCEPT ![c] = o]
          /\ body' = [body EXCEPT ![c] = o.body]
          /\ header' = [header EXCEPT ![c] = value]
    BY <1>1 DEF Begin
  <2>2. opening'[c] = o /\ body'[c] = o.body
    BY <2>1 DEF ConversationInv
  <2>3. TurnOf(o, o.body)
    BY FirstTurn
  <2> QED BY <2>1, <2>2, <2>3 DEF ConversationInv
<1>2. CASE Continue(c)
  <2> DEFINE o == opening[c]
             b == body[c]
  <2>1. o # NotBegun /\ opening' = opening /\ header' = header
    BY <1>2 DEF Continue
  <2>2. PICK more \in Additions[o.api], tools \in ToolLists[o.api] :
          body' = [body EXCEPT ![c].messages = @ \o more, ![c].tools = tools]
    BY <1>2 DEF Continue
  <2>3. /\ body'[c] = Longer(b, more, tools)
        /\ body' = [d \in Conversations |-> body'[d]]
        /\ \A d \in Conversations \ {c} : body'[d] = body[d]
    BY <2>2 DEF ConversationInv, Longer
  <2>4. o \in Openings /\ TurnOf(o, b)
    BY <2>1 DEF ConversationInv
  <2> HIDE DEF o, b
  <2>5. TurnOf(o, body'[c])
    BY <2>2, <2>3, <2>4, NextTurn
  <2> QED BY <2>1, <2>3, <2>4, <2>5 DEF ConversationInv, o
<1> QED BY <1>1, <1>2

LEMMA TurnIsTraced ==
  ASSUME ScalarsAreNoObjects, ConversationInv, NEW c \in Conversations, Begin(c) \/ Continue(c)
  PROVE  ConversationInv'
<1>1. Handle(c)
  BY DEF Begin, Continue
<1>2. PICK got, id : \E hit \in Hits : Handled(c, got, id, hit)
  BY <1>1, HandledEntry
<1> DEFINE entry == [ conversation |-> c, opening |-> opening'[c], header |-> header'[c],
                      sent |-> body'[c], got |-> got, id |-> id ]
<1>3. /\ opening' = [d \in Conversations |-> opening'[d]]
      /\ body' = [d \in Conversations |-> body'[d]]
      /\ header' = [d \in Conversations |-> header'[d]]
      /\ \A d \in Conversations \ {c} : opening'[d] = opening[d] /\ body'[d] = body[d]
      /\ opening'[c] \in Openings /\ TurnOf(opening'[c], body'[c])
  BY TurnTaken
<1>4. Traced(entry)
  <2>1. IDForRequest(Read(opening'[c].api, body'[c])) = OpeningId(opening'[c])
    BY <1>3, SessionOfTurn
  <2>2. header'[c] = NoHeader => id = OpeningId(opening'[c])
    BY <1>2, <2>1 DEF Handled, IDFor
  <2> QED BY <1>3, <2>2 DEF Traced
<1>5. \A d \in Conversations : opening'[d] # NotBegun =>
        opening'[d] \in Openings /\ TurnOf(opening'[d], body'[d])
  BY <1>3 DEF ConversationInv
<1>6. recording' = Append(recording, entry) /\ \E S : recording \in Seq(S)
  BY <1>2 DEF Handled, ConversationInv
<1> HIDE DEF entry
<1>7. /\ \E S : recording' \in Seq(S)
      /\ Len(recording) \in Nat /\ DOMAIN recording = 1 .. Len(recording)
      /\ DOMAIN recording' = 1 .. Len(recording) + 1
      /\ recording'[Len(recording) + 1] = entry
      /\ \A i \in 1 .. Len(recording) : recording'[i] = recording[i]
  BY <1>6, Appended
<1>8. ASSUME NEW i \in DOMAIN recording' PROVE Traced(recording'[i])
  <2>1. CASE i \in 1 .. Len(recording)
    BY <1>7, <2>1 DEF ConversationInv
  <2>2. CASE i = Len(recording) + 1
    BY <1>4, <1>7, <2>2
  <2> QED BY <1>7, <2>1, <2>2
<1> QED BY <1>3, <1>5, <1>7, <1>8 DEF ConversationInv

LEMMA InitConversation == Init => ConversationInv
<1> SUFFICES ASSUME Init PROVE ConversationInv
  OBVIOUS
<1>1. recording = << >> /\ << >> \in Seq({})
  BY DEF Init
<1>2. /\ opening = [c \in Conversations |-> opening[c]]
      /\ body = [c \in Conversations |-> body[c]]
      /\ header = [c \in Conversations |-> header[c]]
      /\ \A c \in Conversations : opening[c] = NotBegun
  BY DEF Init
<1> QED BY <1>1, <1>2 DEF ConversationInv

LEMMA StepConversation ==
  ASSUME ScalarsAreNoObjects, ConversationInv, [Next]_vars
  PROVE  ConversationInv'
<1>1. CASE UNCHANGED <<opening, body, header, recording>>
  BY <1>1 DEF ConversationInv, Traced
<1>2. ASSUME NEW c \in Conversations, PassThrough(c)
      PROVE  ConversationInv'
  <2> DEFINE entry == [ conversation |-> c, opening |-> opening[c], header |-> header[c],
                        sent |-> Garbled, got |-> Garbled, id |-> NoHeader ]
  <2>1. /\ recording' = Append(recording, entry) /\ \E S : recording \in Seq(S)
        /\ UNCHANGED <<opening, body, header>>
    BY <1>2 DEF PassThrough, ConversationInv
  <2>2. Traced(entry)
    BY DEF Traced
  <2> HIDE DEF entry
  <2>3. /\ \E S : recording' \in Seq(S)
        /\ Len(recording) \in Nat /\ DOMAIN recording = 1 .. Len(recording)
        /\ DOMAIN recording' = 1 .. Len(recording) + 1
        /\ recording'[Len(recording) + 1] = entry
        /\ \A i \in 1 .. Len(recording) : recording'[i] = recording[i]
    BY <2>1, Appended
  <2>4. ASSUME NEW i \in DOMAIN recording' PROVE Traced(recording'[i])
    <3>1. CASE i \in 1 .. Len(recording)
      BY <2>3, <3>1 DEF ConversationInv
    <3>2. CASE i = Len(recording) + 1
      BY <2>2, <2>3, <3>2
    <3> QED BY <2>3, <3>1, <3>2
  <2> QED BY <2>1, <2>3, <2>4 DEF ConversationInv
<1>3. CASE ReplayLine
  BY <1>1, <1>3 DEF ReplayLine
<1>4. CASE UNCHANGED vars
  BY <1>1, <1>4 DEF vars
<1> QED BY <1>2, <1>3, <1>4, TurnIsTraced DEF Next

THEOREM ConversationInductive ==
  ASSUME ScalarsAreNoObjects
  PROVE  Spec => []ConversationInv
<1>1. ConversationInv /\ [Next]_vars => ConversationInv'
  BY StepConversation
<1> QED BY <1>1, InitConversation, PTL DEF Spec

\* A conversation keeps its session as it grows, whatever messages and tools its requests
\* bring, and shares it with no conversation that begins differently, for all requests of
\* both dialects: IDForRequest hashes what is settled by the first user message.
THEOREM ConversationsKeepSessions ==
  ASSUME ScalarsAreNoObjects
  PROVE  Spec => []OneSessionPerConversation
<1>1. ConversationInv => OneSessionPerConversation
  <2> SUFFICES ASSUME ConversationInv, NEW i \in Parsed, NEW j \in Parsed,
                      recording[i].header = NoHeader, recording[j].header = NoHeader
               PROVE  recording[i].id = recording[j].id <=>
                        recording[i].opening = recording[j].opening
    BY DEF OneSessionPerConversation
  <2>1. \A k \in {i, j} : /\ recording[k].opening \in Openings
                          /\ recording[k].id = OpeningId(recording[k].opening)
    BY DEF ConversationInv, Traced, Parsed
  <2> QED BY <2>1, OpeningsDiffer
<1> QED BY <1>1, ConversationInductive, PTL

------------------------------------------------------------------------------
(* Stores that count requests.                                             *)

SessionFields == {"turns", "toolsUsed", "lastPrint", "lastCacheHit"}

\* A session that has seen these requests, with these names.
Seen(s, requests, names) ==
  /\ s = [f \in SessionFields |-> s[f]]
  /\ s.turns = Cardinality(requests)
  /\ s.toolsUsed = UNION {names[i] : i \in requests}
  /\ s.lastPrint = NoPrint /\ s.lastCacheHit \in BOOLEAN

\* A store that has seen the live requests, each under its id.
Tallied(store, live, ids, names) ==
  /\ store = [d \in {ids[i] : i \in live} |-> store[d]]
  /\ \A d \in DOMAIN store : Seen(store[d], {i \in live : ids[i] = d}, names)

LEMMA TallyEmpty ==
  ASSUME NEW store, DOMAIN store = {}, store = [d \in {} |-> store[d]], NEW ids, NEW names
  PROVE  Tallied(store, {}, ids, names)
BY DEF Tallied

\* A store does not depend on what it has not seen.
LEMMA TallyStays ==
  ASSUME NEW store, NEW live, NEW ids, NEW names, Tallied(store, live, ids, names),
         NEW ids2, NEW names2, \A i \in live : ids2[i] = ids[i] /\ names2[i] = names[i]
  PROVE  Tallied(store, live, ids2, names2)
<1>1. {ids2[i] : i \in live} = {ids[i] : i \in live}
  OBVIOUS
<1>2. ASSUME NEW d \in DOMAIN store
      PROVE  Seen(store[d], {i \in live : ids2[i] = d}, names2)
  <2> DEFINE these == {i \in live : ids[i] = d}
  <2>1. {i \in live : ids2[i] = d} = these
    OBVIOUS
  <2>2. UNION {names2[i] : i \in these} = UNION {names[i] : i \in these}
    OBVIOUS
  <2>3. Seen(store[d], these, names)
    BY DEF Tallied
  <2> HIDE DEF these
  <2> QED BY <2>1, <2>2, <2>3 DEF Seen
<1> QED BY <1>1, <1>2 DEF Tallied

LEMMA SeenNone ==
  ASSUME NEW names
  PROVE  Seen(NewSession, {}, names)
<1>1. Cardinality({}) = 0
  BY FS_EmptySet
<1> QED BY <1>1 DEF Seen, NewSession, SessionFields

\* One request more.
LEMMA SeenOneMore ==
  ASSUME NEW s, NEW requests, IsFiniteSet(requests), NEW names, Seen(s, requests, names),
         NEW k, k \notin requests
  PROVE  Seen(ObserveToolCalls(s, names[k]), requests \cup {k}, names)
<1> DEFINE t == ObserveToolCalls(s, names[k])
<1>1. /\ t = [f \in SessionFields |-> t[f]]
      /\ t.turns = s.turns + 1 /\ t.toolsUsed = s.toolsUsed \cup names[k]
      /\ t.lastPrint = s.lastPrint /\ t.lastCacheHit = s.lastCacheHit
  BY DEF Seen, ObserveToolCalls, SessionFields
<1>2. Cardinality(requests \cup {k}) = Cardinality(requests) + 1
  BY FS_AddElement
<1>3. UNION {names[i] : i \in requests \cup {k}} =
        (UNION {names[i] : i \in requests}) \cup names[k]
  OBVIOUS
<1> HIDE DEF t
<1> QED BY <1>1, <1>2, <1>3 DEF Seen, t

LEMMA SeenWithHit ==
  ASSUME NEW s, NEW requests, NEW names, Seen(s, requests, names), NEW hit \in BOOLEAN
  PROVE  Seen(RecordCacheHit(s, hit), requests, names)
BY DEF Seen, RecordCacheHit, SessionFields

\* Store.Get before a request is handled: what has been seen under its id.
LEMMA SeenOfGet ==
  ASSUME NEW store, NEW live, NEW ids, NEW names, Tallied(store, live, ids, names), NEW d
  PROVE  Seen(Get(store, d), {i \in live : ids[i] = d}, names)
<1>1. CASE d \in DOMAIN store
  BY <1>1 DEF Get, Tallied
<1>2. CASE d \notin DOMAIN store
  <2>1. {i \in live : ids[i] = d} = {}
    BY <1>2 DEF Tallied
  <2> QED BY <1>2, <2>1, SeenNone DEF Get
<1> QED BY <1>1, <1>2

\* The session of one more request is put back.
LEMMA TallyPut ==
  ASSUME NEW store, NEW live, NEW ids, NEW names, Tallied(store, live, ids, names),
         NEW k, k \notin live, NEW s,
         Seen(s, {i \in live : ids[i] = ids[k]} \cup {k}, names)
  PROVE  Tallied(Put(store, ids[k], s), live \cup {k}, ids, names)
<1> DEFINE new == Put(store, ids[k], s)
<1>1. DOMAIN store = {ids[i] : i \in live}
  BY DEF Tallied
<1>2. new = [d \in {ids[i] : i \in live \cup {k}} |-> IF d = ids[k] THEN s ELSE store[d]]
  <2>1. DOMAIN store \cup {ids[k]} = {ids[i] : i \in live \cup {k}}
    BY <1>1
  <2> QED BY <2>1 DEF Put
<1> HIDE DEF new
<1>3. ASSUME NEW d \in DOMAIN new
      PROVE  Seen(new[d], {i \in live \cup {k} : ids[i] = d}, names)
  <2>1. CASE d = ids[k]
    <3>1. {i \in live \cup {k} : ids[i] = d} = {i \in live : ids[i] = ids[k]} \cup {k}
      BY <2>1
    <3>2. new[d] = s
      BY <1>2, <2>1
    <3> QED BY <3>1, <3>2
  <2>2. CASE d # ids[k]
    <3>1. {i \in live \cup {k} : ids[i] = d} = {i \in live : ids[i] = d}
      BY <2>2
    <3>2. new[d] = store[d] /\ d \in DOMAIN store
      BY <1>1, <1>2, <2>2
    <3> QED BY <3>1, <3>2 DEF Tallied
  <2> QED BY <2>1, <2>2
<1>4. new = [d \in {ids[i] : i \in live \cup {k}} |-> new[d]]
  BY <1>2
<1> QED BY <1>3, <1>4 DEF Tallied, new

------------------------------------------------------------------------------
(* The sessions of a recording and of its replay.                          *)

\* The requests of the first k lines, their sessions and the names they call, as the
\* proxy has seen them and as replay reads them.
Live(lines, k) == {i \in 1 .. k : lines[i].sent # Garbled}

IdsOf(lines) == [i \in DOMAIN lines |-> lines[i].id]

NamesOf(lines) == [i \in DOMAIN lines |-> CallNames(lines[i].opening.api, lines[i].sent)]

ReplayIds(lines) == [i \in DOMAIN lines |-> IDForRequest(Read("openai", lines[i].sent))]

ReplayNames(lines) == [i \in DOMAIN lines |-> ChatCallNames(Read("openai", lines[i].sent))]

LEMMA LiveIsFinite ==
  ASSUME NEW lines, NEW k \in Nat
  PROVE  IsFiniteSet(Live(lines, k)) /\ k + 1 \notin Live(lines, k)
<1>1. IsFiniteSet(1 .. k)
  BY FS_Interval
<1>2. Live(lines, k) \in SUBSET (1 .. k)
  BY DEF Live
<1>3. IsFiniteSet(Live(lines, k))
  BY <1>1, <1>2, FS_Subset
<1>4. k + 1 \notin 1 .. k
  OBVIOUS
<1> QED BY <1>2, <1>3, <1>4

LEMMA LiveOfLonger ==
  ASSUME NEW lines, NEW longer, NEW n \in Nat, NEW k \in 0 .. n,
         \A i \in 1 .. n : longer[i] = lines[i]
  PROVE  Live(longer, k) = Live(lines, k)
<1>1. ASSUME NEW i \in 1 .. k PROVE longer[i] = lines[i]
  <2>1. i \in 1 .. n
    OBVIOUS
  <2> QED BY <2>1
<1> QED BY <1>1 DEF Live

LEMMA NextLive ==
  ASSUME NEW lines, NEW k \in Nat
  PROVE  Live(lines, k + 1) = IF lines[k + 1].sent = Garbled THEN Live(lines, k)
                                                             ELSE Live(lines, k) \cup {k + 1}
<1>1. 1 .. k + 1 = (1 .. k) \cup {k + 1}
  OBVIOUS
<1> QED BY <1>1 DEF Live

\* One request more under its id: the count of its session goes up, the others stay.
LEMMA TallyRequest ==
  ASSUME NEW store, NEW lines, NEW k \in Nat, NEW ids, NEW names,
         Tallied(store, Live(lines, k), ids, names), lines[k + 1].sent # Garbled
  PROVE  LET s == ObserveToolCalls(Get(store, ids[k + 1]), names[k + 1])
         IN  /\ Tallied(Put(store, ids[k + 1], s), Live(lines, k + 1), ids, names)
             /\ \A hit \in BOOLEAN :
                  Tallied(Put(store, ids[k + 1], RecordCacheHit(s, hit)),
                          Live(lines, k + 1), ids, names)
<1> DEFINE live == Live(lines, k)
           d == ids[k + 1]
           these == {i \in live : ids[i] = d}
           s == ObserveToolCalls(Get(store, d), names[k + 1])
<1>1. IsFiniteSet(live) /\ k + 1 \notin live
  BY LiveIsFinite
<1>2. IsFiniteSet(these) /\ k + 1 \notin these
  BY <1>1, FS_Subset
<1>3. Live(lines, k + 1) = live \cup {k + 1}
  BY NextLive
<1> HIDE DEF live
<1>4. Seen(Get(store, d), these, names)
  BY SeenOfGet DEF live
<1>5. Seen(s, these \cup {k + 1}, names)
  <2> HIDE DEF these, d
  <2> QED BY <1>2, <1>4, SeenOneMore
<1> HIDE DEF s
<1>6. \A hit \in BOOLEAN : Seen(RecordCacheHit(s, hit), these \cup {k + 1}, names)
  BY <1>5, SeenWithHit
<1>7. Tallied(Put(store, d, s), live \cup {k + 1}, ids, names)
  BY <1>1, <1>5, TallyPut DEF live
<1>8. ASSUME NEW hit \in BOOLEAN
      PROVE  Tallied(Put(store, d, RecordCacheHit(s, hit)), live \cup {k + 1}, ids, names)
  <2>1. Seen(RecordCacheHit(s, hit), these \cup {k + 1}, names)
    BY <1>6
  <2> QED BY <1>1, <2>1, TallyPut DEF live
<1> QED BY <1>3, <1>7, <1>8 DEF s

\* Each store has seen the requests so far, and agg what replay's store has.
CountInv ==
  /\ ConversationInv
  /\ line \in 0 .. Len(recording)
  /\ Tallied(sessions, Live(recording, Len(recording)), IdsOf(recording), NamesOf(recording))
  /\ Tallied(replayed, Live(recording, line), ReplayIds(recording), ReplayNames(recording))
  /\ agg = [d \in DOMAIN replayed |-> replayed[d].turns]

LEMMA InitCount == Init => CountInv
<1> SUFFICES ASSUME Init PROVE CountInv
  OBVIOUS
<1>1. recording = << >> /\ Len(recording) = 0 /\ line = 0
  BY DEF Init
<1>2. Live(recording, 0) = {}
  BY DEF Live
<1>3. /\ DOMAIN sessions = {} /\ sessions = [d \in {} |-> sessions[d]]
      /\ DOMAIN replayed = {} /\ replayed = [d \in {} |-> replayed[d]]
      /\ agg = [d \in {} |-> 0]
  BY DEF Init
<1>4. /\ Tallied(sessions, {}, IdsOf(recording), NamesOf(recording))
      /\ Tallied(replayed, {}, ReplayIds(recording), ReplayNames(recording))
  BY <1>3, TallyEmpty
<1>5. agg = [d \in DOMAIN replayed |-> replayed[d].turns]
  BY <1>3
<1> QED BY <1>1, <1>2, <1>4, <1>5, InitConversation DEF CountInv

\* What an entry at the end changes for replay: nothing.
LEMMA ReplayUnmoved ==
  ASSUME CountInv, NEW entry, recording' = Append(recording, entry),
         UNCHANGED <<line, replayed, agg>>
  PROVE  /\ line' \in 0 .. Len(recording')
         /\ Tallied(replayed', Live(recording', line'), ReplayIds(recording'),
                    ReplayNames(recording'))
         /\ agg' = [d \in DOMAIN replayed' |-> replayed'[d].turns]
         /\ Tallied(sessions, Live(recording', Len(recording)), IdsOf(recording'),
                    NamesOf(recording'))
<1> DEFINE n == Len(recording)
<1>1. /\ n \in Nat /\ DOMAIN recording = 1 .. n
      /\ Len(recording') = n + 1 /\ DOMAIN recording' = 1 .. n + 1
      /\ \A i \in 1 .. n : recording'[i] = recording[i]
  BY Appended DEF CountInv, ConversationInv
<1>2. line \in 0 .. n /\ n \in 0 .. n
  BY <1>1 DEF CountInv
<1>3. ASSUME NEW i \in 1 .. n
      PROVE  /\ IdsOf(recording')[i] = IdsOf(recording)[i]
             /\ NamesOf(recording')[i] = NamesOf(recording)[i]
             /\ ReplayIds(recording')[i] = ReplayIds(recording)[i]
             /\ ReplayNames(recording')[i] = ReplayNames(recording)[i]
  <2>1. i \in DOMAIN recording /\ i \in DOMAIN recording' /\ recording'[i] = recording[i]
    BY <1>1
  <2> QED BY <2>1 DEF IdsOf, NamesOf, ReplayIds, ReplayNames
<1>4. /\ Live(recording', line) = Live(recording, line)
      /\ Live(recording', n) = Live(recording, n)
  BY <1>1, <1>2, LiveOfLonger
<1>5. Live(recording, line) \subseteq 1 .. n /\ Live(recording, n) \subseteq 1 .. n
  BY <1>1, <1>2 DEF Live
<1>6. Tallied(sessions, Live(recording, n), IdsOf(recording'), NamesOf(recording'))
  BY <1>3, <1>5, TallyStays DEF CountInv
<1>7. Tallied(replayed, Live(recording, line), ReplayIds(recording'), ReplayNames(recording'))
  BY <1>3, <1>5, TallyStays DEF CountInv
<1>8. line' \in 0 .. Len(recording')
  BY <1>1, <1>2
<1>9. agg' = [d \in DOMAIN replayed' |-> replayed'[d].turns]
  BY DEF CountInv
<1> QED BY <1>4, <1>6, <1>7, <1>8, <1>9

LEMMA TurnIsCounted ==
  ASSUME ScalarsAreNoObjects, CountInv, NEW c \in Conversations, Begin(c) \/ Continue(c)
  PROVE  CountInv'
<1> DEFINE n == Len(recording)
<1>1. ConversationInv /\ ConversationInv'
  BY TurnIsTraced DEF CountInv
<1>2. Handle(c) /\ UNCHANGED <<line, replayed, agg>>
  BY DEF Begin, Continue
<1>3. PICK got, id : \E hit \in Hits : Handled(c, got, id, hit)
  BY <1>2, HandledEntry
<1> PICK hit \in Hits : Handled(c, got, id, hit)
  BY <1>3
<1> DEFINE entry == [ conversation |-> c, opening |-> opening'[c], header |-> header'[c],
                      sent |-> body'[c], got |-> got, id |-> id ]
<1>4. entry.sent # Garbled
  <2>1. opening'[c] \in Openings /\ TurnOf(opening'[c], body'[c])
    BY <1>1, TurnTaken
  <2>2. body'[c] = [f \in DOMAIN body'[c] |-> body'[c][f]]
    BY <2>1 DEF TurnOf
  <2>3. body'[c] # Garbled
    BY <2>2 DEF ScalarsAreNoObjects
  <2> QED BY <2>3
<1>5. /\ recording' = Append(recording, entry)
      /\ entry.id = id
      /\ CallNames(opening'[c].api, body'[c]) = CallNames(entry.opening.api, entry.sent)
  BY DEF Handled
<1> HIDE DEF entry
<1>6. /\ n \in Nat /\ Len(recording') = n + 1 /\ DOMAIN recording' = 1 .. n + 1
      /\ recording'[n + 1] = entry
  BY <1>1, <1>5, Appended DEF ConversationInv
<1>7. n + 1 \in DOMAIN recording'
  BY <1>6
<1>8. IdsOf(recording')[n + 1] = id
      /\ NamesOf(recording')[n + 1] = CallNames(opening'[c].api, body'[c])
  BY <1>5, <1>6, <1>7 DEF IdsOf, NamesOf
<1>9. /\ line' \in 0 .. Len(recording')
      /\ Tallied(replayed', Live(recording', line'), ReplayIds(recording'),
                 ReplayNames(recording'))
      /\ agg' = [d \in DOMAIN replayed' |-> replayed'[d].turns]
      /\ Tallied(sessions, Live(recording', n), IdsOf(recording'), NamesOf(recording'))
  BY <1>2, <1>5, ReplayUnmoved
<1>10. hit \in BOOLEAN
  BY WireAssumption
<1>11. Tallied(sessions', Live(recording', n + 1), IdsOf(recording'), NamesOf(recording'))
  <2> DEFINE ids == IdsOf(recording')
             names == NamesOf(recording')
             lines == recording'
             store == sessions
  <2>1. /\ Tallied(store, Live(lines, n), ids, names) /\ lines[n + 1].sent # Garbled
        /\ n \in Nat
    BY <1>4, <1>6, <1>9
  <2>2. sessions' = Put(store, ids[n + 1],
                        RecordCacheHit(ObserveToolCalls(Get(store, ids[n + 1]), names[n + 1]), hit))
    BY <1>8 DEF Handled
  <2> HIDE DEF n, ids, names, lines, store
  <2>3. Tallied(sessions', Live(lines, n + 1), ids, names)
    BY <1>10, <2>1, <2>2, TallyRequest
  <2> QED BY <2>3 DEF ids, names, lines
<1> QED BY <1>1, <1>6, <1>9, <1>11 DEF CountInv

LEMMA PassedIsUncounted ==
  ASSUME CountInv, ConversationInv', NEW c \in Conversations, PassThrough(c)
  PROVE  CountInv'
<1> DEFINE n == Len(recording)
           entry == [ conversation |-> c, opening |-> opening[c], header |-> header[c],
                      sent |-> Garbled, got |-> Garbled, id |-> NoHeader ]
<1>1. /\ recording' = Append(recording, entry) /\ UNCHANGED <<sessions, line, replayed, agg>>
      /\ entry.sent = Garbled
  BY DEF PassThrough
<1> HIDE DEF entry
<1>2. n \in Nat /\ Len(recording') = n + 1 /\ recording'[n + 1] = entry
  BY <1>1, Appended DEF CountInv, ConversationInv
<1>3. /\ line' \in 0 .. Len(recording')
      /\ Tallied(replayed', Live(recording', line'), ReplayIds(recording'),
                 ReplayNames(recording'))
      /\ agg' = [d \in DOMAIN replayed' |-> replayed'[d].turns]
      /\ Tallied(sessions, Live(recording', n), IdsOf(recording'), NamesOf(recording'))
  BY <1>1, ReplayUnmoved
<1>4. Live(recording', n + 1) = Live(recording', n)
  BY <1>1, <1>2, NextLive
<1> QED BY <1>1, <1>2, <1>3, <1>4 DEF CountInv

LEMMA LineIsCounted ==
  ASSUME CountInv, ConversationInv', ReplayLine
  PROVE  CountInv'
<1> DEFINE k == line
           ids == ReplayIds(recording)
           names == ReplayNames(recording)
           d == ids[k + 1]
           s == ObserveToolCalls(Get(replayed, d), names[k + 1])
<1>1. /\ k < Len(recording) /\ line' = k + 1 /\ UNCHANGED <<recording, sessions>>
      /\ Len(recording) \in Nat /\ DOMAIN recording = 1 .. Len(recording)
  <2>1. PICK S : recording \in Seq(S)
    BY DEF CountInv, ConversationInv
  <2> QED BY <2>1 DEF ReplayLine
<1>2. k \in Nat /\ k + 1 \in DOMAIN recording /\ line' \in 0 .. Len(recording')
  BY <1>1 DEF CountInv
<1>3. Tallied(replayed, Live(recording, k), ids, names)
  BY DEF CountInv
<1>4. CASE recording[k + 1].sent = Garbled
  <2>1. UNCHANGED <<replayed, agg>>
    BY <1>4 DEF ReplayLine
  <2>2. Live(recording, k + 1) = Live(recording, k)
    BY <1>2, <1>4, NextLive
  <2> QED BY <1>1, <1>2, <2>1, <2>2 DEF CountInv
<1>5. CASE recording[k + 1].sent # Garbled
  <2>1. /\ d = IDForRequest(ChatThrough(recording[k + 1].sent))
        /\ names[k + 1] = ChatCallNames(ChatThrough(recording[k + 1].sent))
    BY <1>2 DEF ReplayIds, ReplayNames, Read
  <2>2. /\ replayed' = Put(replayed, d, s)
        /\ agg' = [i \in DOMAIN agg \cup {d} |->
             (IF i \in DOMAIN agg THEN agg[i] ELSE 0) + (IF i = d THEN 1 ELSE 0)]
    BY <1>5, <2>1 DEF ReplayLine
  <2>3. Tallied(replayed', Live(recording, k + 1), ids, names)
    <3> DEFINE lines == recording
               store == replayed
    <3>1. /\ Tallied(store, Live(lines, k), ids, names) /\ lines[k + 1].sent # Garbled
          /\ k \in Nat /\ replayed' = Put(store, d, s)
      BY <1>2, <1>3, <1>5, <2>2
    <3>2. Put(store, d, s) = Put(store, ids[k + 1],
            ObserveToolCalls(Get(store, ids[k + 1]), names[k + 1]))
      OBVIOUS
    <3> HIDE DEF k, lines, store, ids, names, d, s
    <3>3. Tallied(Put(store, d, s), Live(lines, k + 1), ids, names)
      BY <3>1, <3>2, TallyRequest
    <3>4. Tallied(replayed', Live(lines, k + 1), ids, names)
      BY <3>1, <3>3
    <3> QED BY <3>4 DEF lines
  <2>4. IsFiniteSet(Live(recording, k))
    BY <1>2, LiveIsFinite
  <2>5. ASSUME NEW i
        PROVE  Get(replayed, i).turns \in Nat /\ "turns" \in DOMAIN Get(replayed, i)
    <3> DEFINE these == {j \in Live(recording, k) : ids[j] = i}
    <3>1. Seen(Get(replayed, i), these, names)
      BY <1>3, SeenOfGet
    <3>2. IsFiniteSet(these)
      BY <2>4, FS_Subset
    <3> HIDE DEF these
    <3>3. Cardinality(these) \in Nat
      BY <3>2, FS_CardinalityType
    <3>4. Get(replayed, i) = [f \in SessionFields |-> Get(replayed, i)[f]]
          /\ Get(replayed, i).turns = Cardinality(these)
      BY <3>1 DEF Seen
    <3> QED BY <3>3, <3>4 DEF SessionFields
  <2>6. s.turns = Get(replayed, d).turns + 1
    BY <2>5 DEF ObserveToolCalls
  <2>7. agg = [i \in DOMAIN replayed |-> replayed[i].turns]
    BY DEF CountInv
  <2> HIDE DEF s, d
  <2>8. replayed' = [i \in DOMAIN replayed \cup {d} |-> IF i = d THEN s ELSE replayed[i]]
    BY <2>2 DEF Put
  <2>9. ASSUME NEW i \in DOMAIN replayed \cup {d}
        PROVE  (IF i \in DOMAIN agg THEN agg[i] ELSE 0) + (IF i = d THEN 1 ELSE 0) =
                 replayed'[i].turns
    <3>1. (IF i \in DOMAIN agg THEN agg[i] ELSE 0) = Get(replayed, i).turns
      BY <2>7 DEF Get, NewSession
    <3>2. CASE i = d
      BY <2>6, <2>8, <3>1, <3>2
    <3>3. CASE i # d
      <4>1. i \in DOMAIN replayed /\ replayed'[i] = replayed[i]
        BY <2>8, <3>3
      <4>2. Get(replayed, i) = replayed[i]
        BY <4>1 DEF Get
      <4> QED BY <2>5, <3>1, <3>3, <4>1, <4>2
    <3> QED BY <3>2, <3>3
  <2>10. agg' = [i \in DOMAIN replayed' |-> replayed'[i].turns]
    <3>1. DOMAIN agg = DOMAIN replayed /\ DOMAIN replayed' = DOMAIN replayed \cup {d}
      BY <2>7, <2>8
    <3>2. agg' = [i \in DOMAIN replayed' |-> agg'[i]]
      BY <2>2, <3>1
    <3>3. ASSUME NEW i \in DOMAIN replayed'
          PROVE  agg'[i] = replayed'[i].turns
      <4>1. i \in DOMAIN replayed \cup {d}
        BY <3>1
      <4>2. agg'[i] = (IF i \in DOMAIN agg THEN agg[i] ELSE 0) + (IF i = d THEN 1 ELSE 0)
        BY <2>2, <3>1, <4>1
      <4> QED BY <2>9, <4>1, <4>2
    <3> QED BY <3>2, <3>3
  <2> QED BY <1>1, <1>2, <2>3, <2>10 DEF CountInv
<1> QED BY <1>4, <1>5

LEMMA StepCount ==
  ASSUME ScalarsAreNoObjects, CountInv, [Next]_vars
  PROVE  CountInv'
<1>1. ConversationInv'
  BY StepConversation DEF CountInv
<1>2. CASE UNCHANGED vars
  <2>1. UNCHANGED <<sessions, recording, line, replayed, agg>>
    BY <1>2 DEF vars
  <2> QED BY <1>1, <2>1 DEF CountInv
<1> QED BY <1>1, <1>2, TurnIsCounted, PassedIsUncounted, LineIsCounted DEF Next

THEOREM CountInductive ==
  ASSUME ScalarsAreNoObjects
  PROVE  Spec => []CountInv
<1>1. CountInv /\ [Next]_vars => CountInv'
  BY StepCount
<1> QED BY <1>1, InitCount, PTL DEF Spec

\* Two tallies of the same requests under the same ids.
Alike(store, store2, live, ids, names, names2) ==
  /\ DOMAIN store2 = DOMAIN store
  /\ \A d \in DOMAIN store : store2[d].turns = store[d].turns
  /\ \A i \in live : (\A j \in live : ids[j] = ids[i] => names2[j] = names[j]) =>
       store2[ids[i]].toolsUsed = store[ids[i]].toolsUsed

LEMMA SameTally ==
  ASSUME NEW live, NEW ids, NEW ids2, \A i \in live : ids2[i] = ids[i],
         NEW store, NEW names, Tallied(store, live, ids, names),
         NEW store2, NEW names2, Tallied(store2, live, ids2, names2)
  PROVE  Alike(store, store2, live, ids, names, names2)
<1>1. Tallied(store2, live, ids, names2)
  BY TallyStays
<1>2. DOMAIN store2 = DOMAIN store /\ DOMAIN store = {ids[i] : i \in live}
  BY <1>1 DEF Tallied
<1>3. ASSUME NEW d \in DOMAIN store
      PROVE  /\ Seen(store[d], {i \in live : ids[i] = d}, names)
             /\ Seen(store2[d], {i \in live : ids[i] = d}, names2)
  BY <1>1, <1>2 DEF Tallied
<1>4. ASSUME NEW i \in live, \A j \in live : ids[j] = ids[i] => names2[j] = names[j]
      PROVE  store2[ids[i]].toolsUsed = store[ids[i]].toolsUsed
  <2> DEFINE these == {j \in live : ids[j] = ids[i]}
  <2>1. UNION {names2[j] : j \in these} = UNION {names[j] : j \in these}
    BY <1>4
  <2>2. ids[i] \in DOMAIN store
    BY <1>2
  <2>3. Seen(store[ids[i]], these, names) /\ Seen(store2[ids[i]], these, names2)
    BY <1>3, <2>2
  <2> HIDE DEF these
  <2> QED BY <2>1, <2>3 DEF Seen
<1> QED BY <1>2, <1>3, <1>4 DEF Seen, Alike

LEMMA InvReplayAgrees ==
  ASSUME ScalarsAreNoObjects, CountInv
  PROVE  ReplayAgrees
<1> SUFFICES ASSUME line = Len(recording),
                    \A i \in DOMAIN recording : recording[i].header = NoHeader
             PROVE  /\ DOMAIN agg = DOMAIN sessions /\ DOMAIN replayed = DOMAIN sessions
                    /\ \A id \in DOMAIN agg :
                         agg[id] = sessions[id].turns /\ replayed[id].turns = sessions[id].turns
                    /\ \A i \in Parsed : recording[i].opening.api = "openai" =>
                         replayed[recording[i].id].toolsUsed =
                           sessions[recording[i].id].toolsUsed
  BY DEF ReplayAgrees
<1> DEFINE live == Live(recording, Len(recording))
           ids == IdsOf(recording)
           ids2 == ReplayIds(recording)
           names == NamesOf(recording)
           names2 == ReplayNames(recording)
<1>1. DOMAIN recording = 1 .. Len(recording) /\ live = Parsed
  <2>1. PICK S : recording \in Seq(S)
    BY DEF CountInv, ConversationInv
  <2> QED BY <2>1 DEF Live, Parsed
<1>2. ASSUME NEW i \in live
      PROVE  /\ i \in DOMAIN recording
             /\ recording[i].opening \in Openings
             /\ ids[i] = recording[i].id
             /\ ids[i] = OpeningId(recording[i].opening)
             /\ ids2[i] = ids[i]
             /\ recording[i].opening.api = "openai" => names2[i] = names[i]
  <2> DEFINE entry == recording[i]
  <2>1. i \in DOMAIN recording /\ entry.sent # Garbled /\ entry.header = NoHeader
    BY <1>1 DEF Live
  <2>2. /\ entry.opening \in Openings /\ TurnOf(entry.opening, entry.sent)
        /\ entry.id = OpeningId(entry.opening)
    BY <2>1 DEF CountInv, ConversationInv, Traced
  <2>3. /\ ids[i] = entry.id /\ ids2[i] = IDForRequest(Read("openai", entry.sent))
        /\ names[i] = CallNames(entry.opening.api, entry.sent)
        /\ names2[i] = ChatCallNames(Read("openai", entry.sent))
    BY <2>1 DEF IdsOf, ReplayIds, NamesOf, ReplayNames
  <2>4. IDForRequest(Read("openai", entry.sent)) = OpeningId(entry.opening)
    <3> HIDE DEF entry
    <3> QED BY <2>2, SessionOfTurn
  <2>5. entry.opening.api = "openai" => names2[i] = names[i]
    BY <2>3 DEF CallNames
  <2> QED BY <2>1, <2>2, <2>3, <2>4, <2>5
<1>3. /\ Tallied(sessions, live, ids, names)
      /\ Tallied(replayed, live, ids2, names2)
      /\ agg = [d \in DOMAIN replayed |-> replayed[d].turns]
  BY DEF CountInv
<1>4. ASSUME NEW i \in live, NEW j \in live, recording[i].opening.api = "openai",
             ids[j] = ids[i]
      PROVE  names2[j] = names[j]
  <2>1. recording[j].opening = recording[i].opening
    BY <1>2, <1>4, OpeningsDiffer
  <2> QED BY <1>2, <1>4, <2>1
<1> HIDE DEF live, ids, ids2, names, names2
<1>5. \A i \in live : ids2[i] = ids[i]
  BY <1>2
<1>6. /\ DOMAIN replayed = DOMAIN sessions
      /\ \A d \in DOMAIN sessions : replayed[d].turns = sessions[d].turns
      /\ \A i \in live : (\A j \in live : ids[j] = ids[i] => names2[j] = names[j]) =>
           replayed[ids[i]].toolsUsed = sessions[ids[i]].toolsUsed
  <2>1. Alike(sessions, replayed, live, ids, names, names2)
    BY <1>3, <1>5, SameTally
  <2> QED BY <2>1 DEF Alike
<1>7. ASSUME NEW i \in Parsed, recording[i].opening.api = "openai"
      PROVE  replayed[recording[i].id].toolsUsed = sessions[recording[i].id].toolsUsed
  <2>1. i \in live /\ ids[i] = recording[i].id
    BY <1>1, <1>2
  <2>2. \A j \in live : ids[j] = ids[i] => names2[j] = names[j]
    BY <1>4, <1>7, <2>1
  <2> QED BY <1>6, <2>1, <2>2
<1>8. DOMAIN agg = DOMAIN replayed /\ \A d \in DOMAIN agg : agg[d] = replayed[d].turns
  BY <1>3
<1>9. ASSUME NEW id \in DOMAIN agg
      PROVE  agg[id] = sessions[id].turns /\ replayed[id].turns = sessions[id].turns
  BY <1>6, <1>8
<1> QED BY <1>6, <1>7, <1>8, <1>9

\* Replay attributes a recording to the sessions the proxy had, with the same turns and,
\* for chat requests, the same tools, for all recordings without headers: it reads every
\* line as a chat request, and IDForRequest finds the same in it in either dialect.
THEOREM ReplayCountsAlike ==
  ASSUME ScalarsAreNoObjects
  PROVE  Spec => []ReplayAgrees
<1>1. CountInv => ReplayAgrees
  BY InvReplayAgrees
<1> QED BY <1>1, CountInductive, PTL

------------------------------------------------------------------------------
(* No nil goes out, and what sessions know are tools.                      *)

LEMMA ObjectsAreValues ==
  ASSUME ScalarsAreNoObjects, NEW S, NEW g, g = [i \in S |-> g[i]]
  PROVE  g # Absent
<1>1. g = [i \in DOMAIN g |-> g[i]]
  OBVIOUS
<1> QED BY <1>1 DEF ScalarsAreNoObjects

\* Every json.RawMessage is omitempty, so that a nil one is not written.
LEMMA MarshalHasValues ==
  ASSUME NEW t, t.raw \subseteq t.omitempty,
         NEW s, \A f \in t.fields \ t.raw : s.known[f] # Absent,
         \A f \in DOMAIN s.extra : s.extra[f] # Absent
  PROVE  HasValues(Marshal(t, s))
BY DEF HasValues, Marshal, Written, Zero

LEMMA ThroughHasValues ==
  ASSUME NEW t, t.raw \subseteq t.omitempty, NEW json, HasValues(json)
  PROVE  HasValues(Through(t, json))
<1> DEFINE s == Unmarshal(t, json)
<1>1. \A f \in t.fields \ t.raw : s.known[f] # Absent
  BY ValueAssumption DEF HasValues, Unmarshal, Zero
<1>2. \A f \in DOMAIN s.extra : s.extra[f] # Absent
  BY DEF HasValues, Unmarshal
<1> HIDE DEF s
<1> QED BY <1>1, <1>2, MarshalHasValues DEF Through, s

LEMMA ChatMessageHasValues ==
  ASSUME ScalarsAreNoObjects, NEW m, HasValues(m)
  PROVE  HasValues(ChatMessageThrough(m))
<1> DEFINE read == Unmarshal(ChatMessage, m)
           calls == Each(ToolCallThrough, read.known["tool_calls"])
           s == [read EXCEPT !.known["tool_calls"] = Each(ToolCallThrough, @)]
<1>1. ChatMessageThrough(m) = Marshal(ChatMessage, s)
  BY DEF ChatMessageThrough
<1>2. calls # Absent
  <2>1. CASE read.known["tool_calls"] = Empty
    BY <2>1, ValueAssumption DEF Each
  <2>2. CASE read.known["tool_calls"] # Empty
    <3>1. calls = [i \in DOMAIN read.known["tool_calls"] |-> calls[i]]
      BY <2>2 DEF Each
    <3> HIDE DEF calls
    <3> QED BY <3>1, ObjectsAreValues
  <2> QED BY <2>1, <2>2
<1> HIDE DEF calls
<1>3. /\ s.known["tool_calls"] = calls
      /\ \A f \in ChatMessage.fields \ {"tool_calls"} : s.known[f] = read.known[f]
      /\ s.extra = read.extra
  BY DEF Unmarshal, ChatMessage, calls
<1>4. /\ \A f \in ChatMessage.fields \ ChatMessage.raw : read.known[f] # Absent
      /\ \A f \in DOMAIN read.extra : read.extra[f] # Absent
  BY ValueAssumption DEF HasValues, Unmarshal, Zero
<1>5. ChatMessage.raw \subseteq ChatMessage.omitempty
  BY DEF ChatMessage
<1> HIDE DEF s, read
<1>6. \A f \in ChatMessage.fields \ ChatMessage.raw : s.known[f] # Absent
  BY <1>2, <1>3, <1>4
<1> QED BY <1>1, <1>3, <1>4, <1>5, <1>6, MarshalHasValues

LEMMA AnthropicMessageHasValues ==
  ASSUME ScalarsAreNoObjects, NEW m, HasValues(m)
  PROVE  LET read == Through(AnthropicMessage, m)
         IN  HasValues(read) /\ HasValues(BlocksThrough(read))
<1> DEFINE read == Through(AnthropicMessage, m)
           content == [blocks |-> Each(BlockThrough, read.content.blocks)]
<1>1. HasValues(read)
  <2>1. AnthropicMessage.raw \subseteq AnthropicMessage.omitempty
    BY DEF AnthropicMessage
  <2> QED BY <2>1, ThroughHasValues
<1>2. content # Absent
  <2>1. content = [f \in {"blocks"} |-> content[f]]
    OBVIOUS
  <2> HIDE DEF content
  <2> QED BY <2>1, ObjectsAreValues
<1>3. BlocksThrough(read) = [read EXCEPT !.content = content]
  BY DEF BlocksThrough
<1> HIDE DEF read, content
<1>4. HasValues(BlocksThrough(read))
  BY <1>1, <1>2, <1>3 DEF HasValues
<1> QED BY <1>1, <1>4 DEF read

\* A request whose lists have been written.
LEMMA RequestHasValues ==
  ASSUME ScalarsAreNoObjects, NEW t, t.raw \subseteq t.omitempty,
         {"messages", "tools"} \subseteq t.fields \ t.raw, NEW b, HasValues(b),
         NEW s, NEW read, read = Unmarshal(t, b),
         s.known["messages"] # Absent, s.known["tools"] # Absent,
         \A f \in t.fields \ {"messages", "tools"} : s.known[f] = read.known[f],
         s.extra = read.extra
  PROVE  HasValues(Marshal(t, s))
<1>1. /\ \A f \in t.fields \ t.raw : read.known[f] # Absent
      /\ \A f \in DOMAIN read.extra : read.extra[f] # Absent
  BY ValueAssumption DEF HasValues, Unmarshal, Zero
<1>2. \A f \in t.fields \ t.raw : s.known[f] # Absent
  BY <1>1
<1> QED BY <1>1, <1>2, MarshalHasValues

LEMMA ChatRequestHasValues ==
  ASSUME ScalarsAreNoObjects, NEW b, HasValues(b), "messages" \in Valued(b),
         \A k \in DOMAIN b.messages : HasValues(b.messages[k])
  PROVE  LET got == ChatThrough(b)
         IN  /\ HasValues(got)
             /\ \A k \in DOMAIN got.messages : HasValues(got.messages[k])
<1> DEFINE read == Unmarshal(ChatRequest, b)
           messages == Each(ChatMessageThrough, read.known["messages"])
           tools == Each(ChatToolThrough, read.known["tools"])
           s == [read EXCEPT !.known["messages"] = Each(ChatMessageThrough, @),
                             !.known["tools"] = Each(ChatToolThrough, @)]
<1>1. ChatThrough(b) = Marshal(ChatRequest, s)
  BY DEF ChatThrough
<1>2. messages = [i \in DOMAIN b.messages |-> ChatMessageThrough(b.messages[i])]
  BY DEF Valued, Each, Unmarshal, ChatRequest
<1>3. messages # Absent
  <2> HIDE DEF messages
  <2>1. messages = [i \in DOMAIN b.messages |-> messages[i]]
    BY <1>2
  <2> QED BY <2>1, ObjectsAreValues
<1>4. tools # Absent
  <2>1. CASE read.known["tools"] = Empty
    BY <2>1, ValueAssumption DEF Each
  <2>2. CASE read.known["tools"] # Empty
    <3>1. tools = [i \in DOMAIN read.known["tools"] |-> tools[i]]
      BY <2>2 DEF Each
    <3> HIDE DEF tools
    <3> QED BY <3>1, ObjectsAreValues
  <2> QED BY <2>1, <2>2
<1> HIDE DEF messages, tools
<1>5. /\ s.known["messages"] = messages /\ s.known["tools"] = tools
      /\ \A f \in ChatRequest.fields \ {"messages", "tools"} : s.known[f] = read.known[f]
      /\ s.extra = read.extra /\ "messages" \notin DOMAIN s.extra
  BY DEF Unmarshal, ChatRequest, messages, tools
<1>6. /\ ChatRequest.raw \subseteq ChatRequest.omitempty
      /\ {"messages", "tools"} \subseteq ChatRequest.fields \ ChatRequest.raw
      /\ "messages" \notin ChatRequest.omitempty
  BY DEF ChatRequest
<1> HIDE DEF s
<1>7. read = Unmarshal(ChatRequest, b)
  OBVIOUS
<1> HIDE DEF read
<1>8. HasValues(ChatThrough(b))
  BY <1>1, <1>3, <1>4, <1>5, <1>6, <1>7, RequestHasValues
<1>9. ChatThrough(b).messages = messages
  BY <1>1, <1>5, <1>6 DEF Marshal, Written
<1> QED BY <1>2, <1>8, <1>9, ChatMessageHasValues

LEMMA AnthropicRequestHasValues ==
  ASSUME ScalarsAreNoObjects, NEW b, HasValues(b), "messages" \in Valued(b),
         \A k \in DOMAIN b.messages : HasValues(b.messages[k]), NEW touched
  PROVE  LET got == AnthropicThrough(b, touched)
         IN  /\ HasValues(got)
             /\ \A k \in DOMAIN got.messages : HasValues(got.messages[k])
<1> DEFINE read == Unmarshal(MessagesRequest, b)
           messages == AnthropicMessagesThrough(b.messages, touched)
           tools == Each(AnthropicToolThrough, read.known["tools"])
           s == [read EXCEPT !.known["messages"] = AnthropicMessagesThrough(@, touched),
                             !.known["tools"] = Each(AnthropicToolThrough, @)]
           One(k) == Through(AnthropicMessage, b.messages[k])
<1>1. AnthropicThrough(b, touched) = Marshal(MessagesRequest, s)
  BY DEF AnthropicThrough
<1>2. messages = [i \in DOMAIN b.messages |->
                    IF i \in touched /\ HasBlocks(One(i)) THEN BlocksThrough(One(i)) ELSE One(i)]
  BY DEF Valued, AnthropicMessagesThrough
<1> HIDE DEF One
<1>3. messages # Absent
  <2> HIDE DEF messages
  <2>1. messages = [i \in DOMAIN b.messages |-> messages[i]]
    BY <1>2
  <2> QED BY <2>1, ObjectsAreValues
<1>4. tools # Absent
  <2>1. CASE read.known["tools"] = Empty
    BY <2>1, ValueAssumption DEF Each
  <2>2. CASE read.known["tools"] # Empty
    <3>1. tools = [i \in DOMAIN read.known["tools"] |-> tools[i]]
      BY <2>2 DEF Each
    <3> HIDE DEF tools
    <3> QED BY <3>1, ObjectsAreValues
  <2> QED BY <2>1, <2>2
<1>5. read.known["messages"] = b.messages
  BY DEF Valued, Unmarshal, MessagesRequest
<1> HIDE DEF messages, tools
<1>6. /\ s.known["messages"] = messages /\ s.known["tools"] = tools
      /\ \A f \in MessagesRequest.fields \ {"messages", "tools"} : s.known[f] = read.known[f]
      /\ s.extra = read.extra /\ "messages" \notin DOMAIN s.extra
  BY <1>5 DEF Unmarshal, MessagesRequest, messages, tools
<1>7. /\ MessagesRequest.raw \subseteq MessagesRequest.omitempty
      /\ {"messages", "tools"} \subseteq MessagesRequest.fields \ MessagesRequest.raw
      /\ "messages" \notin MessagesRequest.omitempty
  BY DEF MessagesRequest
<1> HIDE DEF s
<1>8. read = Unmarshal(MessagesRequest, b)
  OBVIOUS
<1> HIDE DEF read
<1>9. HasValues(AnthropicThrough(b, touched))
  BY <1>1, <1>3, <1>4, <1>6, <1>7, <1>8, RequestHasValues
<1>10. AnthropicThrough(b, touched).messages = messages
  BY <1>1, <1>6, <1>7 DEF Marshal, Written
<1>11. \A k \in DOMAIN b.messages : HasValues(One(k)) /\ HasValues(BlocksThrough(One(k)))
  BY AnthropicMessageHasValues DEF One
<1> QED BY <1>2, <1>9, <1>10, <1>11

\* Names are found message by message.
LEMMA ChatNamesByMessage ==
  ASSUME NEW json, NEW S,
         \A m \in Range(json.messages) : ChatCallNames([messages |-> <<m>>]) \subseteq S
  PROVE  ChatCallNames(json) \subseteq S
<1> SUFFICES ASSUME NEW m \in Range(json.messages), NEW call \in Range(Calls(m))
             PROVE  call.function.name \in S
  BY DEF ChatCallNames
<1>1. Range([messages |-> <<m>>].messages) = {m}
  BY DEF Range
<1>2. call.function.name \in ChatCallNames([messages |-> <<m>>])
  BY <1>1 DEF ChatCallNames
<1> QED BY <1>2

LEMMA AnthropicNamesByMessage ==
  ASSUME NEW json, NEW S,
         \A m \in Range(json.messages) : AnthropicCallNames([messages |-> <<m>>]) \subseteq S
  PROVE  AnthropicCallNames(json) \subseteq S
<1> SUFFICES ASSUME NEW m \in Range(json.messages), m.role = "assistant", HasBlocks(m),
                    NEW b \in Range(m.content.blocks), b.type = "tool_use"
             PROVE  b.name \in S
  BY DEF AnthropicCallNames
<1>1. Range([messages |-> <<m>>].messages) = {m}
  BY DEF Range
<1>2. b.name \in AnthropicCallNames([messages |-> <<m>>])
  BY <1>1 DEF AnthropicCallNames
<1> QED BY <1>2

LEMMA TurnIsRequest ==
  ASSUME ScalarsAreNoObjects, NEW o \in Openings, NEW b, TurnOf(o, b)
  PROVE  /\ "messages" \in Valued(b) /\ HasValues(b)
         /\ \A k \in DOMAIN b.messages :
              b.messages[k] \in Messages(o.api) /\ HasValues(b.messages[k])
<1>1. /\ b.messages \in Seq(Messages(o.api)) /\ "messages" \in DOMAIN b /\ HasValues(b)
      /\ o.api \in {"openai", "anthropic"}
  BY WireAssumption DEF TurnOf
<1>2. b.messages \notin {Null, Empty, Absent}
  BY <1>1, ListsAreValues
<1>3. \A k \in DOMAIN b.messages : b.messages[k] \in Messages(o.api)
  BY <1>1
<1> QED BY <1>1, <1>2, <1>3, CallAssumption DEF Valued

LEMMA NamesAreTools ==
  ASSUME ScalarsAreNoObjects, NEW o \in Openings, NEW b, TurnOf(o, b)
  PROVE  ChatCallNames(Read("openai", b)) \subseteq Tools /\ CallNames(o.api, b) \subseteq Tools
<1>1. /\ "messages" \in Valued(b)
      /\ \A k \in DOMAIN b.messages : b.messages[k] \in Messages(o.api)
  BY TurnIsRequest
<1>2. ASSUME NEW api
      PROVE  \A m \in Range(Read(api, b).messages) :
               \E k \in DOMAIN b.messages : m = MessageRead(api, b.messages[k])
  <2>1. Read(api, b).messages = [k \in DOMAIN b.messages |-> MessageRead(api, b.messages[k])]
    BY <1>1, MessagesOfRequest
  <2> QED BY <2>1 DEF Range
<1>3. o.api \in {"openai", "anthropic"}
  BY WireAssumption
<1>4. ChatCallNames(Read("openai", b)) \subseteq Tools
  <2>1. ASSUME NEW m \in Range(Read("openai", b).messages)
        PROVE  ChatCallNames([messages |-> <<m>>]) \subseteq Tools
    <3>1. PICK k \in DOMAIN b.messages : m = ChatMessageThrough(b.messages[k])
      BY <1>2 DEF MessageRead
    <3> QED BY <1>1, <1>3, <3>1, CallAssumption
  <2> QED BY <2>1, ChatNamesByMessage
<1>5. CASE o.api = "openai"
  BY <1>4, <1>5 DEF CallNames
<1>6. CASE o.api = "anthropic"
  <2>1. ASSUME NEW m \in Range(Read("anthropic", b).messages)
        PROVE  AnthropicCallNames([messages |-> <<m>>]) \subseteq Tools
    <3>1. PICK k \in DOMAIN b.messages : m = Through(AnthropicMessage, b.messages[k])
      BY <1>2 DEF MessageRead
    <3> QED BY <1>1, <1>6, <3>1, CallAssumption
  <2>2. AnthropicCallNames(Read("anthropic", b)) \subseteq Tools
    BY <2>1, AnthropicNamesByMessage
  <2> QED BY <1>4, <1>6, <2>2 DEF CallNames
<1> QED BY <1>3, <1>5, <1>6

LEMMA SeenIsTyped ==
  ASSUME NEW s, NEW requests, IsFiniteSet(requests), NEW names, Seen(s, requests, names),
         \A i \in requests : names[i] \subseteq Tools
  PROVE  s \in SessionStates /\ (requests # {} => s.turns \in Nat \ {0})
<1>1. Cardinality(requests) \in Nat /\ (Cardinality(requests) = 0 <=> requests = {})
  BY FS_CardinalityType, FS_EmptySet
<1>2. s = [f \in SessionFields |-> s[f]] /\ s.turns = Cardinality(requests)
      /\ s.toolsUsed \subseteq Tools /\ s.lastPrint = NoPrint /\ s.lastCacheHit \in BOOLEAN
  BY DEF Seen
<1> QED BY <1>1, <1>2 DEF SessionStates, SessionFields

LEMMA StoreIsTyped ==
  ASSUME NEW store, NEW live, IsFiniteSet(live), NEW ids, NEW names,
         Tallied(store, live, ids, names), \A i \in live : names[i] \subseteq Tools
  PROVE  /\ store \in [DOMAIN store -> SessionStates]
         /\ \A d \in DOMAIN store : store[d].turns \in Nat \ {0}
<1>1. ASSUME NEW d \in DOMAIN store
      PROVE  store[d] \in SessionStates /\ store[d].turns \in Nat \ {0}
  <2> DEFINE these == {i \in live : ids[i] = d}
  <2>1. Seen(store[d], these, names) /\ these # {}
    BY DEF Tallied
  <2>2. IsFiniteSet(these) /\ \A i \in these : names[i] \subseteq Tools
    BY FS_Subset
  <2> HIDE DEF these
  <2> QED BY <2>1, <2>2, SeenIsTyped
<1>2. store = [d \in DOMAIN store |-> store[d]]
  BY DEF Tallied
<1> QED BY <1>1, <1>2

LEMMA InvTypeOK ==
  ASSUME ScalarsAreNoObjects, RecordingInv, CountInv
  PROVE  TypeOK
<1>1. /\ Len(recording) \in Nat /\ DOMAIN recording = 1 .. Len(recording)
      /\ line \in 0 .. Len(recording)
  <2>1. PICK S : recording \in Seq(S)
    BY DEF RecordingInv
  <2> QED BY <2>1 DEF CountInv
<1>2. line \in Nat
  BY <1>1
<1>3. IsFiniteSet(Live(recording, line)) /\ IsFiniteSet(Live(recording, Len(recording)))
  BY <1>1, <1>2, LiveIsFinite
<1>4. ASSUME NEW i \in DOMAIN recording, recording[i].sent # Garbled
      PROVE  /\ recording[i].opening \in Openings
             /\ TurnOf(recording[i].opening, recording[i].sent)
  BY <1>4 DEF CountInv, ConversationInv, Traced
<1>5. ASSUME NEW i \in DOMAIN recording, recording[i].sent # Garbled
      PROVE  NamesOf(recording)[i] \subseteq Tools /\ ReplayNames(recording)[i] \subseteq Tools
  BY <1>4, <1>5, NamesAreTools DEF NamesOf, ReplayNames
<1>6. /\ \A i \in Live(recording, Len(recording)) : NamesOf(recording)[i] \subseteq Tools
      /\ \A i \in Live(recording, line) : ReplayNames(recording)[i] \subseteq Tools
  <2>1. (1 .. line) \subseteq DOMAIN recording
    BY <1>1
  <2> QED BY <1>1, <1>5, <2>1 DEF Live
<1>7. sessions \in [DOMAIN sessions -> SessionStates]
  BY <1>3, <1>6, StoreIsTyped DEF CountInv
<1>8. /\ replayed \in [DOMAIN replayed -> SessionStates]
      /\ \A d \in DOMAIN replayed : replayed[d].turns \in Nat \ {0}
  BY <1>3, <1>6, StoreIsTyped DEF CountInv
<1>9. agg \in [DOMAIN agg -> Nat \ {0}]
  <2>1. agg = [d \in DOMAIN replayed |-> replayed[d].turns]
    BY DEF CountInv
  <2> QED BY <1>8, <2>1
<1>10. ASSUME NEW i \in Parsed
       PROVE  LET got == recording[i].got
              IN  /\ HasValues(got)
                  /\ \A k \in DOMAIN got.messages : HasValues(got.messages[k])
  <2> DEFINE b == recording[i].sent
  <2>1. i \in DOMAIN recording /\ b # Garbled /\ Kept(recording[i])
    BY DEF Parsed, RecordingInv
  <2>2. /\ "messages" \in Valued(b) /\ HasValues(b)
        /\ \A k \in DOMAIN b.messages : HasValues(b.messages[k])
    BY <1>4, <2>1, TurnIsRequest
  <2> HIDE DEF b
  <2>3. \/ recording[i].got = ChatThrough(b)
        \/ \E touched : recording[i].got = AnthropicThrough(b, touched)
    BY <2>1 DEF Kept, b
  <2> QED BY <2>2, <2>3, ChatRequestHasValues, AnthropicRequestHasValues
<1> QED BY <1>1, <1>7, <1>8, <1>9, <1>10 DEF TypeOK

\* Every session of the proxy and of replay is well formed and knows only tools, what
\* bySession holds has been counted, and no nil json.RawMessage is ever written, for all
\* requests: MarshalJSON leaves out a raw field that is nil.
THEOREM WireIsTyped ==
  ASSUME ScalarsAreNoObjects
  PROVE  Spec => []TypeOK
<1>1. RecordingInv /\ CountInv => TypeOK
  BY InvTypeOK
<1> QED BY <1>1, Recorded, CountInductive, PTL

------------------------------------------------------------------------------
(* What is lost of a tool call.                                            *)

\* The fields that the anonymous struct in ToolCall has.
KnownFunctionArrives(sent, got) ==
  "function" \in Valued(sent) =>
    Arrives(sent.function, got.function, DOMAIN sent.function \ CalledFunction.fields)

CallsOf(sent, got) == AllArrive(sent, got, "tool_calls", KnownFunctionArrives)

LEMMA CalledFunctionKept ==
  ASSUME NEW call
  PROVE  KnownFunctionArrives(call, ToolCallThrough(call))
<1> SUFFICES ASSUME "function" \in Valued(call)
             PROVE  Arrives(call.function, ToolCallThrough(call).function,
                            DOMAIN call.function \ CalledFunction.fields)
  BY DEF KnownFunctionArrives
<1>1. call.function # Empty
  BY DEF Valued
<1>2. ToolCallThrough(call).function = Nested(CalledFunction, call.function)
  BY ValueAssumption
  DEF Valued, ToolCallThrough, Through, Unmarshal, Marshal, Written, Zero, ToolCall
<1> DEFINE function == call.function
<1>3. Arrives(function, Nested(CalledFunction, function),
              DOMAIN function \ CalledFunction.fields)
  <2>1. function # Empty
    BY <1>1
  <2> HIDE DEF function
  <2> QED BY <2>1, ValueAssumption
      DEF Arrives, Valued, Nested, Through, Unmarshal, Marshal, Written, Zero, CalledFunction
<1> QED BY <1>2, <1>3

LEMMA CallsKept ==
  ASSUME NEW m, EmptyIsNoList
  PROVE  /\ CallsOf(m, ChatMessageThrough(m))
         /\ CallsOf(m, Through(AnthropicMessage, m))
<1>1. CallsOf(m, ChatMessageThrough(m))
  <2> DEFINE got == ChatMessageThrough(m)
             list == [i \in DOMAIN m.tool_calls |-> ToolCallThrough(m.tool_calls[i])]
  <2> SUFFICES ASSUME "tool_calls" \in Valued(m)
               PROVE  /\ "tool_calls" \in DOMAIN got
                      /\ DOMAIN got.tool_calls = DOMAIN m.tool_calls
                      /\ \A i \in DOMAIN m.tool_calls :
                            KnownFunctionArrives(m.tool_calls[i], got.tool_calls[i])
    BY DEF AllArrive, CallsOf
  <2>1. list # Empty
    BY DEF EmptyIsNoList
  <2> HIDE DEF list
  <2>2. "tool_calls" \in DOMAIN got /\ got.tool_calls = list
    BY <2>1, ValueAssumption
    DEF list, Valued, ChatMessageThrough, Each, Through, Unmarshal, Marshal, Written, Zero,
        ChatMessage
  <2> QED BY <2>2, CalledFunctionKept DEF list
<1>2. CallsOf(m, Through(AnthropicMessage, m))
  <2>1. "tool_calls" \in Valued(m) =>
          /\ "tool_calls" \in DOMAIN Through(AnthropicMessage, m)
          /\ Through(AnthropicMessage, m).tool_calls = m.tool_calls
    BY ValueAssumption
    DEF Valued, Through, Unmarshal, Marshal, Written, Zero, AnthropicMessage
  <2> QED BY <2>1 DEF AllArrive, CallsOf, KnownFunctionArrives, Arrives, Valued
<1> QED BY <1>1, <1>2

LEMMA RewrittenCallsKept ==
  ASSUME NEW m, EmptyIsNoList, HasBlocks(Through(AnthropicMessage, m))
  PROVE  CallsOf(m, BlocksThrough(Through(AnthropicMessage, m)))
<1> DEFINE read == Through(AnthropicMessage, m)
           got == BlocksThrough(read)
<1>1. CallsOf(m, read)
  BY CallsKept
<1>2. read = [f \in DOMAIN read |-> read[f]]
  BY DEF Through, Marshal
<1> HIDE DEF read
<1>3. DOMAIN got = DOMAIN read /\ \A f \in DOMAIN read \ {"content"} : got[f] = read[f]
  BY <1>2 DEF BlocksThrough
<1> HIDE DEF got
<1>4. CallsOf(m, got)
  BY <1>1, <1>3 DEF CallsOf, AllArrive
<1> QED BY <1>4 DEF got, read

LEMMA CallsOfRequest ==
  ASSUME NEW entry, entry.sent # Garbled, Kept(entry), EmptyIsNoList,
         "messages" \in Valued(entry.sent), NEW k \in DOMAIN entry.sent.messages
  PROVE  CallsOf(entry.sent.messages[k], entry.got.messages[k])
<1> DEFINE list == entry.sent.messages
<1>1. CASE entry.got = ChatThrough(entry.sent)
  <2>1. entry.got.messages = [i \in DOMAIN list |-> ChatMessageThrough(list[i])]
    BY <1>1, MessagesOfRequest DEF Read, MessageRead
  <2> QED BY <2>1, CallsKept
<1>2. ASSUME NEW touched, entry.got = AnthropicThrough(entry.sent, touched)
      PROVE  CallsOf(list[k], entry.got.messages[k])
  <2> DEFINE One(i) == Through(AnthropicMessage, list[i])
  <2>1. entry.got.messages = AnthropicMessagesThrough(list, touched)
    BY <1>2, ValueAssumption
    DEF Valued, AnthropicThrough, Through, Unmarshal, Marshal, Written, Zero, MessagesRequest
  <2>2. list # Empty
    BY DEF Valued
  <2> HIDE DEF list
  <2>3. entry.got.messages =
          [i \in DOMAIN list |-> IF i \in touched /\ HasBlocks(One(i))
                                   THEN BlocksThrough(One(i)) ELSE One(i)]
    BY <2>1, <2>2 DEF AnthropicMessagesThrough
  <2>4. CallsOf(list[k], One(k)) /\ (HasBlocks(One(k)) => CallsOf(list[k], BlocksThrough(One(k))))
    BY CallsKept, RewrittenCallsKept
  <2> HIDE DEF One
  <2>5. k \in DOMAIN list
    BY DEF list
  <2> QED BY <2>3, <2>4, <2>5
<1> QED BY <1>1, <1>2 DEF Kept, list

\* A call has a function with the fields of the API only.
CallsAreKnown(m) ==
  "tool_calls" \in Valued(m) => \A i \in DOMAIN m.tool_calls :
    "function" \in Valued(m.tool_calls[i]) =>
      DOMAIN m.tool_calls[i].function \subseteq CalledFunction.fields

\* What a client says of the function a model has called arrives as a whole if it says no
\* more than name and arguments, the fields of the anonymous struct in ToolCall; whatever
\* else is in the request, and in both dialects.
THEOREM KnownCallsArriveWhole ==
  ASSUME ScalarsAreNoObjects,
         \A api \in {"openai", "anthropic"} : \A m \in Messages(api) : CallsAreKnown(m)
  PROVE  Spec => []CallsArriveWhole
<1>1. RecordingInv /\ CountInv => CallsArriveWhole
  <2> SUFFICES ASSUME RecordingInv, CountInv, NEW i \in Parsed,
                      NEW k \in DOMAIN recording[i].sent.messages
               PROVE  AllArrive(recording[i].sent.messages[k], recording[i].got.messages[k],
                                "tool_calls", FunctionArrives)
    BY DEF CallsArriveWhole
  <2> DEFINE sent == recording[i].sent.messages[k]
             got == recording[i].got.messages[k]
  <2>1. i \in DOMAIN recording /\ recording[i].sent # Garbled /\ Kept(recording[i])
    BY DEF Parsed, RecordingInv
  <2>2. /\ recording[i].opening \in Openings
        /\ TurnOf(recording[i].opening, recording[i].sent)
    BY <2>1 DEF CountInv, ConversationInv, Traced
  <2>3. /\ "messages" \in Valued(recording[i].sent)
        /\ sent \in Messages(recording[i].opening.api)
    BY <2>2, TurnIsRequest
  <2>4. EmptyIsNoList
    BY DEF ScalarsAreNoObjects, EmptyIsNoList
  <2>5. CallsOf(sent, got)
    BY <2>1, <2>3, <2>4, CallsOfRequest
  <2>6. CallsAreKnown(sent)
    BY <2>2, <2>3, WireAssumption
  <2> HIDE DEF sent, got
  <2>7. AllArrive(sent, got, "tool_calls", FunctionArrives)
    BY <2>5, <2>6
    DEF CallsOf, CallsAreKnown, AllArrive, KnownFunctionArrives, FunctionArrives, Arrives, Valued
  <2> QED BY <2>7 DEF sent, got
<1> QED BY <1>1, Recorded, CountInductive, PTL

==============================================================================
