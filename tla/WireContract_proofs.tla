------------------------- MODULE WireContract_proofs -------------------------
(***************************************************************************)
(* Proof that Wire implements SessionContract.                             *)
(***************************************************************************)
EXTENDS WireContract, Wire_proofs

------------------------------------------------------------------------------
(* The names that a request calls.                                         *)

\* A block that calls a tool says so, and names it.
BlockIsNamed(b) ==
  /\ "type" \in DOMAIN b /\ b.type # Null
  /\ b.type = "tool_use" => "name" \in DOMAIN b /\ b.name \notin {Null, Empty}

BlocksAreNamed(m) ==
  LET content == Field(m, "content")
  IN  content \notin {Null, Empty, Absent} /\ "blocks" \in DOMAIN content =>
        \/ content.blocks = Empty
        \/ \A i \in DOMAIN content.blocks : BlockIsNamed(content.blocks[i])

CalledIn(blocks) == {b.name : b \in {b \in Range(blocks) : b.type = "tool_use"}}

MessageNames(m) ==
  IF m.role = "assistant" /\ HasBlocks(m) THEN CalledIn(m.content.blocks) ELSE {}

LEMMA NamesOfMessages ==
  ASSUME NEW json
  PROVE  AnthropicCallNames(json) = UNION {MessageNames(m) : m \in Range(json.messages)}
<1>1. AnthropicCallNames(json) \subseteq UNION {MessageNames(m) : m \in Range(json.messages)}
  BY DEF AnthropicCallNames, MessageNames, CalledIn
<1>2. ASSUME NEW m \in Range(json.messages), NEW name \in MessageNames(m)
      PROVE  name \in AnthropicCallNames(json)
  BY <1>2 DEF AnthropicCallNames, MessageNames, CalledIn
<1> QED BY <1>1, <1>2

\* More messages, more names.
LEMMA NamesOfMore ==
  ASSUME NEW json, NEW more, Range(json.messages) \subseteq Range(more.messages)
  PROVE  /\ ChatCallNames(json) \subseteq ChatCallNames(more)
         /\ AnthropicCallNames(json) \subseteq AnthropicCallNames(more)
<1>1. ChatCallNames(json) \subseteq ChatCallNames(more)
  BY DEF ChatCallNames
<1>2. AnthropicCallNames(json) \subseteq AnthropicCallNames(more)
  BY NamesOfMessages
<1> QED BY <1>1, <1>2

LEMMA BlockThroughNamed ==
  ASSUME NEW b, BlockIsNamed(b)
  PROVE  /\ BlockThrough(b).type = b.type
         /\ b.type = "tool_use" => BlockThrough(b).name = b.name
<1>1. BlockThrough(b).type = b.type
  BY ValueAssumption
  DEF BlockIsNamed, BlockThrough, Through, Unmarshal, Marshal, Written, Zero, ContentBlock,
      BlockFields
<1>2. ASSUME b.type = "tool_use" PROVE BlockThrough(b).name = b.name
  BY <1>2, ValueAssumption
  DEF BlockIsNamed, BlockThrough, Through, Unmarshal, Marshal, Written, Zero, ContentBlock,
      BlockFields
<1> QED BY <1>1, <1>2

\* Blocks that are written again call what they have called.
LEMMA CalledInAgain ==
  ASSUME NEW blocks, blocks # Empty, \A i \in DOMAIN blocks : BlockIsNamed(blocks[i])
  PROVE  CalledIn(Each(BlockThrough, blocks)) = CalledIn(blocks)
<1> DEFINE again == Each(BlockThrough, blocks)
<1>1. DOMAIN again = DOMAIN blocks
      /\ \A i \in DOMAIN blocks : again[i] = BlockThrough(blocks[i])
  BY DEF Each
<1>2. \A i \in DOMAIN blocks : /\ again[i].type = blocks[i].type
                               /\ blocks[i].type = "tool_use" => again[i].name = blocks[i].name
  BY <1>1, BlockThroughNamed
<1> HIDE DEF again
<1>3. CalledIn(again) \subseteq CalledIn(blocks)
  <2> SUFFICES ASSUME NEW i \in DOMAIN again, again[i].type = "tool_use"
               PROVE  again[i].name \in CalledIn(blocks)
    BY DEF CalledIn, Range
  <2>1. blocks[i] \in Range(blocks) /\ blocks[i].type = "tool_use"
        /\ again[i].name = blocks[i].name
    BY <1>1, <1>2 DEF Range
  <2> QED BY <2>1 DEF CalledIn
<1>4. CalledIn(blocks) \subseteq CalledIn(again)
  <2> SUFFICES ASSUME NEW i \in DOMAIN blocks, blocks[i].type = "tool_use"
               PROVE  blocks[i].name \in CalledIn(again)
    BY DEF CalledIn, Range
  <2>1. again[i] \in Range(again) /\ again[i].type = "tool_use"
        /\ again[i].name = blocks[i].name
    BY <1>1, <1>2 DEF Range
  <2> QED BY <2>1 DEF CalledIn
<1> QED BY <1>3, <1>4 DEF again

LEMMA NamesOfRewritten ==
  ASSUME ScalarsAreNoObjects, NEW m, HasBlocks(m), BlocksAreNamed(m)
  PROVE  MessageNames(BlocksThrough(m)) = MessageNames(m)
<1> DEFINE blocks == m.content.blocks
           again == Each(BlockThrough, blocks)
           n == BlocksThrough(m)
<1>1. CalledIn(again) = CalledIn(blocks)
  <2>1. CASE blocks = Empty
    BY <2>1 DEF Each
  <2>2. CASE blocks # Empty
    <3>1. \A i \in DOMAIN blocks : BlockIsNamed(blocks[i])
      BY <2>2 DEF BlocksAreNamed, HasBlocks, Field
    <3> HIDE DEF blocks
    <3> QED BY <2>2, <3>1, CalledInAgain
  <2> QED BY <2>1, <2>2
<1>2. n.role = m.role /\ "content" \in DOMAIN n /\ n.content = [blocks |-> again]
  BY DEF BlocksThrough, HasBlocks
<1> HIDE DEF n, again
<1>3. [blocks |-> again] \notin {Null, Empty, Absent}
  <2>1. [blocks |-> again] = [f \in DOMAIN [blocks |-> again] |-> [blocks |-> again][f]]
    OBVIOUS
  <2> QED BY <2>1 DEF ScalarsAreNoObjects
<1>4. HasBlocks(n) /\ n.content.blocks = again
  BY <1>2, <1>3 DEF HasBlocks
<1> QED BY <1>1, <1>2, <1>4 DEF MessageNames, n

LEMMA NamesOfTouched ==
  ASSUME ScalarsAreNoObjects, NEW b, "messages" \in Valued(b),
         \A k \in DOMAIN b.messages : BlocksAreNamed(b.messages[k]), NEW touched
  PROVE  AnthropicCallNames(AnthropicThrough(b, touched)) = CallNames("anthropic", b)
<1> DEFINE Plain(k) == Through(AnthropicMessage, b.messages[k])
           Touched(k) == IF k \in touched /\ HasBlocks(Plain(k)) THEN BlocksThrough(Plain(k))
                                                                ELSE Plain(k)
           got == AnthropicThrough(b, touched)
           read == AnthropicThrough(b, {})
<1>1. ASSUME NEW any
      PROVE  AnthropicThrough(b, any).messages = AnthropicMessagesThrough(b.messages, any)
  BY ValueAssumption
  DEF Valued, AnthropicThrough, Through, Unmarshal, Marshal, Written, Zero, MessagesRequest
<1>2. /\ got.messages = [k \in DOMAIN b.messages |-> Touched(k)]
      /\ read.messages = [k \in DOMAIN b.messages |-> Plain(k)]
  BY <1>1 DEF AnthropicMessagesThrough, Valued
<1>3. ASSUME NEW k \in DOMAIN b.messages
      PROVE  MessageNames(Touched(k)) = MessageNames(Plain(k))
  <2>1. Field(Plain(k), "content") = Field(b.messages[k], "content")
    BY FieldsOfMessage, "anthropic" # "openai" DEF MessageRead
  <2>2. BlocksAreNamed(Plain(k))
    BY <2>1 DEF BlocksAreNamed
  <2> HIDE DEF Plain
  <2> QED BY <2>2, NamesOfRewritten
<1>4. Range(got.messages) = {Touched(k) : k \in DOMAIN b.messages}
      /\ Range(read.messages) = {Plain(k) : k \in DOMAIN b.messages}
  <2> HIDE DEF Touched, Plain, got, read
  <2> QED BY <1>2 DEF Range
<1> HIDE DEF Touched, Plain
<1>5. AnthropicCallNames(got) = UNION {MessageNames(m) : m \in Range(got.messages)}
      /\ AnthropicCallNames(read) = UNION {MessageNames(m) : m \in Range(read.messages)}
  BY NamesOfMessages
<1>6. AnthropicCallNames(got) = AnthropicCallNames(read)
  <2> HIDE DEF got, read
  <2>1. ASSUME NEW name \in AnthropicCallNames(got) PROVE name \in AnthropicCallNames(read)
    BY <1>3, <1>4, <1>5
  <2>2. ASSUME NEW name \in AnthropicCallNames(read) PROVE name \in AnthropicCallNames(got)
    BY <1>3, <1>4, <1>5
  <2> QED BY <2>1, <2>2
<1> QED BY <1>6 DEF CallNames, Read

\* The names of an entry of the recording, from what has been sent and from what the
\* handler has passed on.
NamesKept(entry) ==
  entry.sent # Garbled => NamesSent(entry) = CallNames(entry.opening.api, entry.sent)

LEMMA NamesGrow ==
  ASSUME ScalarsAreNoObjects, NEW o \in Openings, NEW b, TurnOf(o, b),
         NEW more \in Additions[o.api], NEW tools \in ToolLists[o.api]
  PROVE  CallNames(o.api, b) \subseteq CallNames(o.api, Longer(b, more, tools))
<1> DEFINE longer == Longer(b, more, tools)
           api == o.api
           S == Messages(api)
<1>1. TurnOf(o, longer)
  BY NextTurn
<1>2. "messages" \in Valued(b) /\ "messages" \in Valued(longer)
  BY <1>1, TurnIsRequest
<1>3. more \in Seq(S) /\ b.messages \in Seq(S)
  BY WireAssumption, RequestAssumption DEF TurnOf
<1> HIDE DEF S
<1>4. longer.messages = b.messages \o more
  BY DEF Longer, Valued, TurnOf
<1>5. /\ DOMAIN b.messages \subseteq DOMAIN longer.messages
      /\ \A k \in DOMAIN b.messages : longer.messages[k] = b.messages[k]
  BY <1>3, <1>4
<1> HIDE DEF longer
<1>6. Range(Read(api, b).messages) \subseteq Range(Read(api, longer).messages)
  <2>1. Read(api, b).messages = [k \in DOMAIN b.messages |-> MessageRead(api, b.messages[k])]
    BY <1>2, MessagesOfRequest
  <2>2. Read(api, longer).messages =
          [k \in DOMAIN longer.messages |-> MessageRead(api, longer.messages[k])]
    BY <1>2, MessagesOfRequest
  <2> QED BY <1>5, <2>1, <2>2 DEF Range
<1>7. ChatCallNames(Read(api, b)) \subseteq ChatCallNames(Read(api, longer))
      /\ AnthropicCallNames(Read(api, b)) \subseteq AnthropicCallNames(Read(api, longer))
  BY <1>6, NamesOfMore
<1> QED BY <1>7 DEF CallNames, longer

------------------------------------------------------------------------------
(* What a conversation is known by.                                        *)

SessionOf(c) == IF header[c] # NoHeader THEN header[c] ELSE OpeningId(opening[c])

\* All requests of a conversation have gone to one session, and the last one is the
\* request that it has sent last.
Followed(c) ==
  IF opening[c] = NotBegun
    THEN Requests(c) = {}
    ELSE \E first, last \in Requests(c) :
           /\ \A j \in Requests(c) :
                first <= j /\ j <= last /\ recording[j].id = SessionOf(c)
           /\ recording[last].sent = body[c] /\ recording[last].opening = opening[c]

FollowInv ==
  /\ CountInv
  /\ \A c \in Conversations : Followed(c)
  /\ \A i \in DOMAIN recording : NamesKept(recording[i])

LEMMA RequestsAreLines ==
  ASSUME ConversationInv, NEW c
  PROVE  Requests(c) \subseteq Nat
<1>1. DOMAIN recording \subseteq Nat
  BY DEF ConversationInv
<1> QED BY <1>1 DEF Requests, Parsed

\* What the contract sees of the conversations.
KeySeen == [c \in Conversations |-> IF opening[c] = NotBegun THEN NoHeader ELSE SessionOf(c)]

ToldSeen ==
  [c \in Conversations |->
     IF opening[c] = NotBegun THEN {} ELSE CallNames(opening[c].api, body[c])]

LEMMA SeenOfConversation == FollowInv => Key = KeySeen /\ Told = ToldSeen
<1> SUFFICES ASSUME FollowInv, NEW c \in Conversations
             PROVE  /\ (IF Requests(c) = {} THEN NoHeader ELSE recording[FirstOf(c)].id) =
                         IF opening[c] = NotBegun THEN NoHeader ELSE SessionOf(c)
                    /\ (IF Requests(c) = {} THEN {} ELSE NamesSent(recording[LastOf(c)])) =
                         IF opening[c] = NotBegun THEN {} ELSE CallNames(opening[c].api, body[c])
  BY DEF Key, Told, KeySeen, ToldSeen
<1>1. Followed(c) /\ Requests(c) \subseteq Nat
  BY RequestsAreLines DEF FollowInv, CountInv
<1>2. CASE opening[c] = NotBegun
  BY <1>1, <1>2 DEF Followed
<1>3. CASE opening[c] # NotBegun
  <2>1. PICK first \in Requests(c), last \in Requests(c) :
          /\ \A j \in Requests(c) : first <= j /\ j <= last /\ recording[j].id = SessionOf(c)
          /\ recording[last].sent = body[c] /\ recording[last].opening = opening[c]
    BY <1>1, <1>3 DEF Followed
  <2>2. FirstOf(c) \in Requests(c)
    BY <2>1 DEF FirstOf
  <2>3. LastOf(c) \in Requests(c) /\ \A j \in Requests(c) : j <= LastOf(c)
    BY <2>1 DEF LastOf
  <2>4. LastOf(c) = last
    BY <1>1, <2>1, <2>3
  <2>5. NamesKept(recording[last]) /\ recording[last].sent # Garbled
    BY DEF FollowInv, Requests, Parsed
  <2>6. NamesSent(recording[last]) = CallNames(opening[c].api, body[c])
    BY <2>1, <2>5 DEF NamesKept
  <2> QED BY <1>3, <2>1, <2>2, <2>4, <2>6
<1> QED BY <1>2, <1>3

LEMMA SeenAfter == FollowInv' => Key' = KeySeen' /\ Told' = ToldSeen'
<1>1. FollowInv => Key = KeySeen /\ Told = ToldSeen
  BY SeenOfConversation
<1>2. FollowInv' => (Key = KeySeen /\ Told = ToldSeen)'
  BY <1>1, PTL
<1> QED BY <1>2

------------------------------------------------------------------------------
(* A turn.                                                                 *)

\* A turn adds its request to the recording, and to the session of its conversation.
LEMMA TurnRecorded ==
  ASSUME ScalarsAreNoObjects, ConversationInv, NEW c \in Conversations, Begin(c) \/ Continue(c)
  PROVE  /\ Len(recording) \in Nat
         /\ DOMAIN recording = 1 .. Len(recording)
         /\ DOMAIN recording' = 1 .. Len(recording) + 1
         /\ \A i \in 1 .. Len(recording) : recording'[i] = recording[i]
         /\ LET entry == recording'[Len(recording) + 1]
            IN  /\ entry.conversation = c /\ entry.opening = opening'[c]
                /\ entry.sent = body'[c] /\ entry.sent # Garbled
                /\ entry.id = SessionOf(c)'
         /\ \E hit \in BOOLEAN :
              sessions' = Put(sessions, SessionOf(c)', RecordCacheHit(
                ObserveToolCalls(Get(sessions, SessionOf(c)'),
                                 CallNames(opening'[c].api, body'[c])), hit))
<1>1. PICK got, id : \E hit \in Hits : Handled(c, got, id, hit)
  BY HandledEntry DEF Begin, Continue
<1>2. PICK hit \in Hits : Handled(c, got, id, hit)
  BY <1>1
<1> DEFINE entry == [ conversation |-> c, opening |-> opening'[c], header |-> header'[c],
                      sent |-> body'[c], got |-> got, id |-> id ]
<1>3. /\ opening'[c] \in Openings /\ TurnOf(opening'[c], body'[c])
      /\ hit \in BOOLEAN
  BY TurnTaken, WireAssumption
<1>4. body'[c] # Garbled
  <2>1. body'[c] = [f \in DOMAIN body'[c] |-> body'[c][f]]
    BY <1>3 DEF TurnOf
  <2> QED BY <2>1 DEF ScalarsAreNoObjects
<1>5. id = SessionOf(c)'
  <2>1. IDForRequest(Read(opening'[c].api, body'[c])) = OpeningId(opening'[c])
    BY <1>3, SessionOfTurn
  <2> QED BY <1>2, <2>1 DEF Handled, IDFor, SessionOf
<1>6. recording' = Append(recording, entry) /\ \E S : recording \in Seq(S)
  BY <1>2 DEF Handled, ConversationInv
<1>7. /\ entry.conversation = c /\ entry.opening = opening'[c]
      /\ entry.sent = body'[c] /\ entry.id = id
  OBVIOUS
<1> HIDE DEF entry
<1>8. /\ Len(recording) \in Nat /\ DOMAIN recording = 1 .. Len(recording)
      /\ DOMAIN recording' = 1 .. Len(recording) + 1
      /\ recording'[Len(recording) + 1] = entry
      /\ \A i \in 1 .. Len(recording) : recording'[i] = recording[i]
  BY <1>6, Appended
<1>9. sessions' = Put(sessions, id, RecordCacheHit(
        ObserveToolCalls(Get(sessions, id), CallNames(opening'[c].api, body'[c])), hit))
  BY <1>2 DEF Handled
<1> QED BY <1>3, <1>4, <1>5, <1>7, <1>8, <1>9

\* Tool calls of Anthropic messages that clients send back are named.
CallsAreNamed == \A m \in Messages("anthropic") : BlocksAreNamed(m)

LEMMA TurnNamesKept ==
  ASSUME ScalarsAreNoObjects, CallsAreNamed, ConversationInv, NEW c \in Conversations,
         Begin(c) \/ Continue(c)
  PROVE  NamesKept(recording'[Len(recording) + 1])
<1> DEFINE entry == recording'[Len(recording) + 1]
           api == opening'[c].api
           b == body'[c]
<1>1. entry.opening = opening'[c] /\ entry.sent = b /\ \E S : recording \in Seq(S)
  BY TurnRecorded DEF ConversationInv
<1>2. /\ opening'[c] \in Openings /\ TurnOf(opening'[c], b)
      /\ "messages" \in Valued(b)
      /\ \A k \in DOMAIN b.messages : b.messages[k] \in Messages(api)
  BY TurnTaken, TurnIsRequest
<1>3. api \in {"openai", "anthropic"}
  BY <1>2, WireAssumption
<1>4. ASSUME NEW got, NEW id, Record(c, got, id) PROVE entry.got = got
  <2> DEFINE line1 == [ conversation |-> c, opening |-> opening'[c], header |-> header'[c],
                        sent |-> body'[c], got |-> got, id |-> id ]
  <2>1. recording' = Append(recording, line1) /\ line1.got = got
    BY <1>4 DEF Record
  <2> HIDE DEF line1
  <2> QED BY <1>1, <2>1, Appended
<1>5. Handle(c)
  BY DEF Begin, Continue
<1>6. CASE api = "openai"
  <2>1. HandleChatCompletions(c, b)
    BY <1>5, <1>6 DEF Handle
  <2>2. \E id : Record(c, ChatThrough(b), id)
    BY <2>1 DEF HandleChatCompletions
  <2>3. entry.got = ChatThrough(b)
    BY <1>4, <2>2
  <2> HIDE DEF entry, api, b
  <2> QED BY <1>1, <1>6, <2>3 DEF NamesKept, NamesSent, CallNames, Read, api, b, entry
<1>7. CASE api = "anthropic"
  <2>1. HandleAnthropicMessages(c, b)
    BY <1>5, <1>7 DEF Handle
  <2>2. \E touched, id : Record(c, AnthropicThrough(b, touched), id)
    BY <2>1 DEF HandleAnthropicMessages
  <2>3. PICK touched : entry.got = AnthropicThrough(b, touched)
    BY <1>4, <2>2
  <2>4. \A k \in DOMAIN b.messages : BlocksAreNamed(b.messages[k])
    BY <1>2, <1>7 DEF CallsAreNamed
  <2> HIDE DEF b
  <2>5. AnthropicCallNames(AnthropicThrough(b, touched)) = CallNames("anthropic", b)
    BY <1>2, <2>4, NamesOfTouched
  <2> QED BY <1>1, <1>7, <2>3, <2>5 DEF NamesKept, NamesSent
<1> QED BY <1>3, <1>6, <1>7

LEMMA RequestsAfterTurn ==
  ASSUME ScalarsAreNoObjects, ConversationInv, NEW c \in Conversations, Begin(c) \/ Continue(c)
  PROVE  /\ Requests(c)' = Requests(c) \cup {Len(recording) + 1}
         /\ \A d \in Conversations \ {c} : Requests(d)' = Requests(d)
<1> DEFINE n == Len(recording)
<1>1. /\ n \in Nat /\ DOMAIN recording = 1 .. n /\ DOMAIN recording' = 1 .. n + 1
      /\ \A i \in 1 .. n : recording'[i] = recording[i]
      /\ recording'[n + 1].conversation = c /\ recording'[n + 1].sent # Garbled
  BY TurnRecorded
<1> HIDE DEF n
<1>2. DOMAIN recording' = DOMAIN recording \cup {n + 1} /\ n + 1 \notin DOMAIN recording
  BY <1>1
<1>3. ASSUME NEW d
      PROVE  Requests(d)' = {i \in DOMAIN recording' :
                               recording'[i].sent # Garbled /\ recording'[i].conversation = d}
  BY DEF Requests, Parsed
<1>4. ASSUME NEW d
      PROVE  Requests(d) = {i \in DOMAIN recording :
                              recording[i].sent # Garbled /\ recording[i].conversation = d}
  BY DEF Requests, Parsed
<1>5. Requests(c)' = Requests(c) \cup {n + 1}
  BY <1>1, <1>2, <1>3, <1>4
<1>6. ASSUME NEW d \in Conversations \ {c} PROVE Requests(d)' = Requests(d)
  BY <1>1, <1>2, <1>3, <1>4
<1> QED BY <1>5, <1>6 DEF n

LEMMA OthersAreLeft ==
  ASSUME ScalarsAreNoObjects, ConversationInv, NEW c \in Conversations, Begin(c) \/ Continue(c)
  PROVE  /\ \A d \in Conversations \ {c} :
              /\ opening'[d] = opening[d] /\ body'[d] = body[d]
              /\ SessionOf(d)' = SessionOf(d)
         /\ opening'[c] # NotBegun
         /\ Continue(c) => opening'[c] = opening[c] /\ SessionOf(c)' = SessionOf(c)
<1>1. \A d \in Conversations \ {c} :
        header'[d] = header[d] /\ opening'[d] = opening[d] /\ body'[d] = body[d]
  <2>1. \A d \in Conversations \ {c} : header'[d] = header[d]
    BY DEF Begin, Continue, ConversationInv
  <2> QED BY <2>1, TurnTaken
<1>2. opening'[c] # NotBegun
  <2>1. opening'[c] \in Openings
    BY TurnTaken
  <2> QED BY <2>1, WireAssumption
<1>3. Continue(c) => opening' = opening /\ header' = header
  BY DEF Continue
<1> QED BY <1>1, <1>2, <1>3 DEF SessionOf

\* A conversation to which nothing happens.
LEMMA StaysFollowed ==
  ASSUME NEW d, Followed(d), Requests(d)' = Requests(d),
         \A i \in Requests(d) : recording'[i] = recording[i],
         opening'[d] = opening[d], body'[d] = body[d], SessionOf(d)' = SessionOf(d)
  PROVE  Followed(d)'
<1>1. CASE opening[d] = NotBegun
  BY <1>1 DEF Followed
<1>2. CASE opening[d] # NotBegun
  <2>1. PICK first \in Requests(d), last \in Requests(d) :
          /\ \A j \in Requests(d) :
               first <= j /\ j <= last /\ recording[j].id = SessionOf(d)
          /\ recording[last].sent = body[d] /\ recording[last].opening = opening[d]
    BY <1>2 DEF Followed
  <2>2. /\ \A j \in Requests(d)' :
             first <= j /\ j <= last /\ recording'[j].id = SessionOf(d)'
        /\ recording'[last].sent = body'[d] /\ recording'[last].opening = opening'[d]
        /\ first \in Requests(d)' /\ last \in Requests(d)'
    BY <2>1
  <2> QED BY <1>2, <2>2 DEF Followed
<1> QED BY <1>1, <1>2

LEMMA TurnIsFollowed ==
  ASSUME ScalarsAreNoObjects, ConversationInv, \A d \in Conversations : Followed(d),
         NEW c \in Conversations, Begin(c) \/ Continue(c), NEW d \in Conversations
  PROVE  Followed(d)'
<1> DEFINE n == Len(recording)
<1>1. /\ n \in Nat /\ DOMAIN recording = 1 .. n
      /\ \A i \in 1 .. n : recording'[i] = recording[i]
      /\ recording'[n + 1].opening = opening'[c] /\ recording'[n + 1].sent = body'[c]
      /\ recording'[n + 1].id = SessionOf(c)'
  BY TurnRecorded
<1>2. /\ Requests(c)' = Requests(c) \cup {n + 1}
      /\ d # c => Requests(d)' = Requests(d)
  BY RequestsAfterTurn
<1> HIDE DEF n
<1>3. \A e : Requests(e) \subseteq 1 .. n
  BY <1>1 DEF Requests, Parsed
<1>4. CASE d # c
  <2>1. /\ opening'[d] = opening[d] /\ body'[d] = body[d] /\ SessionOf(d)' = SessionOf(d)
        /\ Followed(d)
    BY <1>4, OthersAreLeft
  <2>2. \A i \in Requests(d) : recording'[i] = recording[i]
    BY <1>1, <1>3
  <2> QED BY <1>2, <1>4, <2>1, <2>2, StaysFollowed
<1>5. CASE d = c
  <2>1. opening'[c] # NotBegun /\ n + 1 \in Requests(c)'
    BY <1>2, OthersAreLeft
  <2>2. CASE Begin(c)
    <3>1. Requests(c)' = {n + 1}
      BY <1>2, <2>2 DEF Begin, Followed
    <3> QED BY <1>1, <1>5, <2>1, <3>1 DEF Followed
  <2>3. CASE Continue(c)
    <3>1. SessionOf(c)' = SessionOf(c) /\ opening[c] # NotBegun
      BY <2>3, OthersAreLeft DEF Continue
    <3>2. PICK first \in Requests(c), last \in Requests(c) :
            \A j \in Requests(c) : first <= j /\ j <= last /\ recording[j].id = SessionOf(c)
      BY <3>1 DEF Followed
    <3>3. \A j \in Requests(c)' :
            first <= j /\ j <= n + 1 /\ recording'[j].id = SessionOf(c)'
      BY <1>1, <1>2, <1>3, <3>1, <3>2
    <3>4. first \in Requests(c)'
      BY <1>2
    <3> QED BY <1>1, <1>5, <2>1, <3>3, <3>4 DEF Followed
  <2> QED BY <2>2, <2>3
<1> QED BY <1>4, <1>5

LEMMA TurnKeepsFollow ==
  ASSUME ScalarsAreNoObjects, CallsAreNamed, FollowInv, NEW c \in Conversations,
         Begin(c) \/ Continue(c)
  PROVE  FollowInv'
<1>1. ConversationInv /\ CountInv'
  BY TurnIsCounted DEF FollowInv, CountInv
<1>2. \A d \in Conversations : Followed(d)'
  BY <1>1, TurnIsFollowed DEF FollowInv
<1>3. ASSUME NEW i \in DOMAIN recording' PROVE NamesKept(recording'[i])
  <2>1. /\ Len(recording) \in Nat /\ DOMAIN recording = 1 .. Len(recording)
        /\ DOMAIN recording' = 1 .. Len(recording) + 1
        /\ \A k \in 1 .. Len(recording) : recording'[k] = recording[k]
    BY <1>1, TurnRecorded
  <2>2. CASE i \in 1 .. Len(recording)
    BY <2>1, <2>2 DEF FollowInv
  <2>3. CASE i = Len(recording) + 1
    BY <1>1, <2>3, TurnNamesKept
  <2> QED BY <2>1, <2>2, <2>3
<1> QED BY <1>1, <1>2, <1>3 DEF FollowInv

\* A body that does not parse is no request of its conversation.
LEMMA PassKeepsFollow ==
  ASSUME FollowInv, CountInv', NEW c \in Conversations, PassThrough(c)
  PROVE  FollowInv'
<1> DEFINE n == Len(recording)
           entry == [ conversation |-> c, opening |-> opening[c], header |-> header[c],
                      sent |-> Garbled, got |-> Garbled, id |-> NoHeader ]
<1>1. /\ recording' = Append(recording, entry) /\ entry.sent = Garbled
      /\ \E S : recording \in Seq(S)
      /\ UNCHANGED <<opening, body, header>>
  BY DEF PassThrough, FollowInv, CountInv, ConversationInv
<1> HIDE DEF entry
<1>2. /\ n \in Nat /\ DOMAIN recording = 1 .. n /\ DOMAIN recording' = 1 .. n + 1
      /\ recording'[n + 1] = entry /\ \A i \in 1 .. n : recording'[i] = recording[i]
  BY <1>1, Appended
<1> HIDE DEF n
<1>3. ASSUME NEW d \in Conversations PROVE Followed(d)'
  <2>1. Requests(d)' = {i \in DOMAIN recording' :
                          recording'[i].sent # Garbled /\ recording'[i].conversation = d}
    BY DEF Requests, Parsed
  <2>2. Requests(d) = {i \in DOMAIN recording :
                          recording[i].sent # Garbled /\ recording[i].conversation = d}
    BY DEF Requests, Parsed
  <2>3. Requests(d)' = Requests(d) /\ Requests(d) \subseteq 1 .. n
    BY <1>1, <1>2, <2>1, <2>2
  <2>4. \A i \in Requests(d) : recording'[i] = recording[i]
    BY <1>2, <2>3
  <2>5. Followed(d) /\ SessionOf(d)' = SessionOf(d)
    BY <1>1 DEF FollowInv, SessionOf
  <2> QED BY <1>1, <2>3, <2>4, <2>5, StaysFollowed
<1>4. ASSUME NEW i \in DOMAIN recording' PROVE NamesKept(recording'[i])
  <2>1. CASE i \in 1 .. n
    BY <1>2, <2>1 DEF FollowInv
  <2>2. CASE i = n + 1
    BY <1>1, <1>2, <2>2 DEF NamesKept
  <2> QED BY <1>2, <2>1, <2>2
<1> QED BY <1>3, <1>4 DEF FollowInv

LEMMA InitFollow == Init => FollowInv
<1> SUFFICES ASSUME Init PROVE FollowInv
  OBVIOUS
<1>1. recording = << >> /\ \A c \in Conversations : opening[c] = NotBegun
  BY DEF Init
<1>2. \A c \in Conversations : Followed(c)
  BY <1>1 DEF Followed, Requests, Parsed
<1>3. \A i \in DOMAIN recording : NamesKept(recording[i])
  BY <1>1
<1> QED BY <1>2, <1>3, InitCount DEF FollowInv

LEMMA StepFollow ==
  ASSUME ScalarsAreNoObjects, CallsAreNamed, FollowInv, [Next]_vars
  PROVE  FollowInv'
<1>1. CountInv'
  BY StepCount DEF FollowInv
<1>2. CASE UNCHANGED <<opening, body, header, recording>>
  BY <1>1, <1>2
  DEF FollowInv, Followed, Requests, Parsed, SessionOf, NamesKept, NamesSent
<1>3. CASE ReplayLine \/ UNCHANGED vars
  BY <1>2, <1>3 DEF ReplayLine, vars
<1> QED BY <1>1, <1>3, TurnKeepsFollow, PassKeepsFollow DEF Next

------------------------------------------------------------------------------
(* Steps of the proxy as steps of the contract.                            *)

\* The ledgers after a request.
Entered(id, names, hit) ==
  [k \in DOMAIN Ledger \cup {id} |->
     IF k = id THEN [ turns |-> Contract!LedgerOf(k).turns + 1,
                      called |-> Contract!LedgerOf(k).called \cup names,
                      hit |-> hit ]
               ELSE Ledger[k]]

\* A request enters the account of its session, and no other.
LEMMA PutOfAccount ==
  ASSUME CountInv, NEW id, NEW names, NEW hit \in BOOLEAN,
         sessions' = Put(sessions, id,
                         RecordCacheHit(ObserveToolCalls(Get(sessions, id), names), hit))
  PROVE  Ledger' = Entered(id, names, hit)
<1> DEFINE s == Get(sessions, id)
           t == RecordCacheHit(ObserveToolCalls(s, names), hit)
<1>1. s = [f \in SessionFields |-> s[f]]
  <2>1. Seen(s, {i \in Live(recording, Len(recording)) : IdsOf(recording)[i] = id},
             NamesOf(recording))
    BY SeenOfGet DEF CountInv
  <2> HIDE DEF s
  <2> QED BY <2>1 DEF Seen
<1>2. Account(t) = [turns |-> s.turns + 1, called |-> s.toolsUsed \cup names, hit |-> hit]
  <2> HIDE DEF s
  <2>1. t.turns = s.turns + 1 /\ t.toolsUsed = s.toolsUsed \cup names /\ t.lastCacheHit = hit
    BY <1>1 DEF RecordCacheHit, ObserveToolCalls, SessionFields
  <2> QED BY <2>1 DEF Account
<1>3. Contract!LedgerOf(id) = Account(s)
  BY DEF Contract!LedgerOf, Contract!NewLedger, Ledger, Account, Get, NewSession
<1>4. /\ Contract!LedgerOf(id).turns = s.turns
      /\ Contract!LedgerOf(id).called = s.toolsUsed
  BY <1>3 DEF Account
<1> HIDE DEF s, t
<1>5. sessions' = [i \in DOMAIN sessions \cup {id} |-> IF i = id THEN t ELSE sessions[i]]
  BY DEF Put, s, t
<1>6. DOMAIN sessions' = DOMAIN sessions \cup {id}
      /\ \A k \in DOMAIN sessions' : sessions'[k] = IF k = id THEN t ELSE sessions[k]
  BY <1>5
<1>7. Ledger' = [k \in DOMAIN sessions \cup {id} |->
                  IF k = id THEN Account(t) ELSE Account(sessions[k])]
  BY <1>6 DEF Ledger, Account
<1>8. DOMAIN Ledger = DOMAIN sessions
      /\ \A k \in DOMAIN sessions : Ledger[k] = Account(sessions[k])
  BY DEF Ledger
<1> QED BY <1>2, <1>4, <1>7, <1>8 DEF Entered

LEMMA TurnTakes ==
  ASSUME ScalarsAreNoObjects, FollowInv, FollowInv', NEW c \in Conversations,
         Begin(c) \/ Continue(c)
  PROVE  Contract!Take(c)
<1>1. ConversationInv /\ CountInv
  BY DEF FollowInv, CountInv
<1>2. Key = KeySeen /\ Told = ToldSeen /\ Key' = KeySeen' /\ Told' = ToldSeen'
  BY SeenOfConversation, SeenAfter
<1>3. /\ \A d \in Conversations \ {c} : opening'[d] = opening[d] /\ body'[d] = body[d]
      /\ opening'[c] # NotBegun
  BY <1>1, OthersAreLeft
<1>4. /\ Key'[c] = SessionOf(c)' /\ Told'[c] = CallNames(opening'[c].api, body'[c])
      /\ \A d \in Conversations \ {c} : Told'[d] = Told[d]
      /\ Told = [d \in Conversations |-> Told[d]]
      /\ Told' = [d \in Conversations |-> Told'[d]]
  BY <1>2, <1>3 DEF KeySeen, ToldSeen
<1>5. Told[c] \subseteq Told'[c]
  <2>1. CASE opening[c] = NotBegun
    BY <1>2, <2>1 DEF ToldSeen
  <2>2. CASE opening[c] # NotBegun
    <3> DEFINE o == opening[c]
               b == body[c]
    <3>1. Continue(c) /\ opening' = opening
      BY <2>2 DEF Begin, Continue
    <3>2. PICK more \in Additions[o.api], tools \in ToolLists[o.api] :
            body' = [body EXCEPT ![c].messages = @ \o more, ![c].tools = tools]
      BY <3>1 DEF Continue
    <3>3. body'[c] = Longer(b, more, tools) /\ o \in Openings /\ TurnOf(o, b)
      BY <1>1, <2>2, <3>2 DEF ConversationInv, Longer
    <3> HIDE DEF o, b
    <3>4. CallNames(o.api, b) \subseteq CallNames(o.api, body'[c])
      BY <3>2, <3>3, NamesGrow
    <3>5. Told[c] = CallNames(o.api, b) /\ opening'[c] = o
      BY <1>2, <2>2, <3>1 DEF ToldSeen, o, b
    <3> QED BY <1>4, <3>4, <3>5
  <2> QED BY <2>1, <2>2
<1>6. Told' = [Told EXCEPT ![c] = Told'[c]]
  BY <1>4
<1>7. PICK hit \in BOOLEAN :
        sessions' = Put(sessions, SessionOf(c)', RecordCacheHit(
          ObserveToolCalls(Get(sessions, SessionOf(c)'),
                           CallNames(opening'[c].api, body'[c])), hit))
  BY <1>1, TurnRecorded
<1>8. PICK id, names : id = Key'[c] /\ names = Told'[c]
  OBVIOUS
<1>9. sessions' = Put(sessions, id,
                      RecordCacheHit(ObserveToolCalls(Get(sessions, id), names), hit))
  BY <1>4, <1>7, <1>8
<1>10. Ledger' = Entered(id, names, hit)
  BY <1>1, <1>9, PutOfAccount
<1> QED BY <1>5, <1>6, <1>8, <1>10 DEF Contract!Take, Entered

LEMMA TurnSim ==
  ASSUME ScalarsAreNoObjects, \A o \in Openings : OpeningId(o) # NoHeader,
         FollowInv, FollowInv', NEW c \in Conversations, Begin(c) \/ Continue(c)
  PROVE  Contract!Begin(c) \/ Contract!Continue(c)
<1>1. ConversationInv
  BY DEF FollowInv, CountInv
<1>2. Key = KeySeen /\ Key' = KeySeen' /\ Contract!Take(c)
  BY SeenOfConversation, SeenAfter, TurnTakes
<1>3. /\ \A d \in Conversations \ {c} :
           opening'[d] = opening[d] /\ SessionOf(d)' = SessionOf(d)
      /\ opening'[c] \in Openings /\ opening'[c] # NotBegun
      /\ Continue(c) => opening'[c] = opening[c] /\ SessionOf(c)' = SessionOf(c)
  BY <1>1, OthersAreLeft, TurnTaken
<1>4. /\ Key = [d \in Conversations |-> Key[d]] /\ Key' = [d \in Conversations |-> Key'[d]]
      /\ \A d \in Conversations \ {c} : Key'[d] = Key[d]
      /\ Continue(c) => Key'[c] = Key[c]
  BY <1>2, <1>3 DEF KeySeen
<1>5. Key'[c] # NoHeader
  BY <1>2, <1>3 DEF KeySeen, SessionOf
<1>6. CASE Begin(c)
  <2>1. Key[c] = NoHeader
    BY <1>2, <1>6 DEF Begin, KeySeen
  <2>2. Key' = [Key EXCEPT ![c] = Key'[c]]
    BY <1>4
  <2> QED BY <1>2, <1>5, <2>1, <2>2 DEF Contract!Begin
<1>7. CASE Continue(c)
  <2>1. Key' = Key
    BY <1>4, <1>7
  <2> QED BY <1>2, <1>5, <2>1 DEF Contract!Continue
<1> QED BY <1>6, <1>7

\* What does not parse, and what replay reads, is nothing to the contract.
LEMMA QuietSim ==
  ASSUME FollowInv, FollowInv', UNCHANGED <<opening, body, header, sessions>>
  PROVE  UNCHANGED <<Key, Told, Ledger>>
<1>1. Key = KeySeen /\ Told = ToldSeen /\ Key' = KeySeen' /\ Told' = ToldSeen'
  BY SeenOfConversation, SeenAfter
<1>2. KeySeen' = KeySeen /\ ToldSeen' = ToldSeen
  BY DEF KeySeen, ToldSeen, SessionOf
<1>3. Ledger' = Ledger
  BY DEF Ledger
<1> QED BY <1>1, <1>2, <1>3

\* Begun with no sessions, the contract has begun too.
LEMMA InitSim == Init => Contract!Init
<1> SUFFICES ASSUME Init PROVE Contract!Init
  OBVIOUS
<1>1. FollowInv
  BY InitFollow
<1>2. Key = KeySeen /\ Told = ToldSeen
  BY <1>1, SeenOfConversation
<1>3. Key = [c \in Conversations |-> NoHeader] /\ Told = [c \in Conversations |-> {}]
  BY <1>2 DEF Init, KeySeen, ToldSeen
<1>4. Ledger = [k \in {} |-> Contract!NewLedger]
  BY DEF Init, Ledger
<1> QED BY <1>3, <1>4 DEF Contract!Init

\* Handlers keep the ledgers that the contract speaks of, whatever clients put in their
\* requests and whatever headers they send: each request is counted once, with all that
\* has been called in its conversation, and in the session of its first request; bodies
\* that do not parse, other conversations and a replay of the recording leave it alone.
THEOREM WireKeepsLedgers ==
  ASSUME ScalarsAreNoObjects, CallsAreNamed,
         \A o \in Openings : OpeningId(o) # NoHeader
  PROVE  Spec => KeepsLedgers
<1>1. FollowInv /\ [Next]_vars => FollowInv'
  BY StepFollow
<1>2. ASSUME FollowInv, FollowInv', [Next]_vars
      PROVE  [Contract!Next]_<<Key, Told, Ledger>>
  <2>1. ASSUME NEW c \in Conversations, Begin(c) \/ Continue(c)
        PROVE  Contract!Next
    BY <1>2, <2>1, TurnSim DEF Contract!Next
  <2>2. CASE UNCHANGED <<opening, body, header, sessions>>
    BY <1>2, <2>2, QuietSim
  <2> QED BY <1>2, <2>1, <2>2 DEF Next, PassThrough, ReplayLine, vars
<1> QED BY InitFollow, InitSim, <1>1, <1>2, PTL
  DEF Spec, KeepsLedgers, Contract!Spec, Contract!contractVars

==============================================================================
