------------------------------- MODULE History -------------------------------
(***************************************************************************)
(* What the pipelines do to the messages of a growing conversation:        *)
(* repeated_tool_calls, dedupe_tool_results and compact_history, in the    *)
(* order of Pipeline.Apply, in the dialect of OpenAI (package pipeline,    *)
(* one result per message) and of Anthropic (package anthropic, results as *)
(* blocks of one message).  The client sends its whole original history    *)
(* with every turn; the proxy rewrites it afresh each time.                *)
(*                                                                         *)
(* A message is a role and a sequence of parts: text, a tool use, or a     *)
(* tool result.  What a text or result says is a content, known by what    *)
(* the passes can tell apart: whether it is a plain string, whether        *)
(* whitespace cleanup changes it, whether it is over the truncation        *)
(* threshold, and its encoded size as sent, cleaned and truncated.  The    *)
(* bytes of a part are its content and its form.                           *)
(***************************************************************************)
EXTENDS Naturals, SequencesExt

CONSTANTS
  Apis,            \* dialects to check: a subset of {"openai", "anthropic"}
  Signatures,      \* function name and arguments of a tool call
  Contents,        \* contents of texts and tool outputs
  Orphans,         \* contents of results whose call the client has dropped
  RecencyWindow,   \* recencyWindow, 6 in the code
  StubBytes,       \* encoded size of the deduplication stub
  MaxMessages      \* bound: length of the conversation

ContentForms ==
  [ id : STRING, plain : BOOLEAN, messy : BOOLEAN, long : BOOLEAN,
    raw : Nat, clean : Nat, cut : Nat ]

ASSUME ParameterAssumption ==
  /\ Apis \subseteq {"openai", "anthropic"}
  /\ Contents \subseteq ContentForms
  /\ Orphans \subseteq Contents
  /\ RecencyWindow \in Nat /\ StubBytes \in Nat /\ MaxMessages \in Nat

VARIABLES
  api,        \* the endpoint this conversation uses
  history,    \* the messages as the client has them
  sent,       \* the messages of the last request as forwarded
  repeated    \* what repeated_tool_calls reported about it

vars == <<api, history, sent, repeated>>

Text(content) == [kind |-> "text", content |-> content, form |-> "original"]

Use(id, sig) == [kind |-> "use", id |-> id, sig |-> sig]

Result(id, content) ==
  [kind |-> "result", id |-> id, content |-> content, form |-> "original"]

\* Encoded size of what the passes may rewrite.
PartBytes(p) ==
  IF p.kind = "use" THEN 0
  ELSE CASE p.form = "original"  -> p.content.raw
         [] p.form = "cleaned"   -> p.content.clean
         [] p.form = "truncated" -> p.content.cut
         [] p.form = "stub"      -> StubBytes

MessageBytes(m) == FoldLeft(LAMBDA n, p : n + PartBytes(p), 0, m.parts)

Places(h) == UNION {{i} \X (1 .. Len(h[i].parts)) : i \in 1 .. Len(h)}

PartAt(h, at) == h[at[1]].parts[at[2]]

------------------------------------------------------------------------------
(* repeated_tool_calls: the signatures called more than once.              *)

Uses(h) == {at \in Places(h) : PartAt(h, at).kind = "use"}

UsesOf(h, sig) == {at \in Uses(h) : PartAt(h, at).sig = sig}

\* Variant: only the third call counts as a repetition.
RepeatedThrice(h) ==
  {[ sig |-> sig, occurrences |-> Cardinality(UsesOf(h, sig)) ] :
     sig \in {s \in Signatures : Cardinality(UsesOf(h, s)) > 2}}

RepeatedToolCalls(h) ==
  {[ sig |-> sig, occurrences |-> Cardinality(UsesOf(h, sig)) ] :
     sig \in {s \in Signatures : Cardinality(UsesOf(h, s)) >= 2}}

------------------------------------------------------------------------------
(* dedupe_tool_results.                                                    *)

\* hashByCallID, hashByToolUseID: the signature of every call in the history.
CallSignatures(h) ==
  LET signature(id) == PartAt(h, CHOOSE at \in Uses(h) : PartAt(h, at).id = id).sig
  IN  [id \in {PartAt(h, at).id : at \in Uses(h)} |-> signature(id)]

\* The results that answer a call of the history; the others are left alone.
IsAnswer(h, calls, at) ==
  PartAt(h, at).kind = "result" /\ PartAt(h, at).id \in DOMAIN calls

\* Variant: messages from the oldest to the newest.
OldestFirst(at, other) == at[1] < other[1] \/ (at[1] = other[1] /\ at[2] < other[2])

\* The order in which results are visited: messages from the newest to the
\* oldest, the blocks of a message from the first to the last.
VisitedBefore(at, other) == at[1] > other[1] \/ (at[1] = other[1] /\ at[2] < other[2])

\* What makes two results the same: the call and the bytes of the output.
DedupeKey(h, calls, at) ==
  <<calls[PartAt(h, at).id], PartAt(h, at).content, PartAt(h, at).form>>

\* The walk: the first sighting of a key stays, every later one is stubbed.
Stubbed(h) ==
  LET calls == CallSignatures(h)
      answers == {at \in Places(h) : IsAnswer(h, calls, at)}
  IN  {at \in answers : \E other \in answers :
         /\ VisitedBefore(other, at)
         /\ DedupeKey(h, calls, other) = DedupeKey(h, calls, at)}

DedupeToolResults(h) ==
  LET stubs == Stubbed(h)
  IN  [i \in DOMAIN h |-> [h[i] EXCEPT !.parts =
        [j \in DOMAIN @ |-> IF <<i, j>> \in stubs
                              THEN [@[j] EXCEPT !.form = "stub"] ELSE @[j]]]]

------------------------------------------------------------------------------
(* compact_history.                                                        *)

\* Cleanup of a text; cleanup and then head and tail of a tool result.  Parts
\* that are not plain strings stay, and a stub has nothing to clean.
CompactPart(p) ==
  IF p.kind = "use" \/ p.form = "stub" \/ ~p.content.plain THEN p
  ELSE IF p.kind = "result" /\ p.content.long THEN [p EXCEPT !.form = "truncated"]
  ELSE IF p.content.messy THEN [p EXCEPT !.form = "cleaned"]
  ELSE p

\* The rewriting of a message is dropped as a whole unless it gets smaller.
CompactMessage(m) ==
  LET compact == [m EXCEPT !.parts = [j \in DOMAIN @ |-> CompactPart(@[j])]]
  IN  IF MessageBytes(compact) >= MessageBytes(m) THEN m ELSE compact

\* Variants: one message too many; only the compacted messages are returned.
CompactOneMore(h) ==
  [i \in DOMAIN h |->
     IF i <= Len(h) + 1 - RecencyWindow THEN CompactMessage(h[i]) ELSE h[i]]

CompactTouchedOnly(h) ==
  IF Len(h) <= RecencyWindow THEN h
  ELSE [i \in 1 .. Len(h) - RecencyWindow |-> CompactMessage(h[i])]

CompactHistory(h) ==
  IF Len(h) <= RecencyWindow THEN h
  ELSE [i \in DOMAIN h |->
          IF i <= Len(h) - RecencyWindow THEN CompactMessage(h[i]) ELSE h[i]]

\* Variant: the passes the other way round.
ApplyCompactFirst(h) == DedupeToolResults(CompactHistory(h))

Apply(h) == CompactHistory(DedupeToolResults(h))

------------------------------------------------------------------------------
(* The conversation.                                                       *)

Message(role, parts) == [role |-> role, parts |-> parts]

\* A result whose call the client has already cut from its history.
Orphan(content) ==
  Message(IF api = "openai" THEN "tool" ELSE "user", <<Result(<<0, 1>>, content)>>)

Init ==
  /\ api \in Apis
  /\ history \in {<<>>} \cup {<<Orphan(content)>> : content \in Orphans}
  /\ sent = history
  /\ repeated = {}

\* A request with the messages so far and these.
Request(messages) ==
  /\ Len(history) + Len(messages) <= MaxMessages
  /\ history' = history \o messages
  /\ sent' = Apply(history')
  /\ repeated' = RepeatedToolCalls(history')
  /\ UNCHANGED api

\* The user says something.
Ask == \E content \in Contents : Request(<<Message("user", <<Text(content)>>)>>)

\* The calls of one assistant message, numbered by where they stand.
CallMessage(sigs) ==
  Message("assistant",
    [j \in DOMAIN sigs |-> Use(<<Len(history) + 1, j>>, sigs[j])])

Answers(contents) ==
  LET result(j) == Result(<<Len(history) + 1, j>>, contents[j])
  IN  IF api = "openai"
        THEN [j \in DOMAIN contents |-> Message("tool", <<result(j)>>)]
        ELSE <<Message("user", [j \in DOMAIN contents |-> result(j)])>>

\* The assistant makes one call, or two at once (bound), and the client answers.
CallTools ==
  \E n \in 1 .. 2 :
    \E sigs \in [1 .. n -> Signatures], contents \in [1 .. n -> Contents] :
      Request(<<CallMessage(sigs)>> \o Answers(contents))

\* No message fits within the bound.
Full == Len(history) = MaxMessages /\ UNCHANGED vars

Next == Ask \/ CallTools \/ Full

Spec == Init /\ [][Next]_vars

------------------------------------------------------------------------------
(* Properties.                                                             *)

FormAt(at) == PartAt(sent, at).form

Written(h) == {at \in Places(h) : PartAt(h, at).kind # "use"}

\* Rewriting keeps the messages, their roles, their parts and what each answers.
TypeOK ==
  /\ api \in Apis
  /\ Len(sent) = Len(history)
  /\ Places(sent) = Places(history)
  /\ \A i \in DOMAIN sent : sent[i].role = history[i].role
  /\ \A at \in Places(sent) :
       IF at \in Written(history)
         THEN /\ FormAt(at) \in {"original", "cleaned", "truncated", "stub"}
              /\ PartAt(sent, at) = [PartAt(history, at) EXCEPT !.form = FormAt(at)]
         ELSE PartAt(sent, at) = PartAt(history, at)

StubsSent == {at \in Written(sent) : FormAt(at) = "stub"}

\* The results that answer the same call with the same output, and those of them that
\* are still there.
Repeats(at) ==
  LET calls == CallSignatures(history)
      result == PartAt(history, at)
  IN  {other \in Written(sent) :
         /\ IsAnswer(history, calls, other)
         /\ calls[PartAt(history, other).id] = calls[result.id]
         /\ PartAt(history, other).content = result.content}

KeptTwins(at) == Repeats(at) \ StubsSent

\* What a stub stands for is kept in the latest message that has it, which in the
\* dialect of OpenAI comes after the stub, and is cut there only if it is long and the
\* message has left the recency window.
LatestRepeatStays ==
  \A at \in StubsSent : \E other \in KeptTwins(at) :
    /\ \A repeat \in Repeats(at) : repeat[1] <= other[1]
    /\ api = "openai" => other[1] > at[1]
    /\ FormAt(other) = "truncated" =>
         PartAt(sent, other).content.long /\ other[1] <= Len(sent) - RecencyWindow

\* The last recencyWindow messages lose nothing but outputs repeated later.
RecentOnlyStubbed ==
  \A at \in Written(sent) :
    at[1] > Len(sent) - RecencyWindow => FormAt(at) \in {"original", "stub"}

\* Whatever dedupe_tool_results stubs, repeated_tool_calls has reported.
StubsAreReported ==
  \A at \in StubsSent : \E call \in repeated :
    call.sig = CallSignatures(history)[PartAt(history, at).id]

Fullness(form) ==
  CASE form = "original" -> 3 [] form = "cleaned" -> 2
    [] form = "truncated" -> 1 [] form = "stub" -> 0

\* Over the turns of a conversation a stub stays a stub, and no part comes back to a
\* fuller form, so that what a provider has cached changes in one direction only.
\* The one exception: compaction weighs an Anthropic message as a whole, so a block
\* that becomes a stub can cost the other blocks of its message their compaction.
RewriteNeverUndone ==
  [][ \A at \in Written(sent) :
        LET now == PartAt(sent, at).form
            then == PartAt(sent', at).form
        IN  /\ now = "stub" => then = "stub"
            /\ Fullness(then) > Fullness(now) =>
                 /\ api = "anthropic"
                 /\ \E other \in Written(sent) :
                      /\ other[1] = at[1]
                      /\ PartAt(sent, other).form # "stub"
                      /\ PartAt(sent', other).form = "stub" ]_vars

\* The stub says that the output appears later in the conversation.
StubTellsTheTruth ==
  \A at \in StubsSent : \E other \in KeptTwins(at) :
    other[1] > at[1] \/ (other[1] = at[1] /\ other[2] > at[2])

\* For every stub the output it stands for is still there in full.
LatestKeptInFull ==
  \A at \in StubsSent : \E other \in KeptTwins(at) :
    FormAt(other) \in {"original", "cleaned"}

==============================================================================
