-------------------------------- MODULE Proxy --------------------------------
(***************************************************************************)
(* The request path of cmd/thin: clients send turns of conversations,      *)
(* handleChatCompletions and handleAnthropicMessages run the pipeline over *)
(* each, forward what is left of it, and afterwards record what the        *)
(* response said about the provider's prompt cache.  net/http runs every   *)
(* request in a goroutine of its own; all of them share the session store. *)
(*                                                                         *)
(* A request is a pair <<client, attempt>>.  pc tells how far its handler  *)
(* is; a step of a handler is one lock region of the session, or one event *)
(* on the network, so two handlers of one session interleave here wherever *)
(* they can in the program.  The passes that touch only the request itself *)
(* (dedupe_tool_results, compact_history, repeated_tool_calls) are the     *)
(* subject of module History.                                              *)
(*                                                                         *)
(* The clients, the upstream and its prompt cache are the environment.     *)
(***************************************************************************)
EXTENDS Session, FiniteSets

CONSTANTS
  Clients,             \* conversations
  MaxAttempts,         \* bound: requests per conversation
  SessionIds,          \* what session.IDFor can return
  SessionOf,           \* the session id of each client's requests
  ApiOf,               \* which endpoint each client speaks to
  EagerClients,        \* those that may give up on a request and send again
  ProtectedTools,      \* -protect-tools
  EnablePruneTools,    \* -prune-tools
  DryRun,              \* -dry-run
  MinObservedTurns,    \* minObservedTurnsForPrune, 3 in the code
  Offers,              \* the tool arrays clients send
  Choices,             \* the tool_choice values clients send
  Bodies,              \* the kinds of request bodies clients send
  InsertMayFail,       \* whether the metrics database can refuse a row
  MaxRestarts          \* bound: restarts of the process

ASSUME ClientAssumption ==
  /\ MaxAttempts \in Nat
  /\ SessionOf \in [Clients -> SessionIds]
  /\ ApiOf \in [Clients -> {"openai", "anthropic"}]
  /\ EagerClients \subseteq Clients

ASSUME OptionAssumption ==
  /\ ProtectedTools \subseteq Tools
  /\ EnablePruneTools \in BOOLEAN
  /\ DryRun \in BOOLEAN
  /\ MinObservedTurns \in Nat
  /\ InsertMayFail \in BOOLEAN
  /\ MaxRestarts \in Nat

\* The forms of tool_choice: absent or "auto"; one that demands some call
\* ("required", or {"type":"any"}); and the two objects that name a tool, the
\* first in the form of OpenAI, the second in the form of Anthropic.
ChoiceForms ==
  [mode : {"auto", "required"}] \cup [mode : {"function", "tool"}, tool : Tools]

ASSUME InputAssumption ==
  /\ Offers \subseteq SUBSET Tools
  /\ Choices \subseteq ChoiceForms
  /\ Bodies \subseteq {"good", "garbled", "refused"}

VARIABLES
  sessions,    \* the session store
  pc,          \* where the handler of each request is
  request,     \* what each request asks for
  todo,        \* tools PruneTools has still to look at
  pruned,      \* tools PruneTools has dropped
  previous,    \* the fingerprint ShapeForCache has read
  shaped,      \* requests for which ShapeForCache reported a stable prefix
  reply,       \* how the upstream answered
  rows,        \* requests with a row in the metrics database
  attempt,     \* environment: how many requests each client has sent
  calls,       \* environment: tools called in the client's history
  restarts,    \* environment: restarts so far
  observed,    \* history: requests observed since the last restart
  evidence     \* history: tools called in their histories, up to each request

serverVars == <<sessions, rows>>
handlerVars == <<pc, request, todo, pruned, previous, shaped, reply>>
clientVars == <<attempt, calls>>
historyVars == <<observed, evidence>>
vars == <<serverVars, handlerVars, clientVars, restarts, historyVars>>

Requests == Clients \X (1 .. MaxAttempts)

SessionId(r) == SessionOf[r[1]]
Api(r) == ApiOf[r[1]]

RequestForms ==
  [ body : {"good", "garbled", "refused"}, offered : SUBSET Tools,
    choice : ChoiceForms, history : SUBSET Tools, print : Prints \cup {NoPrint} ]

Blank ==
  [ body |-> "good", offered |-> {}, choice |-> [mode |-> "auto"],
    history |-> {}, print |-> NoPrint ]

\* Handler positions: between the parsing of a request and its forwarding, and
\* between the upstream's answer and the return of the handler.
Rewriting == {"observed", "gate", "scan", "shape", "shaping"}
Accounting == {"answered", "recorded"}
InFlight == {"received", "read"} \cup Rewriting \cup {"raw", "upstream"} \cup Accounting
Final == {"done", "lost"}

Replies == {"none", "hit", "miss", "error"}

------------------------------------------------------------------------------
(* What a request says about tools.                                        *)

\* The names found in the assistant messages of the request's history.
ToolCallNames(r) == request[r].history

\* forcedToolChoice of package pipeline: the object with a function name.
OpenAIForced(choice) == IF choice.mode = "function" THEN {choice.tool} ELSE {}

\* forcedToolChoice of package anthropic: the object of type "tool".
AnthropicForced(choice) == IF choice.mode = "tool" THEN {choice.tool} ELSE {}

ForcedToolChoice(r) ==
  IF Api(r) = "openai" THEN OpenAIForced(request[r].choice)
                       ELSE AnthropicForced(request[r].choice)

\* Variant: tool_choice is forgotten.
KeptByHistory(r, tool) == tool \in ProtectedTools \cup ToolCallNames(r)

\* A tool PruneTools keeps for the sake of the options or of this request.
KeptByRequest(r, tool) ==
  tool \in ProtectedTools \cup ForcedToolChoice(r) \cup ToolCallNames(r)

\* The tools array that goes upstream; a dry run sends the original bytes, and
\* so does the passthrough of a body that does not parse.
Forwarded(r) ==
  IF DryRun THEN request[r].offered ELSE request[r].offered \ pruned[r]

------------------------------------------------------------------------------
Init ==
  /\ sessions = [id \in SessionIds |-> NewSession]
  /\ pc = [r \in Requests |-> "idle"]
  /\ request = [r \in Requests |-> Blank]
  /\ todo = [r \in Requests |-> {}]
  /\ pruned = [r \in Requests |-> {}]
  /\ previous = [r \in Requests |-> NoPrint]
  /\ shaped = {}
  /\ reply = [r \in Requests |-> "none"]
  /\ rows = {}
  /\ attempt = [c \in Clients |-> 0]
  /\ calls = [c \in Clients |-> {}]
  /\ restarts = 0
  /\ observed = {}
  /\ evidence = [r \in Requests |-> {}]

Goto(r, from, to) ==
  /\ pc[r] = from
  /\ pc' = [pc EXCEPT ![r] = to]

\* The requests a client can send.  tool_choice has the form of its API; the
\* history carries the calls the client has seen the model make, unless it has
\* compacted them away.
Sendable(c) ==
  {form \in [ body : Bodies, offered : Offers, choice : Choices,
              history : {calls[c], {}}, print : Prints ] :
     /\ form.choice.mode = "function" => ApiOf[c] = "openai"
     /\ form.choice.mode = "tool" => ApiOf[c] = "anthropic"}

\* A client sends its next turn, or the last one again.  It does so when its
\* last request is over, or earlier if it is one that gives up waiting.
Send(c) ==
  /\ attempt[c] < MaxAttempts
  /\ c \notin EagerClients /\ attempt[c] > 0 => pc[<<c, attempt[c]>>] \in Final
  /\ attempt' = [attempt EXCEPT ![c] = @ + 1]
  /\ \E form \in Sendable(c) :
       /\ request' = [request EXCEPT ![<<c, attempt[c] + 1>>] = form]
       /\ calls' = [calls EXCEPT ![c] = form.history]
  /\ Goto(<<c, attempt[c] + 1>>, "idle", "received")
  /\ UNCHANGED <<serverVars, todo, pruned, previous, shaped, reply, restarts,
                 historyVars>>

------------------------------------------------------------------------------
(* The handlers up to the upstream call.                                   *)

\* Not a POST, or a body that cannot be read or is over the limit: 405 or 400.
Refuse(r) ==
  /\ request[r].body = "refused"
  /\ Goto(r, "received", "done")
  /\ UNCHANGED <<serverVars, request, todo, pruned, previous, shaped, reply,
                 clientVars, restarts, historyVars>>

\* io.ReadAll is through with the body.  When that is, is up to the client: the
\* server has a timeout for the header only.
ReadBody(r) ==
  /\ request[r].body # "refused"
  /\ Goto(r, "received", "read")
  /\ UNCHANGED <<serverVars, request, todo, pruned, previous, shaped, reply,
                 clientVars, restarts, historyVars>>

\* A body that does not parse goes upstream as it came, past all bookkeeping.
PassThrough(r) ==
  /\ request[r].body = "garbled"
  /\ Goto(r, "read", "raw")
  /\ UNCHANGED <<serverVars, request, todo, pruned, previous, shaped, reply,
                 clientVars, restarts, historyVars>>

\* Apply: Store.Get, then ObserveToolCalls over the names in the history.
Observe(r) ==
  /\ request[r].body = "good"
  /\ Goto(r, "read", "observed")
  /\ sessions' = [sessions EXCEPT ![SessionId(r)] =
                    ObserveToolCalls(@, ToolCallNames(r))]
  /\ observed' = observed \cup {r}
  /\ evidence' = [evidence EXCEPT ![r] =
       UNION {ToolCallNames(q) : q \in {p \in observed' : SessionId(p) = SessionId(r)}}]
  /\ UNCHANGED <<rows, request, todo, pruned, previous, shaped, reply,
                 clientVars, restarts>>

\* Variant: the count is taken as if the request at hand were still to come.
MayPruneEarly(r) ==
  /\ EnablePruneTools
  /\ request[r].offered # {}
  /\ Turns(sessions[SessionId(r)]) + 1 >= MinObservedTurns

\* Apply runs PruneTools only when enabled, and PruneTools returns at once when
\* there is no tool or the session has been observed too few times.
MayPrune(r) ==
  /\ EnablePruneTools
  /\ request[r].offered # {}
  /\ Turns(sessions[SessionId(r)]) >= MinObservedTurns

\* Variant: the handler waits for the answers to the other requests of its
\* session, so as to know the latest hit.
CheckTurnsInTurn(r) ==
  /\ \A q \in Requests \ {r} : SessionId(q) = SessionId(r) => pc[q] # "upstream"
  /\ Goto(r, "observed", IF MayPrune(r) THEN "gate" ELSE "shape")
  /\ UNCHANGED <<serverVars, request, todo, pruned, previous, shaped, reply,
                 clientVars, restarts, historyVars>>

CheckTurns(r) ==
  /\ Goto(r, "observed", IF MayPrune(r) THEN "gate" ELSE "shape")
  /\ UNCHANGED <<serverVars, request, todo, pruned, previous, shaped, reply,
                 clientVars, restarts, historyVars>>

\* PruneTools leaves the array alone when the last response was a cache hit.
CheckCacheHit(r) ==
  /\ IF LastCacheHit(sessions[SessionId(r)])
       THEN Goto(r, "gate", "shape") /\ todo' = todo
       ELSE /\ Goto(r, "gate", "scan")
            /\ todo' = [todo EXCEPT ![r] = request[r].offered]
  /\ UNCHANGED <<serverVars, request, pruned, previous, shaped, reply,
                 clientVars, restarts, historyVars>>

\* One round of the loop over req.Tools; HasUsedTool takes the lock each time.
ScanTool(r) ==
  /\ \E tool \in todo[r] :
       /\ todo' = [todo EXCEPT ![r] = @ \ {tool}]
       /\ pruned' = [pruned EXCEPT ![r] =
            IF KeptByRequest(r, tool) \/ HasUsedTool(sessions[SessionId(r)], tool)
              THEN @ ELSE @ \cup {tool}]
       /\ Goto(r, "scan", IF todo[r] = {tool} THEN "shape" ELSE "scan")
  /\ UNCHANGED <<serverVars, request, previous, shaped, reply, clientVars,
                 restarts, historyVars>>

\* ShapeForCache reads the fingerprints of the last request in one lock region
ReadFingerprints(r) ==
  /\ Goto(r, "shape", "shaping")
  /\ previous' = [previous EXCEPT ![r] =
                    LastMessageFingerprint(sessions[SessionId(r)])]
  /\ UNCHANGED <<serverVars, request, todo, pruned, shaped, reply, clientVars,
                 restarts, historyVars>>

\* and records its own in another.  The rewritten request then goes upstream.
RecordFingerprints(r) ==
  /\ Goto(r, "shaping", "upstream")
  /\ shaped' = IF previous[r] # NoPrint /\ previous[r] = request[r].print
                 THEN shaped \cup {r} ELSE shaped
  /\ sessions' = [sessions EXCEPT ![SessionId(r)] =
                    RecordMessageFingerprint(@, request[r].print)]
  /\ UNCHANGED <<rows, request, todo, pruned, previous, reply, clientVars,
                 restarts, historyVars>>

------------------------------------------------------------------------------
(* The upstream.  There is no timeout on this call.                        *)

\* A prompt-cache hit needs an earlier answered request of the conversation
\* with the same tools array: the array is part of the cached prefix.
CanHit(r) ==
  \E q \in Requests :
    /\ SessionId(q) = SessionId(r) /\ Api(q) = Api(r)
    /\ reply[q] \in {"hit", "miss"}
    /\ Forwarded(q) = Forwarded(r)

\* A complete answer.  One without usage in its tail counts as a miss here: the
\* handler treats the two alike.
\* The model calls at most one of the tools it was given (bound), and the client
\* learns of it unless it has given up on this request.
Reply(r) ==
  /\ Goto(r, "upstream", "answered")
  /\ \E kind \in {"hit", "miss"} :
       /\ kind = "hit" => CanHit(r)
       /\ reply' = [reply EXCEPT ![r] = kind]
  /\ \E called \in {{}} \cup {{t} : t \in Forwarded(r)} :
       calls' = [calls EXCEPT ![r[1]] =
                   IF attempt[r[1]] = r[2] THEN @ \cup called ELSE @]
  /\ UNCHANGED <<serverVars, request, todo, pruned, previous, shaped, attempt,
                 restarts, historyVars>>

\* An error status, an unreachable upstream (502), or a client that hung up
\* before the response began: the handler goes on with an empty tail.
UpstreamError(r) ==
  /\ Goto(r, "upstream", "answered")
  /\ reply' = [reply EXCEPT ![r] = "error"]
  /\ UNCHANGED <<serverVars, request, todo, pruned, previous, shaped,
                 clientVars, restarts, historyVars>>

\* The copy of the body breaks off: ReverseProxy panics with ErrAbortHandler,
\* and nothing after ServeHTTP runs.
UpstreamAbort(r) ==
  /\ Goto(r, "upstream", "lost")
  /\ UNCHANGED <<serverVars, request, todo, pruned, previous, shaped, reply,
                 clientVars, restarts, historyVars>>

\* A passed-through request is over when the upstream has answered it.
RawReply(r) ==
  /\ Goto(r, "raw", "done")
  /\ UNCHANGED <<serverVars, request, todo, pruned, previous, shaped, reply,
                 clientVars, restarts, historyVars>>

Upstream(r) == Reply(r) \/ UpstreamError(r) \/ UpstreamAbort(r) \/ RawReply(r)

------------------------------------------------------------------------------
(* The handlers after the upstream call.                                   *)

\* Variants: the hit is filed under an id of the request's own; any answer that is
\* not an error is taken for a hit; only a hit is recorded; an answer without usage
\* is waited out.
RecordUnderOwnId(r) ==
  /\ Goto(r, "answered", "recorded")
  /\ sessions' = [id \in SessionIds \cup {r} |->
       IF id = r THEN RecordCacheHit(NewSession, reply[r] = "hit") ELSE sessions[id]]
  /\ UNCHANGED <<rows, request, todo, pruned, previous, shaped, reply,
                 clientVars, restarts, historyVars>>

RecordAnyAnswer(r) ==
  /\ Goto(r, "answered", "recorded")
  /\ sessions' = [sessions EXCEPT ![SessionId(r)] =
                    RecordCacheHit(@, reply[r] # "error")]
  /\ UNCHANGED <<rows, request, todo, pruned, previous, shaped, reply,
                 clientVars, restarts, historyVars>>

RecordHitsOnly(r) ==
  /\ Goto(r, "answered", "recorded")
  /\ sessions' = [sessions EXCEPT ![SessionId(r)] =
                    RecordCacheHit(@, LastCacheHit(@) \/ reply[r] = "hit")]
  /\ UNCHANGED <<rows, request, todo, pruned, previous, shaped, reply,
                 clientVars, restarts, historyVars>>

RecordOnlyUsage(r) ==
  /\ reply[r] # "error"
  /\ Goto(r, "answered", "recorded")
  /\ sessions' = [sessions EXCEPT ![SessionId(r)] =
                    RecordCacheHit(@, reply[r] = "hit")]
  /\ UNCHANGED <<rows, request, todo, pruned, previous, shaped, reply,
                 clientVars, restarts, historyVars>>

\* The hit of ExtractCacheHit, or none when there is no usage in the tail.
RecordHit(r) ==
  /\ Goto(r, "answered", "recorded")
  /\ sessions' = [sessions EXCEPT ![SessionId(r)] =
                    RecordCacheHit(@, reply[r] = "hit")]
  /\ UNCHANGED <<rows, request, todo, pruned, previous, shaped, reply,
                 clientVars, restarts, historyVars>>

\* The token counts, Store.Insert, which may fail and is then only logged, and the
\* audit logs.
Finish(r) ==
  /\ Goto(r, "recorded", "done")
  /\ \/ rows' = rows \cup {r}
     \/ InsertMayFail /\ rows' = rows
  /\ UNCHANGED <<sessions, request, todo, pruned, previous, shaped, reply,
                 clientVars, restarts, historyVars>>

------------------------------------------------------------------------------
\* The body comes in; what a handler then does before the request goes upstream.
Arrive(r) == Refuse(r) \/ ReadBody(r)

Rewrite(r) ==
  \/ PassThrough(r) \/ Observe(r)
  \/ CheckTurns(r) \/ CheckCacheHit(r) \/ ScanTool(r)
  \/ ReadFingerprints(r) \/ RecordFingerprints(r)

HandlerStep(r) == Arrive(r) \/ Rewrite(r) \/ RecordHit(r) \/ Finish(r)

HandleChatCompletions(r) == Api(r) = "openai" /\ HandlerStep(r)

HandleAnthropicMessages(r) == Api(r) = "anthropic" /\ HandlerStep(r)

\* Variant: the sessions outlive the process.
RestartWithSessions ==
  /\ restarts < MaxRestarts
  /\ restarts' = restarts + 1
  /\ pc' = [r \in Requests |-> IF pc[r] \in InFlight THEN "lost" ELSE pc[r]]
  /\ observed' = {}
  /\ UNCHANGED <<serverVars, request, todo, pruned, previous, shaped, reply,
                 clientVars, evidence>>

\* The process ends and is started again: sessions live in memory only, the
\* handlers in flight are gone, the metrics rows stay.
Restart ==
  /\ restarts < MaxRestarts
  /\ restarts' = restarts + 1
  /\ sessions' = [id \in SessionIds |-> NewSession]
  /\ pc' = [r \in Requests |-> IF pc[r] \in InFlight THEN "lost" ELSE pc[r]]
  /\ observed' = {}
  /\ UNCHANGED <<rows, request, todo, pruned, previous, shaped, reply,
                 clientVars, evidence>>

\* The clients have used up their attempts and every request is over.
Exhausted ==
  /\ \A c \in Clients : attempt[c] = MaxAttempts
  /\ \A r \in Requests : pc[r] \in Final
  /\ UNCHANGED vars

Next ==
  \/ \E c \in Clients : Send(c)
  \/ \E r \in Requests :
       \/ HandleChatCompletions(r)
       \/ HandleAnthropicMessages(r)
       \/ Upstream(r)
  \/ Restart
  \/ Exhausted

Spec == Init /\ [][Next]_vars

\* The runtime schedules every goroutine, and from the end of the body to the
\* upstream call, and from its end to RecordHit, a handler waits for nothing but a
\* mutex, which is held for one method only.  Nothing is assumed of the clients,
\* who may never end a body; of the upstream, which may never answer; of restarts;
\* or of Finish, which may wait for the one-time load of the tokenizer and for the
\* database.
FairSpec ==
  /\ Spec
  /\ \A r \in Requests : WF_vars(Rewrite(r)) /\ WF_vars(RecordHit(r))

------------------------------------------------------------------------------
(* Properties.                                                             *)

TypeOK ==
  /\ sessions \in [SessionIds -> SessionStates]
  /\ pc \in [Requests -> {"idle"} \cup InFlight \cup Final]
  /\ request \in [Requests -> RequestForms]
  /\ todo \in [Requests -> SUBSET Tools]
  /\ pruned \in [Requests -> SUBSET Tools]
  /\ previous \in [Requests -> Prints \cup {NoPrint}]
  /\ shaped \subseteq Requests
  /\ reply \in [Requests -> Replies]
  /\ rows \subseteq Requests
  /\ attempt \in [Clients -> 0 .. MaxAttempts]
  /\ calls \in [Clients -> SUBSET Tools]
  /\ restarts \in 0 .. MaxRestarts
  /\ observed \subseteq Requests
  /\ evidence \in [Requests -> SUBSET Tools]

ObservedIn(id) == {q \in observed : SessionId(q) = id}

\* PruneTools drops no tool that is protected, that the request's own tool_choice
\* names, or that the history of any request of the session observed so far, this
\* one included, has called: even when a client has since dropped that history,
\* and whatever the other handlers of the session do between the lock regions.
PrunedHadNoEvidence ==
  \A r \in Requests :
    pruned[r] \cap (ProtectedTools \cup ForcedToolChoice(r) \cup evidence[r]) = {}

\* A session's turn counter is the number of requests the process has observed
\* under its id since it started; no concurrent observation is lost.
TurnsCountObserved ==
  \A id \in SessionIds : Turns(sessions[id]) = Cardinality(ObservedIn(id))

\* While a request is being handled, tools are missing from it only if its
\* session has been observed minObservedTurnsForPrune times since the start.
GateNeedsObservedTurns ==
  \A r \in Requests :
    pc[r] \in InFlight /\ pruned[r] # {} =>
      Cardinality(ObservedIn(SessionId(r))) >= MinObservedTurns

\* The requests observed under an id whose handlers have recorded their answer.
RecordedIn(id) == {q \in ObservedIn(id) : pc[q] \in {"recorded", "done"}}

\* The flag of a session is that of the last answer recorded under its id, of
\* whichever handler: without any there is no hit, and otherwise the flag says what
\* some request of the session was answered, which is the latest request recorded
\* of its client, unless that client gives up on requests and sends again.
FlagIsCurrent ==
  \A id \in SessionIds :
    /\ RecordedIn(id) = {} => ~ LastCacheHit(sessions[id])
    /\ RecordedIn(id) # {} =>
         \E q \in RecordedIn(id) :
           /\ LastCacheHit(sessions[id]) = (reply[q] = "hit")
           /\ q[1] \notin EagerClients =>
                \A k \in q[2] + 1 .. MaxAttempts : <<q[1], k>> \notin RecordedIn(id)

\* The turn that follows a cache hit goes out with all its tools, in a session
\* that one client has to itself.
HitSparesNextTurn ==
  \A c \in Clients, k \in 1 .. MaxAttempts - 1 :
    /\ \A d \in Clients \ {c} : SessionOf[d] # SessionOf[c]
    /\ reply[<<c, k>>] = "hit"
    => pruned[<<c, k + 1>>] = {}

\* A turn that follows a cache hit and offers the same tools sends the same tools
\* array, so that the cached prefix survives.
HitKeepsToolsArray ==
  \A c \in Clients, k \in 1 .. MaxAttempts - 1 :
    /\ reply[<<c, k>>] = "hit"
    /\ pc[<<c, k + 1>>] = "upstream"
    /\ request[<<c, k + 1>>].offered = request[<<c, k>>].offered
    => Forwarded(<<c, k + 1>>) = Forwarded(<<c, k>>)

\* A step that, unless it is a restart, takes no call and no turn from a session
\* and nothing from a request that has been rewritten.
ForgetsNothing ==
  restarts' = restarts =>
    /\ \A id \in SessionIds :
         /\ sessions[id].toolsUsed \subseteq sessions'[id].toolsUsed
         /\ sessions[id].turns <= sessions'[id].turns
    /\ \A r \in Requests : pc[r] = "upstream" => Forwarded(r)' = Forwarded(r)

\* Until the process restarts, a session forgets no call and no turn, and a
\* request that has been rewritten stays as it is.
NothingForgotten == [][ForgetsNothing]_vars

\* No handler waits for another one's client or upstream: once its body is there a
\* request goes upstream, and the session learns of every answer, unless the process
\* ends first, however long other requests of the session hang upstream or
\* other clients hold back their bodies.
HandlerNeverStalls ==
  \A r \in Requests :
    /\ pc[r] \in {"read"} \cup Rewriting ~> pc[r] \in {"upstream", "raw"} \cup Final
    /\ pc[r] = "answered" ~> pc[r] \in {"recorded"} \cup Final

==============================================================================
