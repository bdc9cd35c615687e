---------------------------- MODULE Proxy_proofs ----------------------------
(***************************************************************************)
(* Proofs about Proxy, for all values of its constants.                    *)
(***************************************************************************)
EXTENDS Proxy, FiniteSetTheorems, TLAPS

\* What every request and every client has, whatever its number.
LEMMA RequestParts ==
  ASSUME NEW r \in Requests
  PROVE  /\ r[1] \in Clients
         /\ r[2] \in 1 .. MaxAttempts
         /\ SessionId(r) \in SessionIds
  BY ClientAssumption DEF Requests, SessionId

\* A client that may still send has a request of its own for the next attempt.
LEMMA NextRequest ==
  ASSUME TypeOK, NEW c \in Clients, attempt[c] < MaxAttempts
  PROVE  /\ <<c, attempt[c] + 1>> \in Requests
         /\ attempt[c] + 1 \in 0 .. MaxAttempts
  BY ClientAssumption DEF TypeOK, Requests

\* The methods of a session keep it a session.
LEMMA SessionTypes ==
  ASSUME NEW s \in SessionStates
  PROVE  /\ \A names \in SUBSET Tools : ObserveToolCalls(s, names) \in SessionStates
         /\ \A print \in Prints \cup {NoPrint} :
              RecordMessageFingerprint(s, print) \in SessionStates
         /\ \A hit \in BOOLEAN : RecordCacheHit(s, hit) \in SessionStates
<1> USE DEF SessionStates
<1>1. ASSUME NEW names \in SUBSET Tools
      PROVE  ObserveToolCalls(s, names) \in SessionStates
  <2>1. s.turns + 1 \in Nat /\ s.toolsUsed \cup names \in SUBSET Tools
    BY <1>1
  <2>2. QED
    BY <2>1 DEF ObserveToolCalls
<1>2. ASSUME NEW print \in Prints \cup {NoPrint}
      PROVE  RecordMessageFingerprint(s, print) \in SessionStates
  BY <1>2 DEF RecordMessageFingerprint
<1>3. ASSUME NEW hit \in BOOLEAN
      PROVE  RecordCacheHit(s, hit) \in SessionStates
  BY <1>3 DEF RecordCacheHit
<1>4. QED
  BY <1>1, <1>2, <1>3

LEMMA NewSessionType == NewSession \in SessionStates
  BY DEF NewSession, SessionStates

LEMMA BlankType == Blank \in RequestForms
  BY DEF Blank, RequestForms, ChoiceForms

------------------------------------------------------------------------------
(* Type correctness.                                                       *)

LEMMA InitTypeOK == Init => TypeOK
  BY NewSessionType, BlankType, ClientAssumption, OptionAssumption
  DEF Init, TypeOK, Replies

LEMMA SendTypeOK ==
  ASSUME TypeOK, NEW c \in Clients, Send(c)
  PROVE  TypeOK'
<1> DEFINE r == <<c, attempt[c] + 1>>
<1>1. r \in Requests /\ attempt[c] + 1 \in 0 .. MaxAttempts
  BY NextRequest DEF Send
<1>2. PICK form \in Sendable(c) :
        /\ request' = [request EXCEPT ![r] = form]
        /\ calls' = [calls EXCEPT ![c] = form.history]
  BY DEF Send
<1>3. form \in RequestForms
  BY InputAssumption DEF TypeOK, Sendable, RequestForms
<1>4. Goto(r, "idle", "received")
  BY DEF Send
<1>5. request' \in [Requests -> RequestForms]
  BY <1>1, <1>2, <1>3 DEF TypeOK
<1>6. calls' \in [Clients -> SUBSET Tools]
  BY <1>2, <1>3 DEF TypeOK, RequestForms
<1>7. pc' \in [Requests -> {"idle"} \cup InFlight \cup Final]
  BY <1>1, <1>4 DEF TypeOK, Goto, InFlight
<1>8. attempt' \in [Clients -> 0 .. MaxAttempts]
  BY <1>1 DEF Send, TypeOK
<1>9. QED
  BY <1>5, <1>6, <1>7, <1>8 DEF Send, TypeOK, serverVars, historyVars

LEMMA HandlerTypeOK ==
  ASSUME TypeOK, NEW r \in Requests, HandlerStep(r)
  PROVE  TypeOK'
<1> DEFINE id == SessionId(r)
<1>1. id \in SessionIds /\ sessions[id] \in SessionStates
  BY RequestParts DEF TypeOK
<1>2. /\ request[r] \in RequestForms
      /\ request[r].offered \in SUBSET Tools
      /\ request[r].print \in Prints \cup {NoPrint}
      /\ ToolCallNames(r) \in SUBSET Tools
  BY DEF TypeOK, RequestForms, ToolCallNames
<1> USE DEF TypeOK, Goto, serverVars, clientVars, historyVars
<1>3. CASE Arrive(r)
  BY <1>3 DEF Arrive, Refuse, ReadBody, InFlight, Final
<1>4. CASE PassThrough(r)
  BY <1>4 DEF PassThrough, InFlight
<1>5. CASE Observe(r)
  <2>1. ObserveToolCalls(sessions[id], ToolCallNames(r)) \in SessionStates
    BY <1>1, <1>2, SessionTypes
  <2>2. sessions' \in [SessionIds -> SessionStates]
    BY <1>5, <1>1, <2>1 DEF Observe
  <2>3. observed' \subseteq Requests
    BY <1>5 DEF Observe
  <2>4. \A q \in Requests : ToolCallNames(q) \subseteq Tools
    BY DEF ToolCallNames, RequestForms
  <2>5. UNION {ToolCallNames(q) : q \in {p \in observed' : SessionId(p) = id}}
          \subseteq Tools
    BY <2>3, <2>4
  <2>6. evidence' \in [Requests -> SUBSET Tools]
    BY <1>5, <2>5 DEF Observe
  <2>7. pc' \in [Requests -> {"idle"} \cup InFlight \cup Final]
    BY <1>5 DEF Observe, InFlight, Rewriting
  <2>8. QED
    BY <1>5, <2>2, <2>3, <2>6, <2>7 DEF Observe
<1>6. CASE CheckTurns(r)
  BY <1>6 DEF CheckTurns, InFlight, Rewriting
<1>7. CASE CheckCacheHit(r)
  BY <1>7, <1>2 DEF CheckCacheHit, InFlight, Rewriting
<1>8. CASE ScanTool(r)
  <2>1. PICK tool \in todo[r] :
          /\ todo' = [todo EXCEPT ![r] = @ \ {tool}]
          /\ pruned' = [pruned EXCEPT ![r] =
               IF KeptByRequest(r, tool) \/ HasUsedTool(sessions[id], tool)
                 THEN @ ELSE @ \cup {tool}]
          /\ Goto(r, "scan", IF todo[r] = {tool} THEN "shape" ELSE "scan")
    BY <1>8 DEF ScanTool
  <2>2. todo' \in [Requests -> SUBSET Tools]
    BY <2>1
  <2>3. pruned' \in [Requests -> SUBSET Tools]
    BY <2>1
  <2>4. pc' \in [Requests -> {"idle"} \cup InFlight \cup Final]
    BY <2>1 DEF InFlight, Rewriting
  <2>5. QED
    BY <1>8, <2>2, <2>3, <2>4 DEF ScanTool
<1>9. CASE ReadFingerprints(r)
  BY <1>9, <1>1
  DEF ReadFingerprints, LastMessageFingerprint, SessionStates, InFlight, Rewriting
<1>10. CASE RecordFingerprints(r)
  <2>1. RecordMessageFingerprint(sessions[id], request[r].print) \in SessionStates
    BY <1>1, <1>2, SessionTypes
  <2>2. sessions' \in [SessionIds -> SessionStates]
    BY <1>10, <1>1, <2>1 DEF RecordFingerprints
  <2>3. QED
    BY <1>10, <2>2 DEF RecordFingerprints, InFlight
<1>11. CASE RecordHit(r)
  <2>1. RecordCacheHit(sessions[id], reply[r] = "hit") \in SessionStates
    BY <1>1, SessionTypes
  <2>2. sessions' \in [SessionIds -> SessionStates]
    BY <1>11, <1>1, <2>1 DEF RecordHit
  <2>3. QED
    BY <1>11, <2>2 DEF RecordHit, InFlight, Accounting
<1>12. CASE Finish(r)
  BY <1>12 DEF Finish, Final
<1>13. QED
  BY <1>3, <1>4, <1>5, <1>6, <1>7, <1>8, <1>9, <1>10, <1>11, <1>12
  DEF HandlerStep, Arrive, Rewrite

LEMMA UpstreamTypeOK ==
  ASSUME TypeOK, NEW r \in Requests, Upstream(r)
  PROVE  TypeOK'
<1> USE DEF TypeOK, Goto, serverVars, clientVars, historyVars
<1>1. CASE Reply(r)
  <2>1. PICK called \in {{}} \cup {{t} : t \in Forwarded(r)} :
          calls' = [calls EXCEPT ![r[1]] =
                      IF attempt[r[1]] = r[2] THEN @ \cup called ELSE @]
    BY <1>1 DEF Reply
  <2>2. called \subseteq Tools
    BY DEF Forwarded, RequestForms
  <2>3. calls' \in [Clients -> SUBSET Tools]
    BY <2>1, <2>2
  <2>4. reply' \in [Requests -> Replies]
    BY <1>1 DEF Reply, Replies
  <2>5. pc' \in [Requests -> {"idle"} \cup InFlight \cup Final]
    BY <1>1 DEF Reply, InFlight, Accounting
  <2>6. QED
    BY <1>1, <2>3, <2>4, <2>5 DEF Reply
<1>2. CASE UpstreamError(r)
  BY <1>2 DEF UpstreamError, InFlight, Accounting, Replies
<1>3. CASE UpstreamAbort(r)
  BY <1>3 DEF UpstreamAbort, Final
<1>4. CASE RawReply(r)
  BY <1>4 DEF RawReply, Final
<1>5. QED
  BY <1>1, <1>2, <1>3, <1>4 DEF Upstream

LEMMA RestartTypeOK == TypeOK /\ Restart => TypeOK'
  BY NewSessionType, OptionAssumption
  DEF TypeOK, Restart, InFlight, Final, clientVars

LEMMA StutterTypeOK == TypeOK /\ UNCHANGED vars => TypeOK'
  BY DEF TypeOK, vars, serverVars, handlerVars, clientVars, historyVars

\* Every state the specification reaches has the types the code declares.
THEOREM TypeCorrect == Spec => []TypeOK
<1>1. TypeOK /\ [Next]_vars => TypeOK'
  BY SendTypeOK, HandlerTypeOK, UpstreamTypeOK, RestartTypeOK, StutterTypeOK
  DEF Next, HandleChatCompletions, HandleAnthropicMessages, Exhausted
<1>2. QED
  BY InitTypeOK, <1>1, PTL DEF Spec

------------------------------------------------------------------------------
(* PruneTools drops nothing there is evidence for.                         *)
(*                                                                         *)
(* The property alone is not inductive: ScanTool asks the session, not the *)
(* requests, so the session has to know what the histories of the observed *)
(* requests contain, and go on knowing it while a handler works through    *)
(* its steps and others change the session in between.                     *)

\* Observed requests are past their arrival and are not passed through, and everything
\* that is rewritten is observed up to the end of its handler.
ObservedAreUnderWay ==
  /\ \A q \in observed : pc[q] \notin {"idle", "received", "read", "raw"}
  /\ \A r \in Requests :
       pc[r] \in Rewriting \cup {"upstream"} \cup Accounting => r \in observed

\* A session has seen the calls of all its observed requests.
SessionKnowsHistories ==
  \A q \in observed : ToolCallNames(q) \subseteq sessions[SessionId(q)].toolsUsed

\* What was evidence when a request was observed still is while it is rewritten.
EvidenceStands ==
  \A r \in Requests : pc[r] \in Rewriting =>
    evidence[r] \subseteq sessions[SessionId(r)].toolsUsed

\* Pruning starts after the request has been observed.
FreshIsWhole ==
  \A r \in Requests : pc[r] \in {"idle", "received", "read"} => pruned[r] = {}

EvidenceInv ==
  /\ ObservedAreUnderWay
  /\ SessionKnowsHistories
  /\ EvidenceStands
  /\ FreshIsWhole
  /\ PrunedHadNoEvidence

\* The methods of a session only add to the tools it knows and to its turns, and
\* only RecordCacheHit touches the flag.
LEMMA SessionMonotone ==
  ASSUME NEW s \in SessionStates
  PROVE  /\ \A names \in SUBSET Tools :
              /\ ObserveToolCalls(s, names).toolsUsed = s.toolsUsed \cup names
              /\ ObserveToolCalls(s, names).turns = s.turns + 1
              /\ ObserveToolCalls(s, names).lastCacheHit = s.lastCacheHit
         /\ \A print \in Prints \cup {NoPrint} :
              /\ RecordMessageFingerprint(s, print).toolsUsed = s.toolsUsed
              /\ RecordMessageFingerprint(s, print).turns = s.turns
              /\ RecordMessageFingerprint(s, print).lastCacheHit = s.lastCacheHit
         /\ \A hit \in BOOLEAN :
              /\ RecordCacheHit(s, hit).toolsUsed = s.toolsUsed
              /\ RecordCacheHit(s, hit).turns = s.turns
              /\ RecordCacheHit(s, hit).lastCacheHit = hit
<1> USE DEF SessionStates
<1>1. ASSUME NEW names \in SUBSET Tools
      PROVE  /\ ObserveToolCalls(s, names).toolsUsed = s.toolsUsed \cup names
             /\ ObserveToolCalls(s, names).turns = s.turns + 1
             /\ ObserveToolCalls(s, names).lastCacheHit = s.lastCacheHit
  BY <1>1 DEF ObserveToolCalls
<1>2. ASSUME NEW print \in Prints \cup {NoPrint}
      PROVE  /\ RecordMessageFingerprint(s, print).toolsUsed = s.toolsUsed
             /\ RecordMessageFingerprint(s, print).turns = s.turns
             /\ RecordMessageFingerprint(s, print).lastCacheHit = s.lastCacheHit
  BY <1>2 DEF RecordMessageFingerprint
<1>3. ASSUME NEW hit \in BOOLEAN
      PROVE  /\ RecordCacheHit(s, hit).toolsUsed = s.toolsUsed
             /\ RecordCacheHit(s, hit).turns = s.turns
             /\ RecordCacheHit(s, hit).lastCacheHit = hit
  BY <1>3 DEF RecordCacheHit
<1>4. QED
  BY <1>1, <1>2, <1>3

\* A step that moves one handler to a later position, past the gate only with
\* enough turns, and leaves alone the requests, the dropped tools, the history
\* variables and what the sessions know of tools and turns.
QuietStep(r, to) ==
  /\ pc' = [pc EXCEPT ![r] = to]
  /\ \/ pc[r] = "received" /\ to \in {"read", "done"}
     \/ pc[r] = "read" /\ to = "raw"
     \/ pc[r] \in Rewriting /\ to \in Rewriting \cup {"upstream"}
     \/ pc[r] = "upstream" /\ to \in {"answered", "lost"}
     \/ pc[r] = "answered" /\ to = "recorded"
     \/ pc[r] \in {"raw", "recorded"} /\ to = "done"
  /\ UNCHANGED <<request, pruned, observed, evidence>>
  /\ \A id \in SessionIds : /\ sessions'[id].toolsUsed = sessions[id].toolsUsed
                            /\ sessions'[id].turns = sessions[id].turns
  /\ to = "gate" => Turns(sessions[SessionId(r)]) >= MinObservedTurns
  /\ to = "scan" => pc[r] = "gate"

LEMMA QuietEvidence ==
  ASSUME TypeOK, EvidenceInv, NEW r \in Requests, NEW to, QuietStep(r, to)
  PROVE  EvidenceInv'
<1>1. \A q \in Requests :
        /\ ToolCallNames(q)' = ToolCallNames(q)
        /\ ForcedToolChoice(q)' = ForcedToolChoice(q)
        /\ SessionId(q) \in SessionIds
  BY RequestParts
  DEF QuietStep, ToolCallNames, ForcedToolChoice, OpenAIForced, AnthropicForced
<1>2. /\ pc'[r] = to
      /\ \A q \in Requests \ {r} : pc'[q] = pc[q]
      /\ to \notin {"idle", "received"}
      /\ to = "read" => pc[r] = "received"
      /\ to = "raw" => pc[r] = "read"
  BY DEF QuietStep, TypeOK, Rewriting
<1>3. observed \subseteq Requests
  BY DEF TypeOK
<1> USE DEF EvidenceInv
<1>4. ObservedAreUnderWay'
  BY <1>2, <1>3 DEF ObservedAreUnderWay, QuietStep, Rewriting, Accounting
<1>5. SessionKnowsHistories'
  BY <1>1, <1>3 DEF SessionKnowsHistories, QuietStep, SessionId
<1>6. EvidenceStands'
  BY <1>1, <1>2 DEF EvidenceStands, QuietStep, Rewriting, SessionId
<1>7. FreshIsWhole'
  BY <1>2 DEF FreshIsWhole, QuietStep
<1>8. PrunedHadNoEvidence'
  BY <1>1 DEF PrunedHadNoEvidence, QuietStep
<1>9. QED
  BY <1>4, <1>5, <1>6, <1>7, <1>8

LEMMA SendEvidence ==
  ASSUME TypeOK, EvidenceInv, NEW c \in Clients, Send(c)
  PROVE  EvidenceInv'
<1> DEFINE r == <<c, attempt[c] + 1>>
<1>1. r \in Requests
  BY NextRequest DEF Send
<1>2. /\ pc[r] = "idle" /\ pc'[r] = "received"
      /\ \A q \in Requests \ {r} : pc'[q] = pc[q]
  BY <1>1 DEF Send, Goto, TypeOK
<1>3. \A q \in Requests \ {r} : request'[q] = request[q]
  BY <1>1 DEF Send, TypeOK
<1>4. UNCHANGED <<sessions, pruned, observed, evidence>>
  BY DEF Send, serverVars, historyVars
<1>5. r \notin observed /\ pruned[r] = {} /\ observed \subseteq Requests
  BY <1>1, <1>2 DEF EvidenceInv, ObservedAreUnderWay, FreshIsWhole, TypeOK
<1>6. \A q \in Requests \ {r} :
        /\ ToolCallNames(q)' = ToolCallNames(q)
        /\ ForcedToolChoice(q)' = ForcedToolChoice(q)
  BY <1>3 DEF ToolCallNames, ForcedToolChoice, OpenAIForced, AnthropicForced
<1> USE DEF EvidenceInv
<1>7. ObservedAreUnderWay'
  BY <1>2, <1>4, <1>5 DEF ObservedAreUnderWay, Rewriting, Accounting
<1>8. SessionKnowsHistories'
  BY <1>4, <1>5, <1>6 DEF SessionKnowsHistories, SessionId
<1>9. EvidenceStands'
  BY <1>2, <1>4 DEF EvidenceStands, Rewriting, SessionId
<1>10. FreshIsWhole'
  BY <1>2, <1>4, <1>5 DEF FreshIsWhole
<1>11. PrunedHadNoEvidence'
  BY <1>4, <1>5, <1>6 DEF PrunedHadNoEvidence
<1>12. QED
  BY <1>7, <1>8, <1>9, <1>10, <1>11

LEMMA ObserveEvidence ==
  ASSUME TypeOK, EvidenceInv, NEW r \in Requests, Observe(r)
  PROVE  EvidenceInv'
<1> DEFINE id == SessionId(r)
<1>1. /\ pc[r] = "read" /\ pc'[r] = "observed"
      /\ \A q \in Requests \ {r} : pc'[q] = pc[q]
  BY DEF Observe, Goto, TypeOK
<1>2. /\ UNCHANGED <<request, pruned>>
      /\ observed' = observed \cup {r} /\ observed' \subseteq Requests
  BY DEF Observe, TypeOK
<1>3. \A q \in Requests :
        /\ ToolCallNames(q)' = ToolCallNames(q)
        /\ ForcedToolChoice(q)' = ForcedToolChoice(q)
        /\ ToolCallNames(q) \in SUBSET Tools
        /\ SessionId(q) \in SessionIds
  BY <1>2, RequestParts
  DEF ToolCallNames, ForcedToolChoice, OpenAIForced, AnthropicForced, TypeOK, RequestForms
<1>4. /\ sessions'[id].toolsUsed = sessions[id].toolsUsed \cup ToolCallNames(r)
      /\ \A i \in SessionIds \ {id} : sessions'[i] = sessions[i]
  <2>1. sessions[id] \in SessionStates
    BY <1>3 DEF TypeOK
  <2>2. sessions'[id] = ObserveToolCalls(sessions[id], ToolCallNames(r))
    BY <1>3 DEF Observe, TypeOK
  <2>3. \A i \in SessionIds \ {id} : sessions'[i] = sessions[i]
    BY DEF Observe, TypeOK
  <2>4. QED
    BY <1>3, <2>1, <2>2, <2>3, SessionMonotone
<1>5. \A i \in SessionIds : sessions[i].toolsUsed \subseteq sessions'[i].toolsUsed
  BY <1>4
<1> USE DEF EvidenceInv
<1>6. ObservedAreUnderWay'
  BY <1>1, <1>2 DEF ObservedAreUnderWay, Rewriting, Accounting
<1>7. SessionKnowsHistories'
  <2>1. \A q \in observed : ToolCallNames(q) \subseteq sessions'[SessionId(q)].toolsUsed
    BY <1>2, <1>3, <1>5 DEF SessionKnowsHistories
  <2>2. ToolCallNames(r) \subseteq sessions'[id].toolsUsed
    BY <1>4
  <2>3. QED
    BY <1>2, <1>3, <2>1, <2>2 DEF SessionKnowsHistories, SessionId
<1>8. evidence'[r] \subseteq sessions'[id].toolsUsed
  <2>1. evidence'[r] =
          UNION {ToolCallNames(q) : q \in {p \in observed' : SessionId(p) = id}}
    BY DEF Observe, TypeOK
  <2>2. \A q \in observed' :
          SessionId(q) = id => ToolCallNames(q) \subseteq sessions'[id].toolsUsed
    BY <1>2, <1>3, <1>7 DEF SessionKnowsHistories, SessionId
  <2>3. QED
    BY <2>1, <2>2
<1>9. \A q \in Requests \ {r} : evidence'[q] = evidence[q]
  BY DEF Observe, TypeOK
<1>10. EvidenceStands'
  BY <1>1, <1>3, <1>5, <1>8, <1>9 DEF EvidenceStands, SessionId
<1>11. FreshIsWhole'
  BY <1>1, <1>2 DEF FreshIsWhole
<1>12. PrunedHadNoEvidence'
  <2>1. pruned'[r] = {}
    BY <1>1, <1>2 DEF FreshIsWhole
  <2>2. QED
    BY <1>2, <1>3, <1>9, <2>1 DEF PrunedHadNoEvidence
<1>13. QED
  BY <1>6, <1>7, <1>10, <1>11, <1>12

LEMMA ScanEvidence ==
  ASSUME TypeOK, EvidenceInv, NEW r \in Requests, ScanTool(r)
  PROVE  EvidenceInv'
<1>1. PICK tool \in todo[r] :
        /\ pruned' = [pruned EXCEPT ![r] =
             IF KeptByRequest(r, tool) \/ HasUsedTool(sessions[SessionId(r)], tool)
               THEN @ ELSE @ \cup {tool}]
        /\ Goto(r, "scan", IF todo[r] = {tool} THEN "shape" ELSE "scan")
  BY DEF ScanTool
<1>2. /\ pc[r] = "scan" /\ pc'[r] \in {"scan", "shape"}
      /\ \A q \in Requests \ {r} : pc'[q] = pc[q]
  BY <1>1 DEF Goto, TypeOK
<1>3. UNCHANGED <<sessions, request, observed, evidence>>
  BY DEF ScanTool, serverVars, historyVars
<1>4. \A q \in Requests :
        /\ ToolCallNames(q)' = ToolCallNames(q)
        /\ ForcedToolChoice(q)' = ForcedToolChoice(q)
  BY <1>3 DEF ToolCallNames, ForcedToolChoice, OpenAIForced, AnthropicForced
<1> USE DEF EvidenceInv
<1>5. ObservedAreUnderWay'
  BY <1>2, <1>3 DEF ObservedAreUnderWay, Rewriting, Accounting, TypeOK
<1>6. SessionKnowsHistories'
  BY <1>3, <1>4 DEF SessionKnowsHistories, SessionId, TypeOK
<1>7. EvidenceStands'
  BY <1>2, <1>3 DEF EvidenceStands, Rewriting, SessionId
<1>8. FreshIsWhole'
  BY <1>1, <1>2 DEF FreshIsWhole, TypeOK
<1>9. PrunedHadNoEvidence'
  <2>1. pruned'[r] \cap (ProtectedTools \cup ForcedToolChoice(r) \cup evidence[r]) = {}
    <3>1. evidence[r] \subseteq sessions[SessionId(r)].toolsUsed
      BY <1>2 DEF EvidenceStands, Rewriting
    <3>2. CASE KeptByRequest(r, tool) \/ HasUsedTool(sessions[SessionId(r)], tool)
      BY <1>1, <3>2 DEF PrunedHadNoEvidence, TypeOK
    <3>3. CASE ~(KeptByRequest(r, tool) \/ HasUsedTool(sessions[SessionId(r)], tool))
      <4>1. pruned'[r] = pruned[r] \cup {tool}
        BY <1>1, <3>3 DEF TypeOK
      <4>2. tool \notin ProtectedTools \cup ForcedToolChoice(r) \cup evidence[r]
        BY <3>1, <3>3 DEF KeptByRequest, HasUsedTool
      <4>3. QED
        BY <4>1, <4>2 DEF PrunedHadNoEvidence
    <3>4. QED
      BY <3>2, <3>3
  <2>2. \A q \in Requests \ {r} : pruned'[q] = pruned[q]
    BY <1>1 DEF TypeOK
  <2>3. QED
    BY <1>3, <1>4, <2>1, <2>2 DEF PrunedHadNoEvidence
<1>10. QED
  BY <1>5, <1>6, <1>7, <1>8, <1>9

\* A restart takes what the sessions know, and with it every handler that relied
\* on it.
LEMMA RestartEvidence ==
  ASSUME TypeOK, EvidenceInv, Restart
  PROVE  EvidenceInv'
<1>1. \A q \in Requests :
        pc'[q] = IF pc[q] \in InFlight THEN "lost" ELSE pc[q]
  BY DEF Restart
<1>2. UNCHANGED <<request, pruned, evidence>> /\ observed' = {}
  BY DEF Restart
<1>3. \A q \in Requests : ForcedToolChoice(q)' = ForcedToolChoice(q)
  BY <1>2 DEF ForcedToolChoice, OpenAIForced, AnthropicForced
<1> USE DEF EvidenceInv
<1>4. ObservedAreUnderWay'
  BY <1>1, <1>2 DEF ObservedAreUnderWay, InFlight, Rewriting, Accounting
<1>5. SessionKnowsHistories'
  BY <1>2 DEF SessionKnowsHistories
<1>6. EvidenceStands'
  BY <1>1 DEF EvidenceStands, InFlight, Rewriting
<1>7. FreshIsWhole'
  BY <1>1, <1>2 DEF FreshIsWhole, InFlight
<1>8. PrunedHadNoEvidence'
  BY <1>2, <1>3 DEF PrunedHadNoEvidence
<1>9. QED
  BY <1>4, <1>5, <1>6, <1>7, <1>8

\* The remaining steps of the handlers and the upstream are quiet.
LEMMA QuietActions ==
  ASSUME TypeOK, NEW r \in Requests,
         HandlerStep(r) \/ Upstream(r), ~Observe(r), ~ScanTool(r)
  PROVE  \E to : QuietStep(r, to)
<1> DEFINE id == SessionId(r)
<1>1. id \in SessionIds /\ sessions[id] \in SessionStates
  BY RequestParts DEF TypeOK
<1> USE DEF QuietStep, Goto, serverVars, clientVars, historyVars
<1>2. (Refuse(r) => QuietStep(r, "done")) /\ (ReadBody(r) => QuietStep(r, "read"))
  BY DEF Refuse, ReadBody
<1>3. PassThrough(r) => QuietStep(r, "raw")
  BY DEF PassThrough
<1>4. CheckTurns(r) => QuietStep(r, IF MayPrune(r) THEN "gate" ELSE "shape")
  BY DEF CheckTurns, MayPrune, Rewriting
<1>5. CheckCacheHit(r) => QuietStep(r, "shape") \/ QuietStep(r, "scan")
  BY DEF CheckCacheHit, Rewriting
<1>6. ReadFingerprints(r) => QuietStep(r, "shaping")
  BY DEF ReadFingerprints, Rewriting
<1>7. ASSUME RecordFingerprints(r) PROVE QuietStep(r, "upstream")
  <2>1. request[r].print \in Prints \cup {NoPrint}
    BY DEF TypeOK, RequestForms
  <2>2. /\ sessions'[id] = RecordMessageFingerprint(sessions[id], request[r].print)
        /\ \A i \in SessionIds \ {id} : sessions'[i] = sessions[i]
    BY <1>1, <1>7 DEF RecordFingerprints, TypeOK
  <2>3. QED
    BY <1>1, <1>7, <2>1, <2>2, SessionMonotone DEF RecordFingerprints, Rewriting
<1>8. ASSUME RecordHit(r) PROVE QuietStep(r, "recorded")
  <2>1. (reply[r] = "hit") \in BOOLEAN
    OBVIOUS
  <2>2. /\ sessions'[id] = RecordCacheHit(sessions[id], reply[r] = "hit")
        /\ \A i \in SessionIds \ {id} : sessions'[i] = sessions[i]
    BY <1>1, <1>8 DEF RecordHit, TypeOK
  <2>3. /\ sessions'[id].toolsUsed = sessions[id].toolsUsed
        /\ sessions'[id].turns = sessions[id].turns
    BY <1>1, <2>1, <2>2, SessionMonotone
  <2>4. QED
    BY <1>8, <2>2, <2>3 DEF RecordHit
<1>9. Finish(r) => QuietStep(r, "done")
  BY DEF Finish
<1>10. Reply(r) => QuietStep(r, "answered")
  BY DEF Reply
<1>11. UpstreamError(r) => QuietStep(r, "answered")
  BY DEF UpstreamError
<1>12. UpstreamAbort(r) => QuietStep(r, "lost")
  BY DEF UpstreamAbort
<1>13. RawReply(r) => QuietStep(r, "done")
  BY DEF RawReply
<1> HIDE DEF QuietStep
<1>14. QED
  BY <1>2, <1>3, <1>4, <1>5, <1>6, <1>7, <1>8, <1>9, <1>10, <1>11, <1>12, <1>13
  DEF HandlerStep, Arrive, Rewrite, Upstream

LEMMA StutterEvidence ==
  ASSUME TypeOK, EvidenceInv, UNCHANGED vars
  PROVE  EvidenceInv'
<1>1. UNCHANGED <<sessions, pc, request, pruned, observed, evidence>>
  BY DEF vars, serverVars, handlerVars, historyVars
<1>2. \A q \in Requests :
        /\ ToolCallNames(q)' = ToolCallNames(q)
        /\ ForcedToolChoice(q)' = ForcedToolChoice(q)
  BY <1>1 DEF ToolCallNames, ForcedToolChoice, OpenAIForced, AnthropicForced
<1>3. QED
  BY <1>1, <1>2
  DEF EvidenceInv, ObservedAreUnderWay, SessionKnowsHistories, EvidenceStands,
      FreshIsWhole, PrunedHadNoEvidence, SessionId, TypeOK

LEMMA InitEvidence == Init => EvidenceInv
  BY DEF Init, EvidenceInv, ObservedAreUnderWay, SessionKnowsHistories,
         EvidenceStands, FreshIsWhole, PrunedHadNoEvidence, Rewriting, Accounting

\* The strengthened invariant holds in every reachable state.
THEOREM EvidenceInvariant == Spec => []EvidenceInv
<1>1. ASSUME TypeOK, EvidenceInv, [Next]_vars
      PROVE  EvidenceInv'
  <2>1. CASE \E c \in Clients : Send(c)
    BY <1>1, <2>1, SendEvidence
  <2>2. CASE \E r \in Requests : HandlerStep(r) \/ Upstream(r)
    BY <1>1, <2>2, ObserveEvidence, ScanEvidence, QuietActions, QuietEvidence
  <2>3. CASE Restart
    BY <1>1, <2>3, RestartEvidence
  <2>4. CASE UNCHANGED vars
    BY <1>1, <2>4, StutterEvidence
  <2>5. QED
    BY <1>1, <2>1, <2>2, <2>3, <2>4
    DEF Next, HandleChatCompletions, HandleAnthropicMessages, Exhausted
<1>2. QED
  BY InitEvidence, TypeCorrect, <1>1, PTL DEF Spec

\* No tool is dropped that is protected, forced by the request's tool_choice, or
\* called in the history of a request its session has observed (PruneTools).
THEOREM NoEvidenceAgainstPruned == Spec => []PrunedHadNoEvidence
  BY EvidenceInvariant, PTL DEF EvidenceInv

------------------------------------------------------------------------------
(* The turn counter and the gate in front of PruneTools.                   *)

\* A handler that has passed the gate has seen enough turns, and the counter of
\* its session has not gone back since.
PassedGate ==
  \A r \in Requests :
    pc[r] \in {"gate", "scan"} \/ (pc[r] \in InFlight /\ pruned[r] # {})
      => Turns(sessions[SessionId(r)]) >= MinObservedTurns

TurnInv ==
  /\ IsFiniteSet(observed)
  /\ TurnsCountObserved
  /\ PassedGate

\* The gate property follows from the counter and the count.
LEMMA GateFromTurns ==
  ASSUME TypeOK, TurnInv
  PROVE  GateNeedsObservedTurns
  BY RequestParts
  DEF TurnInv, TurnsCountObserved, PassedGate, GateNeedsObservedTurns

\* One more observed request is one more in the count of its session alone.
LEMMA ObserveCounts ==
  ASSUME TypeOK, EvidenceInv, TurnInv, NEW r \in Requests, Observe(r)
  PROVE  /\ IsFiniteSet(observed')
         /\ TurnsCountObserved'
<1> DEFINE id == SessionId(r)
<1>1. r \notin observed /\ observed' = observed \cup {r}
  BY DEF EvidenceInv, ObservedAreUnderWay, Observe, Goto
<1>2. IsFiniteSet(observed) /\ IsFiniteSet(observed')
  BY <1>1, FS_AddElement DEF TurnInv
<1>3. id \in SessionIds /\ sessions[id] \in SessionStates
  BY RequestParts DEF TypeOK
<1>4. /\ sessions'[id].turns = sessions[id].turns + 1
      /\ \A i \in SessionIds \ {id} : sessions'[i] = sessions[i]
  <2>1. ToolCallNames(r) \in SUBSET Tools
    BY DEF ToolCallNames, TypeOK, RequestForms
  <2>2. /\ sessions'[id] = ObserveToolCalls(sessions[id], ToolCallNames(r))
        /\ \A i \in SessionIds \ {id} : sessions'[i] = sessions[i]
    BY <1>3 DEF Observe, TypeOK
  <2>3. QED
    BY <1>3, <2>1, <2>2, SessionMonotone
<1>5. \A i \in SessionIds : IsFiniteSet(ObservedIn(i))
  BY <1>2, FS_Subset DEF ObservedIn
<1>6. ObservedIn(id)' = ObservedIn(id) \cup {r} /\ r \notin ObservedIn(id)
  BY <1>1 DEF ObservedIn, SessionId
<1>7. \A i \in SessionIds \ {id} : ObservedIn(i)' = ObservedIn(i)
  BY <1>1 DEF ObservedIn, SessionId
<1>8. Cardinality(ObservedIn(id)') = Cardinality(ObservedIn(id)) + 1
  BY <1>3, <1>5, <1>6, FS_AddElement
<1>9. TurnsCountObserved'
  BY <1>3, <1>4, <1>7, <1>8 DEF TurnInv, TurnsCountObserved, Turns
<1>10. QED
  BY <1>2, <1>9

LEMMA InitTurns == Init => TurnInv
<1> SUFFICES ASSUME Init PROVE TurnInv
  OBVIOUS
<1>1. \A id \in SessionIds : ObservedIn(id) = {} /\ Turns(sessions[id]) = 0
  BY DEF Init, ObservedIn, Turns, NewSession
<1>2. QED
  BY <1>1, FS_EmptySet
  DEF Init, TurnInv, TurnsCountObserved, PassedGate, InFlight

LEMMA SendTurns ==
  ASSUME TypeOK, EvidenceInv, TurnInv, NEW c \in Clients, Send(c)
  PROVE  TurnInv'
<1> DEFINE r == <<c, attempt[c] + 1>>
<1>1. r \in Requests
  BY NextRequest DEF Send
<1>2. /\ pc[r] = "idle" /\ pc'[r] = "received"
      /\ \A q \in Requests \ {r} : pc'[q] = pc[q]
      /\ pruned[r] = {}
  BY <1>1 DEF Send, Goto, TypeOK, EvidenceInv, FreshIsWhole
<1>3. UNCHANGED <<sessions, pruned, observed>>
  BY DEF Send, serverVars, historyVars
<1>4. PassedGate'
  BY <1>2, <1>3 DEF TurnInv, PassedGate, SessionId
<1>5. QED
  BY <1>3, <1>4 DEF TurnInv, TurnsCountObserved, ObservedIn

LEMMA ObserveTurns ==
  ASSUME TypeOK, EvidenceInv, TurnInv, NEW r \in Requests, Observe(r)
  PROVE  TurnInv'
<1>1. /\ pc[r] = "read" /\ pc'[r] = "observed"
      /\ \A q \in Requests \ {r} : pc'[q] = pc[q]
      /\ pruned[r] = {} /\ pruned' = pruned
  BY DEF Observe, Goto, TypeOK, EvidenceInv, FreshIsWhole
<1>2. \A q \in Requests :
        /\ SessionId(q) \in SessionIds
        /\ sessions[SessionId(q)] \in SessionStates
        /\ ToolCallNames(q) \in SUBSET Tools
  BY RequestParts DEF TypeOK, ToolCallNames, RequestForms
<1>3. \A i \in SessionIds : /\ Turns(sessions[i]) \in Nat
                            /\ Turns(sessions'[i]) \in Nat
                            /\ Turns(sessions[i]) <= Turns(sessions'[i])
  <2>1. /\ sessions'[SessionId(r)] = ObserveToolCalls(sessions[SessionId(r)], ToolCallNames(r))
        /\ \A i \in SessionIds \ {SessionId(r)} : sessions'[i] = sessions[i]
    BY <1>2 DEF Observe, TypeOK
  <2>2. \A i \in SessionIds : Turns(sessions[i]) \in Nat
    BY DEF TypeOK, SessionStates, Turns
  <2>3. Turns(sessions'[SessionId(r)]) = Turns(sessions[SessionId(r)]) + 1
    BY <1>2, <2>1, SessionMonotone DEF Turns
  <2>4. QED
    BY <1>2, <2>1, <2>2, <2>3
<1>4. \A q \in Requests :
        Turns(sessions[SessionId(q)]) >= MinObservedTurns =>
          Turns(sessions'[SessionId(q)]) >= MinObservedTurns
  BY <1>2, <1>3, OptionAssumption
<1>5. PassedGate'
  BY <1>1, <1>4 DEF TurnInv, PassedGate, SessionId, Turns
<1>6. QED
  BY <1>5, ObserveCounts DEF TurnInv

LEMMA ScanTurns ==
  ASSUME TypeOK, TurnInv, NEW r \in Requests, ScanTool(r)
  PROVE  TurnInv'
<1>1. /\ pc[r] = "scan"
      /\ \A q \in Requests \ {r} : pc'[q] = pc[q] /\ pruned'[q] = pruned[q]
      /\ UNCHANGED <<sessions, observed>>
  BY DEF ScanTool, Goto, TypeOK, serverVars, historyVars
<1>2. PassedGate'
  BY <1>1 DEF TurnInv, PassedGate, SessionId
<1>3. QED
  BY <1>1, <1>2 DEF TurnInv, TurnsCountObserved, ObservedIn

LEMMA QuietTurns ==
  ASSUME TypeOK, TurnInv, NEW r \in Requests, NEW to, QuietStep(r, to)
  PROVE  TurnInv'
<1>1. \A id \in SessionIds : Turns(sessions'[id]) = Turns(sessions[id])
  BY DEF QuietStep, Turns
<1>2. UNCHANGED <<pruned, observed>>
  BY DEF QuietStep
<1>3. PassedGate'
  <2>1. \A q \in Requests : SessionId(q) \in SessionIds
    BY RequestParts
  <2>2. \A q \in Requests \ {r} : pc'[q] = pc[q]
    BY DEF QuietStep, TypeOK
  <2>3. /\ pc'[r] = to
        /\ to \in {"gate", "scan"} => Turns(sessions[SessionId(r)]) >= MinObservedTurns
        /\ to \in InFlight => pc[r] \in InFlight
    BY DEF QuietStep, TypeOK, TurnInv, PassedGate, InFlight, Rewriting, Accounting
  <2>4. QED
    BY <1>1, <1>2, <2>1, <2>2, <2>3 DEF TurnInv, PassedGate, SessionId, Turns
<1>4. QED
  BY <1>1, <1>2, <1>3 DEF TurnInv, TurnsCountObserved, ObservedIn, Turns

LEMMA RestartTurns ==
  ASSUME TypeOK, Restart
  PROVE  TurnInv'
<1>1. observed' = {} /\ \A id \in SessionIds : Turns(sessions'[id]) = 0
  BY DEF Restart, Turns, NewSession
<1>2. \A id \in SessionIds : ObservedIn(id)' = {}
  BY <1>1 DEF ObservedIn
<1>3. \A q \in Requests : pc'[q] \notin InFlight
  BY DEF Restart, InFlight, Rewriting, Accounting
<1>4. PassedGate'
  BY <1>3 DEF PassedGate, InFlight, Rewriting
<1>5. QED
  BY <1>1, <1>2, <1>4, FS_EmptySet DEF TurnInv, TurnsCountObserved, Turns

\* The strengthened invariant about turns holds in every reachable state.
THEOREM TurnInvariant == Spec => []TurnInv
<1>1. ASSUME TypeOK, EvidenceInv, TurnInv, [Next]_vars
      PROVE  TurnInv'
  <2>1. CASE \E c \in Clients : Send(c)
    BY <1>1, <2>1, SendTurns
  <2>2. CASE \E r \in Requests : HandlerStep(r) \/ Upstream(r)
    BY <1>1, <2>2, ObserveTurns, ScanTurns, QuietActions, QuietTurns
  <2>3. CASE Restart
    BY <1>1, <2>3, RestartTurns
  <2>4. CASE UNCHANGED vars
    BY <1>1, <2>4
    DEF vars, serverVars, handlerVars, historyVars, TurnInv, TurnsCountObserved,
        PassedGate, ObservedIn, SessionId
  <2>5. QED
    BY <1>1, <2>1, <2>2, <2>3, <2>4
    DEF Next, HandleChatCompletions, HandleAnthropicMessages, Exhausted
<1>2. QED
  BY InitTurns, TypeCorrect, EvidenceInvariant, <1>1, PTL DEF Spec

\* A session's turn counter is the number of requests observed under its id since
\* the process started (ObserveToolCalls under concurrent handlers).
THEOREM TurnsAreObservations == Spec => []TurnsCountObserved
  BY TurnInvariant, PTL DEF TurnInv

\* Tools are missing from a request in flight only if its session has been observed
\* often enough (minObservedTurnsForPrune).
THEOREM GateHolds == Spec => []GateNeedsObservedTurns
  BY TypeCorrect, TurnInvariant, GateFromTurns, PTL

------------------------------------------------------------------------------
(* What a step may never take away.                                        *)

\* Requests that look the same before and after a step are forwarded the same.
LEMMA SameForwarded ==
  ASSUME NEW r \in Requests, request'[r] = request[r], pruned'[r] = pruned[r]
  PROVE  Forwarded(r)' = Forwarded(r)
  BY DEF Forwarded

LEMMA SendForgetsNothing ==
  ASSUME TypeOK, NEW c \in Clients, Send(c)
  PROVE  ForgetsNothing
<1> DEFINE r == <<c, attempt[c] + 1>>
<1>1. r \in Requests /\ pc[r] = "idle"
  BY NextRequest DEF Send, Goto
<1>2. \A q \in Requests \ {r} : request'[q] = request[q]
  BY <1>1 DEF Send, TypeOK
<1>3. UNCHANGED <<sessions, pruned>>
  BY DEF Send, serverVars
<1>4. \A q \in Requests : pc[q] = "upstream" => Forwarded(q)' = Forwarded(q)
  BY <1>1, <1>2, <1>3, SameForwarded
<1>5. QED
  BY <1>3, <1>4 DEF ForgetsNothing, TypeOK, SessionStates

LEMMA HandlerForgetsNothing ==
  ASSUME TypeOK, NEW r \in Requests, HandlerStep(r) \/ Upstream(r)
  PROVE  ForgetsNothing
<1>1. SessionId(r) \in SessionIds /\ sessions[SessionId(r)] \in SessionStates
  BY RequestParts DEF TypeOK
<1>2. \A id \in SessionIds : sessions[id].turns \in Nat
  BY DEF TypeOK, SessionStates
<1>3. CASE Observe(r)
  <2>1. ToolCallNames(r) \in SUBSET Tools
    BY DEF ToolCallNames, TypeOK, RequestForms
  <2>2. /\ sessions'[SessionId(r)] =
             ObserveToolCalls(sessions[SessionId(r)], ToolCallNames(r))
        /\ \A id \in SessionIds \ {SessionId(r)} : sessions'[id] = sessions[id]
    BY <1>1, <1>3 DEF Observe, TypeOK
  <2>3. \A id \in SessionIds :
          /\ sessions[id].toolsUsed \subseteq sessions'[id].toolsUsed
          /\ sessions[id].turns <= sessions'[id].turns
    <3>1. /\ sessions'[SessionId(r)].toolsUsed =
               sessions[SessionId(r)].toolsUsed \cup ToolCallNames(r)
          /\ sessions'[SessionId(r)].turns = sessions[SessionId(r)].turns + 1
      BY <1>1, <2>1, <2>2, SessionMonotone
    <3>2. QED
      BY <1>1, <1>2, <2>2, <3>1
  <2>4. UNCHANGED <<request, pruned>>
    BY <1>3 DEF Observe
  <2>5. QED
    BY <2>3, <2>4, SameForwarded DEF ForgetsNothing
<1>4. CASE ScanTool(r)
  <2>1. /\ pc[r] = "scan" /\ UNCHANGED <<sessions, request>>
        /\ \A q \in Requests \ {r} : pruned'[q] = pruned[q]
    BY <1>4 DEF ScanTool, Goto, TypeOK, serverVars
  <2>2. \A q \in Requests : pc[q] = "upstream" => Forwarded(q)' = Forwarded(q)
    BY <2>1, SameForwarded
  <2>3. QED
    BY <1>2, <2>1, <2>2 DEF ForgetsNothing
<1>5. ASSUME NEW to, QuietStep(r, to)
      PROVE  ForgetsNothing
  <2>1. \A q \in Requests : Forwarded(q)' = Forwarded(q)
    BY <1>5, SameForwarded DEF QuietStep
  <2>2. QED
    BY <1>2, <1>5, <2>1 DEF ForgetsNothing, QuietStep
<1>6. QED
  BY <1>3, <1>4, <1>5, QuietActions

\* Short of a restart no step of any handler makes a session forget a call or a
\* turn, and a request stays as it was rewritten (Session, Apply).
THEOREM SessionsForgetNothing == Spec => NothingForgotten
<1>1. ASSUME TypeOK, [Next]_vars
      PROVE  [ForgetsNothing]_vars
  <2>1. CASE \E c \in Clients : Send(c)
    BY <1>1, <2>1, SendForgetsNothing
  <2>2. CASE \E r \in Requests : HandlerStep(r) \/ Upstream(r)
    BY <1>1, <2>2, HandlerForgetsNothing
  <2>3. CASE Restart
    <3>1. restarts \in Nat /\ restarts' = restarts + 1
      BY <1>1, <2>3, OptionAssumption DEF TypeOK, Restart
    <3>2. QED
      BY <3>1 DEF ForgetsNothing
  <2>4. QED
    BY <1>1, <2>1, <2>2, <2>3
    DEF Next, HandleChatCompletions, HandleAnthropicMessages, Exhausted
<1>2. QED
  BY <1>1, TypeCorrect, PTL DEF Spec, NothingForgotten

------------------------------------------------------------------------------
(* One request of a client after the other.                                *)

\* Only the last request of a client is under way, unless it gives up on requests
\* and sends again.
TurnByTurn ==
  \A c \in Clients, k \in 1 .. MaxAttempts :
    /\ k < attempt[c] /\ c \notin EagerClients => pc[<<c, k>>] \in Final
    /\ k > attempt[c] => pc[<<c, k>>] = "idle"

\* A step of a handler or of its upstream, as far as the flags and the turns can tell
\* it from others.
StepOf(r) ==
  LET s == sessions[SessionId(r)]
      t == sessions'[SessionId(r)]
  IN  /\ pc[r] \in InFlight
      /\ attempt' = attempt
      /\ \A q \in Requests \ {r} :
           pc'[q] = pc[q] /\ pruned'[q] = pruned[q] /\ reply'[q] = reply[q]
      /\ \A id \in SessionIds \ {SessionId(r)} : sessions'[id] = sessions[id]
      /\ \/ reply'[r] = reply[r]
         \/ pc[r] = "upstream" /\ pc'[r] = "answered"
      /\ pc[r] # "scan" => pruned'[r] = pruned[r]
      /\ pc[r] # "answered" => LastCacheHit(t) = LastCacheHit(s)
      /\ \/ observed' = observed
         \/ pc'[r] = "observed" /\ observed' = observed \cup {r}
      /\ \/ pc[r] = "received" /\ pc'[r] \in {"read", "done"} /\ t = s
         \/ /\ pc[r] = "read"
            /\ \/ pc'[r] = "raw" /\ t = s
               \/ /\ pc'[r] = "observed"
                  /\ Turns(t) = Turns(s) + 1 /\ LastCacheHit(t) = LastCacheHit(s)
         \/ /\ pc[r] = "observed"
            /\ pc'[r] = "shape" \/ (pc'[r] = "gate" /\ Turns(s) >= MinObservedTurns)
            /\ t = s
         \/ /\ pc[r] = "gate"
            /\ pc'[r] = "shape" \/ (pc'[r] = "scan" /\ ~LastCacheHit(s))
         \/ /\ pc[r] \in {"scan", "shape", "shaping", "upstream", "raw"}
            /\ pc'[r] \in {"scan", "shape", "shaping", "upstream", "answered", "lost", "done"}
            /\ pc'[r] = "scan" => pc[r] = "scan"
            /\ pc'[r] = "done" => pc[r] = "raw"
         \/ /\ pc[r] = "answered" /\ pc'[r] = "recorded"
            /\ LastCacheHit(t) = (reply[r] = "hit")
         \/ /\ pc[r] = "recorded" /\ pc'[r] = "done"
            /\ t = s

LEMMA EveryStepOf ==
  ASSUME TypeOK, NEW r \in Requests, HandlerStep(r) \/ Upstream(r)
  PROVE  StepOf(r)
<1> DEFINE id == SessionId(r)
<1>1. id \in SessionIds /\ sessions[id] \in SessionStates
  BY RequestParts DEF TypeOK
<1>2. ToolCallNames(r) \in SUBSET Tools /\ request[r].print \in Prints \cup {NoPrint}
  BY DEF TypeOK, RequestForms, ToolCallNames
<1>3. /\ pc \in [Requests -> {"idle"} \cup InFlight \cup Final]
      /\ pruned \in [Requests -> SUBSET Tools] /\ reply \in [Requests -> Replies]
      /\ sessions \in [SessionIds -> SessionStates]
  BY DEF TypeOK
<1>4. /\ {"received", "read", "raw", "upstream"} \cup Rewriting \cup Accounting \subseteq InFlight
      /\ Rewriting = {"observed", "gate", "scan", "shape", "shaping"}
      /\ Accounting = {"answered", "recorded"}
  BY DEF InFlight, Rewriting, Accounting
<1> USE DEF StepOf, Goto, serverVars, clientVars, historyVars
<1>5. Arrive(r) \/ PassThrough(r) => StepOf(r)
  BY <1>1, <1>3, <1>4 DEF Arrive, Refuse, ReadBody, PassThrough
<1>6. ASSUME Observe(r) PROVE StepOf(r)
  <2>1. /\ sessions'[id] = ObserveToolCalls(sessions[id], ToolCallNames(r))
        /\ \A i \in SessionIds \ {id} : sessions'[i] = sessions[i]
    BY <1>1, <1>3, <1>6 DEF Observe
  <2>2. /\ Turns(sessions'[id]) = Turns(sessions[id]) + 1
        /\ LastCacheHit(sessions'[id]) = LastCacheHit(sessions[id])
    BY <1>1, <1>2, <2>1, SessionMonotone DEF Turns, LastCacheHit
  <2>3. QED
    BY <1>3, <1>4, <1>6, <2>1, <2>2 DEF Observe
<1>7. CheckTurns(r) => StepOf(r)
  BY <1>1, <1>3, <1>4 DEF CheckTurns, MayPrune
<1>8. CheckCacheHit(r) => StepOf(r)
  BY <1>1, <1>3, <1>4 DEF CheckCacheHit
<1>9. ScanTool(r) => StepOf(r)
  BY <1>1, <1>3, <1>4 DEF ScanTool
<1>10. ReadFingerprints(r) => StepOf(r)
  BY <1>1, <1>3, <1>4 DEF ReadFingerprints
<1>11. ASSUME RecordFingerprints(r) PROVE StepOf(r)
  <2>1. /\ sessions'[id] = RecordMessageFingerprint(sessions[id], request[r].print)
        /\ \A i \in SessionIds \ {id} : sessions'[i] = sessions[i]
    BY <1>1, <1>3, <1>11 DEF RecordFingerprints
  <2>2. LastCacheHit(sessions'[id]) = LastCacheHit(sessions[id])
    BY <1>1, <1>2, <2>1, SessionMonotone DEF LastCacheHit
  <2>3. QED
    BY <1>3, <1>4, <1>11, <2>1, <2>2 DEF RecordFingerprints
<1>12. Reply(r) \/ UpstreamError(r) => StepOf(r)
  BY <1>1, <1>3, <1>4 DEF Reply, UpstreamError
<1>13. UpstreamAbort(r) \/ RawReply(r) => StepOf(r)
  BY <1>1, <1>3, <1>4 DEF UpstreamAbort, RawReply
<1>14. ASSUME RecordHit(r) PROVE StepOf(r)
  <2>1. /\ sessions'[id] = RecordCacheHit(sessions[id], reply[r] = "hit")
        /\ \A i \in SessionIds \ {id} : sessions'[i] = sessions[i]
    BY <1>1, <1>3, <1>14 DEF RecordHit
  <2>2. LastCacheHit(sessions'[id]) = (reply[r] = "hit")
    <3>1. (reply[r] = "hit") \in BOOLEAN
      OBVIOUS
    <3>2. QED
      BY <1>1, <2>1, <3>1, SessionMonotone DEF LastCacheHit
  <2>3. QED
    BY <1>3, <1>4, <1>14, <2>1, <2>2 DEF RecordHit
<1>15. Finish(r) => StepOf(r)
  BY <1>1, <1>3, <1>4 DEF Finish
<1> HIDE DEF StepOf
<1>16. QED
  BY <1>5, <1>6, <1>7, <1>8, <1>9, <1>10, <1>11, <1>12, <1>13, <1>14, <1>15
  DEF HandlerStep, Arrive, Rewrite, Upstream

\* A client that waits has nothing after the request that is being handled.
LEMMA LastUnderWay ==
  ASSUME TypeOK, TurnByTurn, NEW r \in Requests, pc[r] \in InFlight,
         r[1] \notin EagerClients
  PROVE  r[2] = attempt[r[1]]
<1>1. r = <<r[1], r[2]>> /\ r[1] \in Clients /\ r[2] \in 1 .. MaxAttempts
  BY RequestParts DEF Requests
<1>2. /\ r[2] < attempt[r[1]] => pc[r] \in Final
      /\ r[2] > attempt[r[1]] => pc[r] = "idle"
  BY <1>1 DEF TurnByTurn
<1>3. attempt[r[1]] \in Nat /\ r[2] \in Nat
  BY <1>1, ClientAssumption DEF TypeOK
<1>4. pc[r] \notin Final /\ pc[r] # "idle"
  BY DEF InFlight, Rewriting, Accounting, Final
<1>5. QED
  BY <1>2, <1>3, <1>4

LEMMA SendTurnByTurn ==
  ASSUME TypeOK, TurnByTurn, NEW d \in Clients, Send(d)
  PROVE  TurnByTurn'
<1> DEFINE x == <<d, attempt[d] + 1>>
<1>1. /\ x \in Requests
      /\ \A q \in Requests \ {x} : pc'[q] = pc[q]
  BY NextRequest DEF Send, Goto, TypeOK
<1>2. /\ attempt'[d] = attempt[d] + 1
      /\ \A c \in Clients \ {d} : attempt'[c] = attempt[c]
      /\ \A c \in Clients : attempt[c] \in Nat
      /\ d \notin EagerClients /\ attempt[d] > 0 => pc[<<d, attempt[d]>>] \in Final
      /\ attempt[d] < MaxAttempts /\ MaxAttempts \in Nat
  BY ClientAssumption DEF Send, TypeOK
<1>3. SUFFICES ASSUME NEW c \in Clients, NEW k \in 1 .. MaxAttempts
               PROVE  /\ k < attempt'[c] /\ c \notin EagerClients => pc'[<<c, k>>] \in Final
                      /\ k > attempt'[c] => pc'[<<c, k>>] = "idle"
  BY DEF TurnByTurn
<1>4. <<c, k>> \in Requests
  BY DEF Requests
<1>5. /\ k < attempt[c] /\ c \notin EagerClients => pc[<<c, k>>] \in Final
      /\ k > attempt[c] => pc[<<c, k>>] = "idle"
  BY DEF TurnByTurn
<1>6. CASE c # d
  BY <1>1, <1>2, <1>4, <1>5, <1>6
<1>7. CASE c = d
  <2>1. k < attempt[d] + 1 => k < attempt[d] \/ (k = attempt[d] /\ attempt[d] > 0)
    BY <1>2
  <2>2. k > attempt[d] + 1 => k > attempt[d]
    BY <1>2
  <2>3. k # attempt[d] + 1 => pc'[<<c, k>>] = pc[<<c, k>>]
    BY <1>1, <1>4, <1>7
  <2>4. k < attempt[d] + 1 => k # attempt[d] + 1
    BY <1>2
  <2>5. k > attempt[d] + 1 => k # attempt[d] + 1
    BY <1>2
  <2>6. QED
    BY <1>2, <1>5, <1>7, <2>1, <2>2, <2>3, <2>4, <2>5
<1>8. QED
  BY <1>6, <1>7

LEMMA StepTurnByTurn ==
  ASSUME TypeOK, TurnByTurn, NEW x \in Requests, StepOf(x)
  PROVE  TurnByTurn'
<1>1. /\ pc[x] \in InFlight /\ attempt' = attempt
      /\ \A q \in Requests \ {x} : pc'[q] = pc[q]
  BY DEF StepOf
<1>2. SUFFICES ASSUME NEW c \in Clients, NEW k \in 1 .. MaxAttempts
               PROVE  /\ k < attempt[c] /\ c \notin EagerClients => pc'[<<c, k>>] \in Final
                      /\ k > attempt[c] => pc'[<<c, k>>] = "idle"
  BY <1>1 DEF TurnByTurn
<1>3. <<c, k>> \in Requests
  BY DEF Requests
<1>4. /\ k < attempt[c] /\ c \notin EagerClients => pc[<<c, k>>] \in Final
      /\ k > attempt[c] => pc[<<c, k>>] = "idle"
  BY DEF TurnByTurn
<1>5. pc[x] \notin Final /\ pc[x] # "idle"
  BY <1>1 DEF InFlight, Rewriting, Accounting, Final
<1>6. QED
  BY <1>1, <1>3, <1>4, <1>5

LEMMA RestartTurnByTurn ==
  ASSUME TypeOK, TurnByTurn, Restart
  PROVE  TurnByTurn'
<1>1. /\ attempt' = attempt
      /\ \A r \in Requests : pc'[r] = IF pc[r] \in InFlight THEN "lost" ELSE pc[r]
  BY DEF Restart, clientVars
<1>2. \A c \in Clients, k \in 1 .. MaxAttempts : <<c, k>> \in Requests
  BY DEF Requests
<1>3. QED
  BY <1>1, <1>2 DEF TurnByTurn, InFlight, Rewriting, Accounting, Final

\* The requests of a client that waits are handled one at a time, whatever the
\* others do.
THEOREM OneAtATime == Spec => []TurnByTurn
<1>1. Init => TurnByTurn
  BY DEF Init, TurnByTurn, Requests
<1>2. ASSUME TypeOK, TurnByTurn, [Next]_vars
      PROVE  TurnByTurn'
  <2>1. CASE \E c \in Clients : Send(c)
    BY <1>2, <2>1, SendTurnByTurn
  <2>2. CASE \E r \in Requests : HandlerStep(r) \/ Upstream(r)
    BY <1>2, <2>2, EveryStepOf, StepTurnByTurn
  <2>3. CASE Restart
    BY <1>2, <2>3, RestartTurnByTurn
  <2>4. CASE UNCHANGED vars
    BY <1>2, <2>4 DEF vars, handlerVars, clientVars, TurnByTurn
  <2>5. QED
    BY <1>2, <2>1, <2>2, <2>3, <2>4
    DEF Next, HandleChatCompletions, HandleAnthropicMessages, Exhausted
<1>3. QED
  BY <1>1, <1>2, TypeCorrect, PTL DEF Spec

------------------------------------------------------------------------------
(* Where a session's cache-hit flag comes from.                            *)

\* A step that leaves the flags, the recorded requests and their answers as they are
\* leaves the flags justified.
LEMMA SameFlags ==
  ASSUME FlagIsCurrent,
         \A id \in SessionIds :
           /\ LastCacheHit(sessions[id])' = LastCacheHit(sessions[id])
           /\ RecordedIn(id)' = RecordedIn(id)
           /\ \A q \in RecordedIn(id) : reply'[q] = reply[q]
  PROVE  FlagIsCurrent'
  BY DEF FlagIsCurrent

LEMMA SendKeepsFlags ==
  ASSUME TypeOK, EvidenceInv, FlagIsCurrent, NEW c \in Clients, Send(c)
  PROVE  FlagIsCurrent'
<1> DEFINE r == <<c, attempt[c] + 1>>
<1>1. r \in Requests /\ r \notin observed /\ observed \subseteq Requests
  BY NextRequest DEF Send, Goto, EvidenceInv, ObservedAreUnderWay, TypeOK
<1>2. \A q \in Requests \ {r} : pc'[q] = pc[q]
  BY <1>1 DEF Send, Goto, TypeOK
<1>3. UNCHANGED <<sessions, reply, observed>>
  BY DEF Send, serverVars, historyVars
<1>4. \A id \in SessionIds : RecordedIn(id)' = RecordedIn(id)
  BY <1>1, <1>2, <1>3 DEF RecordedIn, ObservedIn, SessionId
<1>5. QED
  BY <1>3, <1>4, SameFlags DEF LastCacheHit

\* Recording an answer is the one step that touches a flag; it gives it the source.
LEMMA RecordGivesFlag ==
  ASSUME TypeOK, EvidenceInv, TurnByTurn, FlagIsCurrent,
         NEW r \in Requests, StepOf(r), pc[r] = "answered"
  PROVE  FlagIsCurrent'
<1> DEFINE id == SessionId(r)
<1>1. id \in SessionIds /\ r \in observed /\ observed \subseteq Requests
  BY RequestParts DEF EvidenceInv, ObservedAreUnderWay, Accounting, TypeOK
<1>2. /\ pc'[r] = "recorded" /\ observed' = observed
      /\ LastCacheHit(sessions'[id]) = (reply[r] = "hit")
      /\ \A i \in SessionIds \ {id} : sessions'[i] = sessions[i]
      /\ \A q \in Requests : reply'[q] = reply[q]
      /\ \A q \in Requests \ {r} : pc'[q] = pc[q]
  BY DEF StepOf
<1>3. /\ RecordedIn(id)' = RecordedIn(id) \cup {r}
      /\ \A i \in SessionIds \ {id} : RecordedIn(i)' = RecordedIn(i)
  BY <1>1, <1>2 DEF RecordedIn, ObservedIn, SessionId
<1>4. \A i \in SessionIds : RecordedIn(i) \subseteq Requests
  BY <1>1 DEF RecordedIn, ObservedIn
<1>5. ASSUME r[1] \notin EagerClients, NEW k \in r[2] + 1 .. MaxAttempts
      PROVE  <<r[1], k>> \notin RecordedIn(id)'
  <2>1. r[2] = attempt[r[1]]
    BY <1>5, LastUnderWay DEF InFlight, Accounting
  <2>2. /\ r[1] \in Clients /\ r[2] \in 1 .. MaxAttempts /\ k \in 1 .. MaxAttempts
        /\ k > attempt[r[1]] /\ k # r[2]
    BY <1>5, <2>1, RequestParts, ClientAssumption
  <2>3. pc[<<r[1], k>>] = "idle"
    BY <2>2 DEF TurnByTurn
  <2>4. <<r[1], k>> # r
    BY <2>2
  <2>5. QED
    BY <1>3, <2>3, <2>4 DEF RecordedIn
<1>6. ASSUME NEW i \in SessionIds
      PROVE  /\ RecordedIn(i)' = {} => ~ LastCacheHit(sessions'[i])
             /\ RecordedIn(i)' # {} =>
                  \E q \in RecordedIn(i)' :
                    /\ LastCacheHit(sessions'[i]) = (reply'[q] = "hit")
                    /\ q[1] \notin EagerClients =>
                         \A k \in q[2] + 1 .. MaxAttempts : <<q[1], k>> \notin RecordedIn(i)'
  <2>1. CASE i = id
    BY <1>2, <1>3, <1>5, <2>1
  <2>2. CASE i # id
    <3>1. /\ RecordedIn(i)' = RecordedIn(i) /\ sessions'[i] = sessions[i]
          /\ \A q \in RecordedIn(i) : reply'[q] = reply[q]
      BY <1>2, <1>3, <1>4, <2>2
    <3>2. QED
      BY <3>1 DEF FlagIsCurrent
  <2>3. QED
    BY <2>1, <2>2
<1>7. QED
  BY <1>6 DEF FlagIsCurrent, LastCacheHit

\* No other step of a handler or the upstream changes what has been recorded.
LEMMA StepKeepsFlags ==
  ASSUME TypeOK, EvidenceInv, FlagIsCurrent,
         NEW r \in Requests, StepOf(r), pc[r] # "answered"
  PROVE  FlagIsCurrent'
<1>1. /\ SessionId(r) \in SessionIds /\ observed \subseteq Requests
      /\ r \in observed => pc[r] \notin {"received", "read", "raw"}
  BY RequestParts DEF EvidenceInv, ObservedAreUnderWay, TypeOK
<1>2. /\ LastCacheHit(sessions'[SessionId(r)]) = LastCacheHit(sessions[SessionId(r)])
      /\ \A i \in SessionIds \ {SessionId(r)} : sessions'[i] = sessions[i]
      /\ \A q \in Requests \ {r} : pc'[q] = pc[q] /\ reply'[q] = reply[q]
      /\ reply'[r] = reply[r] \/ pc[r] = "upstream"
  BY DEF StepOf
<1>3. \A i \in SessionIds : LastCacheHit(sessions[i])' = LastCacheHit(sessions[i])
  BY <1>1, <1>2 DEF LastCacheHit
<1>4. /\ \A q \in Requests \ {r} : q \in observed' <=> q \in observed
      /\ observed' \subseteq Requests
      /\ r \in observed' /\ pc'[r] \in {"recorded", "done"} <=>
           r \in observed /\ pc[r] \in {"recorded", "done"}
  BY <1>1 DEF StepOf
<1>5. \A i \in SessionIds : RecordedIn(i)' = RecordedIn(i)
  BY <1>1, <1>2, <1>4 DEF RecordedIn, ObservedIn, SessionId
<1>6. \A i \in SessionIds : \A q \in RecordedIn(i) : reply'[q] = reply[q]
  BY <1>1, <1>2 DEF RecordedIn, ObservedIn
<1>7. QED
  BY <1>3, <1>5, <1>6, SameFlags

LEMMA FreshFlag == ~LastCacheHit(NewSession)
  BY DEF LastCacheHit, NewSession

\* The flag of a session is that of an answer which one of its requests has recorded
\* since the process started, the latest one of its client if that client waits for
\* its requests to end (RecordCacheHit, LastCacheHit).
THEOREM FlagsAreCurrent == Spec => []FlagIsCurrent
<1>1. Init => FlagIsCurrent
  BY FreshFlag DEF Init, FlagIsCurrent, RecordedIn, ObservedIn
<1>2. ASSUME TypeOK, EvidenceInv, TurnByTurn, FlagIsCurrent, [Next]_vars
      PROVE  FlagIsCurrent'
  <2>1. CASE \E c \in Clients : Send(c)
    BY <1>2, <2>1, SendKeepsFlags
  <2>2. CASE \E r \in Requests : HandlerStep(r) \/ Upstream(r)
    BY <1>2, <2>2, EveryStepOf, RecordGivesFlag, StepKeepsFlags
  <2>3. CASE Restart
    BY <2>3, FreshFlag DEF Restart, FlagIsCurrent, RecordedIn, ObservedIn, LastCacheHit
  <2>4. CASE UNCHANGED vars
    BY <1>2, <2>4, SameFlags
    DEF vars, serverVars, handlerVars, historyVars, RecordedIn, ObservedIn,
        SessionId, LastCacheHit
  <2>5. QED
    BY <1>2, <2>1, <2>2, <2>3, <2>4
    DEF Next, HandleChatCompletions, HandleAnthropicMessages, Exhausted
<1>3. QED
  BY <1>1, <1>2, TypeCorrect, EvidenceInvariant, OneAtATime, PTL DEF Spec

------------------------------------------------------------------------------
(* The turn after a hit, for clients that wait for the end of a request before *)
(* they send the next.                                                         *)

\* An answer is known from the end of ServeHTTP on.
RepliesAreAnswers ==
  \A r \in Requests : reply[r] # "none" => pc[r] \in Accounting \cup Final

\* Nobody else uses the client's session.
Alone(c) == \A d \in Clients \ {c} : SessionOf[d] # SessionOf[c]

\* Once a hit is recorded, the flag stands when the next turn comes to the gate,
\* unless the process has been started again; then the session is too young to prune.
Spared(c, k) ==
  LET r == <<c, k>>
      q == <<c, k + 1>>
      s == sessions[SessionOf[c]]
  IN  reply[r] = "hit" =>
        /\ pruned[q] = {}
        /\ pc[q] # "scan"
        /\ pc[q] \in {"idle", "received", "read"} =>
             pc[r] = "answered" \/ LastCacheHit(s) \/ Turns(s) = 0
        /\ pc[q] = "observed" => LastCacheHit(s) \/ Turns(s) <= 1
        /\ pc[q] = "gate" => LastCacheHit(s)

SparedInv ==
  /\ RepliesAreAnswers
  /\ \A c \in Clients, k \in 1 .. MaxAttempts - 1 : Alone(c) => Spared(c, k)

\* The requests of one client, by number.
LEMMA OwnRequests ==
  ASSUME NEW c \in Clients, NEW k \in 1 .. MaxAttempts - 1
  PROVE  /\ <<c, k>> \in Requests /\ <<c, k + 1>> \in Requests
         /\ SessionId(<<c, k>>) = SessionOf[c] /\ SessionId(<<c, k + 1>>) = SessionOf[c]
         /\ SessionOf[c] \in SessionIds
         /\ k \in 1 .. MaxAttempts /\ k + 1 \in 1 .. MaxAttempts
  BY ClientAssumption DEF Requests, SessionId

\* Other clients, and later turns of the same, cannot disturb what is spared.
LEMMA StaysSpared ==
  ASSUME NEW c \in Clients, NEW k \in 1 .. MaxAttempts - 1, Spared(c, k),
         LastCacheHit(sessions[SessionOf[c]])' = LastCacheHit(sessions[SessionOf[c]]),
         Turns(sessions[SessionOf[c]])' = Turns(sessions[SessionOf[c]]),
         pc'[<<c, k>>] = pc[<<c, k>>], pc'[<<c, k + 1>>] = pc[<<c, k + 1>>],
         pruned'[<<c, k + 1>>] = pruned[<<c, k + 1>>], reply'[<<c, k>>] = reply[<<c, k>>]
  PROVE  Spared(c, k)'
  BY DEF Spared

LEMMA SendSpares ==
  ASSUME TypeOK, SparedInv, NEW d \in Clients, Send(d)
  PROVE  SparedInv'
<1> DEFINE x == <<d, attempt[d] + 1>>
<1>1. /\ x \in Requests
      /\ pc[x] = "idle" /\ pc'[x] = "received"
      /\ \A q \in Requests \ {x} : pc'[q] = pc[q]
      /\ UNCHANGED <<sessions, pruned, reply>>
  BY NextRequest DEF Send, Goto, TypeOK, serverVars
<1>2. RepliesAreAnswers'
  BY <1>1 DEF SparedInv, RepliesAreAnswers, Accounting, Final
<1>3. ASSUME NEW c \in Clients, NEW k \in 1 .. MaxAttempts - 1, Alone(c)
      PROVE  Spared(c, k)'
  <2>1. Spared(c, k)
    BY <1>3 DEF SparedInv
  <2>2. <<c, k>> \in Requests /\ <<c, k + 1>> \in Requests
    BY OwnRequests
  <2>3. CASE x = <<c, k>>
    BY <1>1, <2>3 DEF SparedInv, RepliesAreAnswers, Spared, Accounting, Final
  <2>4. CASE x # <<c, k>>
    BY <1>1, <2>1, <2>2, <2>4 DEF Spared
  <2>5. QED
    BY <2>3, <2>4
<1>4. QED
  BY <1>2, <1>3 DEF SparedInv

LEMMA StepSpares ==
  ASSUME EagerClients = {}, MinObservedTurns >= 2,
         TypeOK, EvidenceInv, TurnByTurn, SparedInv, NEW x \in Requests, StepOf(x)
  PROVE  SparedInv'
<1>1. /\ pc[x] \in InFlight /\ pc'[x] # "idle" /\ attempt' = attempt
      /\ \A q \in Requests \ {x} :
           pc'[q] = pc[q] /\ pruned'[q] = pruned[q] /\ reply'[q] = reply[q]
      /\ \A id \in SessionIds \ {SessionId(x)} : sessions'[id] = sessions[id]
  BY DEF StepOf
<1>2. x = <<x[1], x[2]>> /\ x[1] \in Clients /\ x[2] \in 1 .. MaxAttempts
  BY RequestParts DEF Requests
<1>3. x[2] = attempt[x[1]]
  BY <1>1, LastUnderWay
<1>4. RepliesAreAnswers'
  <2>1. reply'[x] # "none" => pc'[x] \in Accounting \cup Final
    BY DEF StepOf, SparedInv, RepliesAreAnswers, Accounting, Final
  <2>2. QED
    BY <1>1, <2>1 DEF SparedInv, RepliesAreAnswers
<1>5. ASSUME NEW c \in Clients, NEW k \in 1 .. MaxAttempts - 1, Alone(c)
      PROVE  Spared(c, k)'
  <2> DEFINE r == <<c, k>>
             q == <<c, k + 1>>
             id == SessionOf[c]
  <2>1. Spared(c, k)
    BY <1>5 DEF SparedInv
  <2>2. /\ r \in Requests /\ q \in Requests /\ id \in SessionIds
        /\ SessionId(r) = id /\ SessionId(q) = id /\ r # q
    BY OwnRequests
  <2>3. CASE x[1] # c
    <3>1. SessionId(x) # id
      BY <1>2, <1>5, <2>3 DEF Alone, SessionId
    <3>2. QED
      BY <1>1, <2>1, <2>2, <2>3, <3>1, StaysSpared
  <2>4. CASE x = r
    <3>1. pc[q] = "idle" /\ pc'[q] = "idle" /\ pruned[q] = {} /\ pruned'[q] = {}
      <4>1. x[1] = c /\ x[2] = k
        BY <2>4
      <4>2. attempt[c] = k
        BY <1>3, <4>1
      <4>3. k + 1 > attempt[c] /\ k + 1 \in 1 .. MaxAttempts
        BY <4>2, ClientAssumption
      <4>4. pc[q] = "idle"
        BY <4>3 DEF TurnByTurn
      <4>5. QED
        BY <1>1, <2>2, <2>4, <4>4 DEF EvidenceInv, FreshIsWhole
    <3>2. CASE reply[r] # "hit"
      BY <2>2, <2>4, <3>1, <3>2 DEF StepOf, Spared
    <3>3. CASE reply[r] = "hit"
      <4>1. pc[r] \in {"answered", "recorded"}
        BY <1>1, <2>2, <2>4, <3>3
        DEF SparedInv, RepliesAreAnswers, Accounting, Final, InFlight, Rewriting
      <4>2. CASE pc[r] = "answered"
        BY <2>2, <2>4, <3>1, <3>3, <4>2 DEF StepOf, Spared
      <4>3. CASE pc[r] = "recorded"
        BY <2>1, <2>2, <2>4, <3>1, <3>3, <4>3 DEF StepOf, Spared
      <4>4. QED
        BY <4>1, <4>2, <4>3
    <3>4. QED
      BY <3>2, <3>3
  <2>5. CASE x = q
    <3>1. pc[r] # "answered"
      <4>1. x[1] = c /\ x[2] = k + 1
        BY <2>5
      <4>2. attempt[c] = k + 1
        BY <1>3, <4>1
      <4>3. k < attempt[c] /\ k \in 1 .. MaxAttempts
        BY <4>2, ClientAssumption
      <4>4. QED
        BY <4>3 DEF TurnByTurn, Final
    <3>2. pc'[r] = pc[r] /\ reply'[r] = reply[r]
      BY <1>1, <2>2, <2>5
    <3>3. SUFFICES ASSUME reply[r] = "hit" PROVE Spared(c, k)'
      BY <3>2 DEF Spared
    <3>4. pc[q] # "scan" /\ pruned'[q] = {}
      BY <2>1, <2>5, <3>3 DEF Spared, StepOf
    <3>5. CASE pc[q] \in {"received", "read"}
      <4>1. sessions[id] \in SessionStates
        BY <2>2 DEF TypeOK
      <4>2. Turns(sessions[id]) \in Nat
        BY <4>1 DEF SessionStates, Turns
      <4>3. LastCacheHit(sessions[id]) \/ Turns(sessions[id]) = 0
        BY <2>1, <3>1, <3>3, <3>5 DEF Spared
      <4>4. \/ pc'[q] \in {"raw", "done"}
            \/ /\ pc'[q] = "read"
               /\ LastCacheHit(sessions'[id]) \/ Turns(sessions'[id]) = 0
            \/ /\ pc'[q] = "observed"
               /\ LastCacheHit(sessions'[id]) \/ Turns(sessions'[id]) = 1
        BY <2>2, <2>5, <3>5, <4>2, <4>3 DEF StepOf
      <4>5. QED
        BY <3>4, <4>4 DEF Spared
    <3>6. CASE pc[q] = "observed"
      <4>1. LastCacheHit(sessions[id]) \/ Turns(sessions[id]) <= 1
        BY <2>1, <3>3, <3>6 DEF Spared
      <4>2. Turns(sessions[id]) \in Nat /\ MinObservedTurns \in Nat
        BY <2>2, OptionAssumption DEF TypeOK, SessionStates, Turns
      <4>3. Turns(sessions[id]) <= 1 => ~(Turns(sessions[id]) >= MinObservedTurns)
        BY <4>2
      <4>4. pc'[q] = "shape" \/ (pc'[q] = "gate" /\ LastCacheHit(sessions'[id]))
        BY <2>2, <2>5, <3>6, <4>1, <4>3 DEF StepOf
      <4>5. QED
        BY <3>4, <4>4 DEF Spared
    <3>7. CASE pc[q] = "gate"
      <4>1. LastCacheHit(sessions[id])
        BY <2>1, <3>3, <3>7 DEF Spared
      <4>2. pc'[q] = "shape"
        BY <2>2, <2>5, <3>7, <4>1 DEF StepOf
      <4>3. QED
        BY <3>4, <4>2 DEF Spared
    <3>8. CASE pc[q] \notin {"received", "read", "observed", "gate", "scan"}
      <4>1. pc'[q] \in {"shape", "shaping", "upstream", "answered", "lost", "done", "recorded"}
        BY <2>5, <3>8 DEF StepOf
      <4>2. QED
        BY <3>4, <4>1 DEF Spared
    <3>9. QED
      BY <3>4, <3>5, <3>6, <3>7, <3>8
  <2>6. CASE x[1] = c /\ x # r /\ x # q
    <3>1. /\ pc'[r] = pc[r] /\ pc'[q] = pc[q]
          /\ pruned'[q] = pruned[q] /\ reply'[r] = reply[r]
      BY <1>1, <2>2, <2>6
    <3>2. attempt[c] # k /\ attempt[c] # k + 1 /\ attempt[c] \in Nat
      BY <1>2, <1>3, <2>6, ClientAssumption DEF TypeOK
    <3>3. CASE k + 1 < attempt[c]
      <4>1. pc[q] \in Final
        BY <3>3, OwnRequests DEF TurnByTurn
      <4>2. QED
        BY <2>1, <3>1, <4>1 DEF Spared, Final
    <3>4. CASE k > attempt[c]
      <4>1. pc[r] = "idle"
        BY <3>4, OwnRequests DEF TurnByTurn
      <4>2. reply[r] = "none"
        BY <2>2, <4>1 DEF SparedInv, RepliesAreAnswers, Accounting, Final
      <4>3. QED
        BY <3>1, <4>2 DEF Spared
    <3>5. QED
      BY <3>2, <3>3, <3>4
  <2>7. QED
    BY <2>3, <2>4, <2>5, <2>6
<1>6. QED
  BY <1>4, <1>5 DEF SparedInv

LEMMA RestartSpares ==
  ASSUME TypeOK, SparedInv, Restart
  PROVE  SparedInv'
<1>1. /\ UNCHANGED <<pruned, reply, attempt>>
      /\ \A r \in Requests : pc'[r] = IF pc[r] \in InFlight THEN "lost" ELSE pc[r]
      /\ \A id \in SessionIds : Turns(sessions'[id]) = 0
  BY DEF Restart, clientVars, Turns, NewSession
<1>2. \A r \in Requests : pc'[r] \in {"idle"} \cup Final
  BY <1>1 DEF TypeOK, Final
<1>3. RepliesAreAnswers'
  BY <1>1 DEF SparedInv, RepliesAreAnswers, Accounting, Final, InFlight
<1>4. ASSUME NEW c \in Clients, NEW k \in 1 .. MaxAttempts - 1, Alone(c)
      PROVE  Spared(c, k)'
  <2>1. Spared(c, k)
    BY <1>4 DEF SparedInv
  <2>2. QED
    BY <1>1, <1>2, <2>1, OwnRequests DEF Spared, Final
<1>5. QED
  BY <1>3, <1>4 DEF SparedInv

\* A client with a session to itself that waits for its requests to end is not
\* pruned in the turn after a cache hit, also when the process is started again in
\* between (LastCacheHit in front of pruning, RecordCacheHit after the answer).
THEOREM HitSparesPatient ==
  ASSUME EagerClients = {}, MinObservedTurns >= 2
  PROVE  Spec => []HitSparesNextTurn
<1>1. Init => SparedInv
  <2>1. SUFFICES ASSUME Init PROVE SparedInv
    OBVIOUS
  <2>2. \A c \in Clients, k \in 1 .. MaxAttempts : <<c, k>> \in Requests
    BY DEF Requests
  <2>3. QED
    BY <2>1, <2>2, OwnRequests
    DEF Init, SparedInv, RepliesAreAnswers, Spared
<1>2. ASSUME TypeOK, EvidenceInv, TurnByTurn, SparedInv, [Next]_vars
      PROVE  SparedInv'
  <2>1. CASE \E c \in Clients : Send(c)
    BY <1>2, <2>1, SendSpares
  <2>2. CASE \E r \in Requests : HandlerStep(r) \/ Upstream(r)
    BY <1>2, <2>2, EveryStepOf, StepSpares
  <2>3. CASE Restart
    BY <1>2, <2>3, RestartSpares
  <2>4. CASE UNCHANGED vars
    BY <1>2, <2>4
    DEF vars, serverVars, handlerVars, clientVars, SparedInv, RepliesAreAnswers,
        Spared, LastCacheHit, Turns
  <2>5. QED
    BY <1>2, <2>1, <2>2, <2>3, <2>4
    DEF Next, HandleChatCompletions, HandleAnthropicMessages, Exhausted
<1>3. SparedInv => HitSparesNextTurn
  BY DEF SparedInv, HitSparesNextTurn, Spared, Alone
<1>4. QED
  BY <1>1, <1>2, <1>3, TypeCorrect, EvidenceInvariant, OneAtATime, PTL DEF Spec

\* What USAGE.md says of skipping after a hit, that it preserves the cached prefix, holds
\* when the hit was on a request that had not been pruned itself.
WholePrefixStays ==
  \A c \in Clients, k \in 1 .. MaxAttempts - 1 :
    /\ \A d \in Clients \ {c} : SessionOf[d] # SessionOf[c]
    /\ reply[<<c, k>>] = "hit" /\ pruned[<<c, k>>] = {}
    /\ request[<<c, k + 1>>].offered = request[<<c, k>>].offered
    => Forwarded(<<c, k + 1>>) = Forwarded(<<c, k>>)

\* A patient client that is alone in its session and offers the same tools again sends the
\* same tools array after a hit on a whole one.
THEOREM WholePrefixKept ==
  ASSUME EagerClients = {}, MinObservedTurns >= 2
  PROVE  Spec => []WholePrefixStays
<1>1. HitSparesNextTurn => WholePrefixStays
  BY DEF HitSparesNextTurn, WholePrefixStays, Forwarded
<1>2. QED
  BY <1>1, HitSparesPatient, PTL

==============================================================================
