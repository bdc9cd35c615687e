------------------------ MODULE ProxyContract_proofs ------------------------
(***************************************************************************)
(* Proxy implements PruneContract, for all values of the constants.        *)
(***************************************************************************)
EXTENDS ProxyContract, Proxy_proofs

(* What the simulation needs beyond EvidenceInv and TurnInv.               *)

\* Before the gate has let a request pass, it is whole.
UngatedIsWhole ==
  \A r \in Requests : pc[r] \in {"idle", "received", "read", "observed", "gate"} =>
    pruned[r] = {}

\* Only a request that may be pruned at all stands at the gate.
GatedMayBePruned ==
  \A r \in Requests : pc[r] = "gate" => EnablePruneTools /\ request[r].offered # {}

\* The loop over the tools drops offered tools only, none that the request keeps by
\* itself, and what it has passed without dropping has a reason to stay that still
\* stands.
KeptForReason ==
  \A r \in Requests : pc[r] = "scan" =>
    /\ todo[r] \subseteq request[r].offered
    /\ pruned[r] \subseteq request[r].offered \ Keep(r)
    /\ request[r].offered \ todo[r] \subseteq
         pruned[r] \cup Keep(r) \cup sessions[SessionId(r)].toolsUsed

\* A session knows no calls but those of the requests it has observed.
KnowsOnlyHistories ==
  \A id \in SessionIds :
    sessions[id].toolsUsed \subseteq UNION {ToolCallNames(q) : q \in ObservedIn(id)}

ScanInv ==
  /\ UngatedIsWhole
  /\ GatedMayBePruned
  /\ KeptForReason
  /\ KnowsOnlyHistories

LEMMA InitScan == Init => ScanInv
  BY DEF Init, ScanInv, UngatedIsWhole, GatedMayBePruned, KeptForReason,
         KnowsOnlyHistories, NewSession

\* What a request says of tools depends on the request alone.
LEMMA SameKeep ==
  ASSUME NEW r \in Requests, request'[r] = request[r]
  PROVE  /\ Keep(r)' = Keep(r)
         /\ ToolCallNames(r)' = ToolCallNames(r)
  BY DEF Keep, ToolCallNames, ForcedToolChoice, OpenAIForced, AnthropicForced

LEMMA SendScan ==
  ASSUME TypeOK, EvidenceInv, ScanInv, NEW c \in Clients, Send(c)
  PROVE  ScanInv'
<1> DEFINE r == <<c, attempt[c] + 1>>
<1>1. r \in Requests
  BY NextRequest DEF Send
<1>2. /\ pc[r] = "idle" /\ pc'[r] = "received"
      /\ \A q \in Requests \ {r} : pc'[q] = pc[q] /\ request'[q] = request[q]
      /\ r \notin observed /\ observed \subseteq Requests
  BY <1>1 DEF Send, Goto, TypeOK, EvidenceInv, ObservedAreUnderWay
<1>3. UNCHANGED <<sessions, todo, pruned, observed>>
  BY DEF Send, serverVars, historyVars
<1>4. \A q \in Requests \ {r} : /\ Keep(q)' = Keep(q)
                                /\ ToolCallNames(q)' = ToolCallNames(q)
  BY <1>2, SameKeep
<1>5. UngatedIsWhole' /\ GatedMayBePruned'
  BY <1>1, <1>2, <1>3 DEF ScanInv, UngatedIsWhole, GatedMayBePruned
<1>6. KeptForReason'
  BY <1>1, <1>2, <1>3, <1>4 DEF ScanInv, KeptForReason, SessionId
<1>7. KnowsOnlyHistories'
  <2>1. \A q \in observed : q \in Requests \ {r}
    BY <1>2
  <2>2. \A q \in observed : ToolCallNames(q)' = ToolCallNames(q)
    BY <1>4, <2>1
  <2>3. QED
    BY <1>3, <2>2 DEF ScanInv, KnowsOnlyHistories, ObservedIn, SessionId
<1>8. QED
  BY <1>5, <1>6, <1>7 DEF ScanInv

LEMMA ObserveScan ==
  ASSUME TypeOK, EvidenceInv, ScanInv, NEW r \in Requests, Observe(r)
  PROVE  ScanInv'
<1> DEFINE id == SessionId(r)
<1>1. /\ pc[r] = "read" /\ pc'[r] = "observed"
      /\ \A q \in Requests \ {r} : pc'[q] = pc[q]
      /\ UNCHANGED <<request, todo, pruned>>
      /\ observed' = observed \cup {r} /\ observed' \subseteq Requests
  BY DEF Observe, Goto, TypeOK
<1>2. \A q \in Requests : /\ Keep(q)' = Keep(q)
                          /\ ToolCallNames(q)' = ToolCallNames(q)
                          /\ SessionId(q) \in SessionIds
  BY <1>1, SameKeep, RequestParts
<1>3. /\ sessions'[id].toolsUsed = sessions[id].toolsUsed \cup ToolCallNames(r)
      /\ \A i \in SessionIds \ {id} : sessions'[i] = sessions[i]
  <2>1. sessions[id] \in SessionStates /\ ToolCallNames(r) \in SUBSET Tools
    BY <1>2 DEF TypeOK, ToolCallNames, RequestForms
  <2>2. /\ sessions'[id] = ObserveToolCalls(sessions[id], ToolCallNames(r))
        /\ \A i \in SessionIds \ {id} : sessions'[i] = sessions[i]
    BY <1>2 DEF Observe, TypeOK
  <2>3. QED
    BY <2>1, <2>2, SessionMonotone
<1>4. \A i \in SessionIds : sessions[i].toolsUsed \subseteq sessions'[i].toolsUsed
  BY <1>3
<1>5. UngatedIsWhole' /\ GatedMayBePruned'
  BY <1>1 DEF ScanInv, UngatedIsWhole, GatedMayBePruned
<1>6. KeptForReason'
  BY <1>1, <1>2, <1>4 DEF ScanInv, KeptForReason, SessionId
<1>7. KnowsOnlyHistories'
  <2>1. ASSUME NEW i \in SessionIds
        PROVE  sessions'[i].toolsUsed \subseteq
                 UNION {ToolCallNames(q)' : q \in ObservedIn(i)'}
    <3>1. ObservedIn(i) \subseteq ObservedIn(i)' /\ ObservedIn(i) \subseteq Requests
      BY <1>1 DEF ObservedIn, SessionId
    <3>2. sessions[i].toolsUsed \subseteq UNION {ToolCallNames(q) : q \in ObservedIn(i)}
      BY DEF ScanInv, KnowsOnlyHistories
    <3>3. sessions[i].toolsUsed \subseteq UNION {ToolCallNames(q)' : q \in ObservedIn(i)'}
      BY <1>2, <3>1, <3>2
    <3>4. CASE i = id
      <4>1. r \in ObservedIn(id)'
        BY <1>1 DEF ObservedIn, SessionId
      <4>2. ToolCallNames(r) \subseteq UNION {ToolCallNames(q)' : q \in ObservedIn(id)'}
        BY <1>2, <4>1
      <4>3. QED
        BY <1>3, <3>3, <3>4, <4>2
    <3>5. CASE i # id
      BY <1>3, <3>3, <3>5
    <3>6. QED
      BY <3>4, <3>5
  <2>2. QED
    BY <2>1 DEF KnowsOnlyHistories
<1>8. QED
  BY <1>5, <1>6, <1>7 DEF ScanInv

\* One round of the loop; after the last one nothing is left to look at.
LEMMA ScanRound ==
  ASSUME TypeOK, ScanInv, NEW r \in Requests, ScanTool(r)
  PROVE  /\ todo'[r] \subseteq request[r].offered
         /\ pruned'[r] \subseteq request[r].offered \ Keep(r)
         /\ request[r].offered \ todo'[r] \subseteq
              pruned'[r] \cup Keep(r) \cup sessions[SessionId(r)].toolsUsed
         /\ pc'[r] = "shape" => todo'[r] = {}
<1>1. PICK tool \in todo[r] :
        /\ todo' = [todo EXCEPT ![r] = @ \ {tool}]
        /\ pruned' = [pruned EXCEPT ![r] =
             IF KeptByRequest(r, tool) \/ HasUsedTool(sessions[SessionId(r)], tool)
               THEN @ ELSE @ \cup {tool}]
        /\ Goto(r, "scan", IF todo[r] = {tool} THEN "shape" ELSE "scan")
  BY DEF ScanTool
<1>2. /\ todo[r] \subseteq request[r].offered
      /\ pruned[r] \subseteq request[r].offered \ Keep(r)
      /\ request[r].offered \ todo[r] \subseteq
           pruned[r] \cup Keep(r) \cup sessions[SessionId(r)].toolsUsed
  BY <1>1 DEF ScanInv, KeptForReason, Goto
<1>3. /\ todo'[r] = todo[r] \ {tool}
      /\ pruned'[r] = IF KeptByRequest(r, tool) \/ HasUsedTool(sessions[SessionId(r)], tool)
                        THEN pruned[r] ELSE pruned[r] \cup {tool}
      /\ pc'[r] = IF todo[r] = {tool} THEN "shape" ELSE "scan"
  BY <1>1 DEF Goto, TypeOK
<1>4. tool \in pruned'[r] \cup Keep(r) \cup sessions[SessionId(r)].toolsUsed
  BY <1>3 DEF KeptByRequest, Keep, HasUsedTool
<1>5. pruned'[r] \subseteq request[r].offered \ Keep(r)
  BY <1>1, <1>2, <1>3 DEF KeptByRequest, Keep
<1>6. pc'[r] = "shape" => todo'[r] = {}
  BY <1>3
<1>7. QED
  BY <1>1, <1>2, <1>3, <1>4, <1>5, <1>6

LEMMA ScanToolScan ==
  ASSUME TypeOK, EvidenceInv, ScanInv, NEW r \in Requests, ScanTool(r)
  PROVE  ScanInv'
<1>1. PICK tool \in todo[r] :
        /\ todo' = [todo EXCEPT ![r] = @ \ {tool}]
        /\ pruned' = [pruned EXCEPT ![r] =
             IF KeptByRequest(r, tool) \/ HasUsedTool(sessions[SessionId(r)], tool)
               THEN @ ELSE @ \cup {tool}]
        /\ Goto(r, "scan", IF todo[r] = {tool} THEN "shape" ELSE "scan")
  BY DEF ScanTool
<1>2. /\ pc[r] = "scan" /\ pc'[r] \in {"scan", "shape"}
      /\ \A q \in Requests \ {r} :
           pc'[q] = pc[q] /\ todo'[q] = todo[q] /\ pruned'[q] = pruned[q]
      /\ UNCHANGED <<sessions, request, observed>>
  BY <1>1 DEF ScanTool, Goto, TypeOK, serverVars, historyVars
<1>3. \A q \in Requests : /\ Keep(q)' = Keep(q)
                          /\ ToolCallNames(q)' = ToolCallNames(q)
  BY <1>2, SameKeep
<1>4. UngatedIsWhole' /\ GatedMayBePruned'
  BY <1>2 DEF ScanInv, UngatedIsWhole, GatedMayBePruned
<1>5. KeptForReason'
  BY <1>2, <1>3, ScanRound DEF ScanInv, KeptForReason, SessionId
<1>6. KnowsOnlyHistories'
  <2>1. \A q \in observed : ToolCallNames(q)' = ToolCallNames(q)
    BY <1>3 DEF TypeOK
  <2>2. QED
    BY <1>2, <2>1 DEF ScanInv, KnowsOnlyHistories, ObservedIn, SessionId
<1>7. QED
  BY <1>4, <1>5, <1>6 DEF ScanInv

LEMMA RestartScan ==
  ASSUME TypeOK, ScanInv, Restart
  PROVE  ScanInv'
<1>1. /\ \A q \in Requests : pc'[q] = IF pc[q] \in InFlight THEN "lost" ELSE pc[q]
      /\ \A id \in SessionIds : sessions'[id].toolsUsed = {}
      /\ UNCHANGED <<request, pruned>>
  BY DEF Restart, NewSession
<1>2. UngatedIsWhole' /\ GatedMayBePruned' /\ KeptForReason'
  BY <1>1
  DEF ScanInv, UngatedIsWhole, GatedMayBePruned, KeptForReason, InFlight, Rewriting
<1>3. KnowsOnlyHistories'
  BY <1>1 DEF KnowsOnlyHistories
<1>4. QED
  BY <1>2, <1>3 DEF ScanInv

\* A quiet step passes no request into the gate or the loop unless it may be there.
LEMMA QuietScan ==
  ASSUME TypeOK, ScanInv, NEW r \in Requests, NEW to, QuietStep(r, to),
         to # "observed",
         to = "gate" => pc[r] = "observed" /\ MayPrune(r),
         to = "scan" => todo'[r] = request[r].offered,
         \A q \in Requests \ {r} : todo'[q] = todo[q]
  PROVE  ScanInv'
<1>1. /\ pc'[r] = to
      /\ \A q \in Requests \ {r} : pc'[q] = pc[q]
      /\ UNCHANGED <<request, pruned, observed>>
      /\ to \notin {"idle", "received", "observed"}
      /\ to = "read" => pc[r] = "received"
      /\ to = "scan" => pc[r] = "gate"
      /\ \A id \in SessionIds : sessions'[id].toolsUsed = sessions[id].toolsUsed
  BY DEF QuietStep, TypeOK, Rewriting
<1>2. \A q \in Requests : /\ Keep(q)' = Keep(q)
                          /\ ToolCallNames(q)' = ToolCallNames(q)
                          /\ SessionId(q) \in SessionIds
  BY <1>1, SameKeep, RequestParts
<1>3. UngatedIsWhole'
  BY <1>1 DEF ScanInv, UngatedIsWhole
<1>4. GatedMayBePruned'
  BY <1>1 DEF ScanInv, GatedMayBePruned, MayPrune
<1>5. KeptForReason'
  <2>1. to = "scan" => pruned[r] = {}
    BY <1>1 DEF ScanInv, UngatedIsWhole
  <2>2. \A q \in Requests \ {r} : todo'[q] = todo[q]
    OBVIOUS
  <2>3. to = "scan" => todo'[r] = request[r].offered
    OBVIOUS
  <2>4. QED
    BY <1>1, <1>2, <2>1, <2>2, <2>3 DEF ScanInv, KeptForReason, SessionId
<1>6. KnowsOnlyHistories'
  <2>1. \A q \in observed : ToolCallNames(q)' = ToolCallNames(q)
    BY <1>2 DEF TypeOK
  <2>2. QED
    BY <1>1, <2>1 DEF ScanInv, KnowsOnlyHistories, ObservedIn, SessionId
<1>7. QED
  BY <1>3, <1>4, <1>5, <1>6 DEF ScanInv

\* Where the quiet steps lead, and under which condition.
LEMMA QuietMoves ==
  ASSUME TypeOK, NEW r \in Requests,
         HandlerStep(r) \/ Upstream(r), ~Observe(r), ~ScanTool(r)
  PROVE  /\ \/ pc[r] = "received" /\ pc'[r] \in {"read", "done"}
            \/ pc[r] = "read" /\ pc'[r] = "raw"
            \/ pc[r] = "observed" /\ pc'[r] = "gate" /\ MayPrune(r)
            \/ pc[r] = "observed" /\ pc'[r] = "shape" /\ ~MayPrune(r)
            \/ /\ pc[r] = "gate" /\ pc'[r] = "scan"
               /\ ~LastCacheHit(sessions[SessionId(r)])
               /\ todo'[r] = request[r].offered
            \/ /\ pc[r] = "gate" /\ pc'[r] = "shape"
               /\ LastCacheHit(sessions[SessionId(r)])
            \/ pc[r] \in {"shape", "shaping"} /\ pc'[r] \in {"shaping", "upstream"}
            \/ pc[r] = "upstream" /\ pc'[r] \in {"answered", "lost"}
            \/ pc[r] = "answered" /\ pc'[r] = "recorded" /\ RecordHit(r)
            \/ pc[r] \in {"raw", "recorded"} /\ pc'[r] = "done"
         /\ RecordHit(r) => pc[r] = "answered"
         /\ \A q \in Requests \ {r} : todo'[q] = todo[q]
<1> DEFINE Goal == /\ \/ pc[r] = "received" /\ pc'[r] \in {"read", "done"}
                      \/ pc[r] = "read" /\ pc'[r] = "raw"
                      \/ pc[r] = "observed" /\ pc'[r] = "gate" /\ MayPrune(r)
                      \/ pc[r] = "observed" /\ pc'[r] = "shape" /\ ~MayPrune(r)
                      \/ /\ pc[r] = "gate" /\ pc'[r] = "scan"
                         /\ ~LastCacheHit(sessions[SessionId(r)])
                         /\ todo'[r] = request[r].offered
                      \/ /\ pc[r] = "gate" /\ pc'[r] = "shape"
                         /\ LastCacheHit(sessions[SessionId(r)])
                      \/ pc[r] \in {"shape", "shaping"} /\ pc'[r] \in {"shaping", "upstream"}
                      \/ pc[r] = "upstream" /\ pc'[r] \in {"answered", "lost"}
                      \/ pc[r] = "answered" /\ pc'[r] = "recorded" /\ RecordHit(r)
                      \/ pc[r] \in {"raw", "recorded"} /\ pc'[r] = "done"
                   /\ RecordHit(r) => pc[r] = "answered"
                   /\ \A q \in Requests \ {r} : todo'[q] = todo[q]
<1>1. RecordHit(r) => pc[r] = "answered"
  BY DEF RecordHit, Goto
<1> USE <1>1 DEF Goto, TypeOK
<1>2. Arrive(r) => Goal
  BY DEF Arrive, Refuse, ReadBody
<1>3. PassThrough(r) => Goal
  BY DEF PassThrough
<1>4. CheckTurns(r) => Goal
  BY DEF CheckTurns
<1>5. CheckCacheHit(r) => Goal
  BY DEF CheckCacheHit
<1>6. ReadFingerprints(r) => Goal
  BY DEF ReadFingerprints
<1>7. RecordFingerprints(r) => Goal
  BY DEF RecordFingerprints
<1>8. ASSUME RecordHit(r) PROVE Goal
  <2>1. pc[r] = "answered" /\ pc'[r] = "recorded" /\ todo' = todo
    BY <1>8 DEF RecordHit
  <2>2. QED
    BY <1>8, <2>1
<1>9. Finish(r) => Goal
  BY DEF Finish
<1>10. Reply(r) => Goal
  BY DEF Reply
<1>11. UpstreamError(r) => Goal
  BY DEF UpstreamError
<1>12. UpstreamAbort(r) => Goal
  BY DEF UpstreamAbort
<1>13. RawReply(r) => Goal
  BY DEF RawReply
<1> HIDE DEF Goal
<1>14. Goal
  BY <1>2, <1>3, <1>4, <1>5, <1>6, <1>7, <1>8, <1>9, <1>10, <1>11, <1>12, <1>13
  DEF HandlerStep, Rewrite, Upstream
<1>15. QED
  BY <1>14 DEF Goal

LEMMA QuietKeepsScan ==
  ASSUME TypeOK, ScanInv, NEW r \in Requests,
         HandlerStep(r) \/ Upstream(r), ~Observe(r), ~ScanTool(r)
  PROVE  ScanInv'
<1>1. PICK to : QuietStep(r, to)
  BY QuietActions
<1>2. pc'[r] = to
  BY <1>1 DEF QuietStep, TypeOK
<1>3. /\ to # "observed"
      /\ to = "gate" => pc[r] = "observed" /\ MayPrune(r)
      /\ to = "scan" => todo'[r] = request[r].offered
      /\ \A q \in Requests \ {r} : todo'[q] = todo[q]
  BY <1>2, QuietMoves
<1>4. QED
  BY <1>1, <1>3, QuietScan

LEMMA StutterScan ==
  ASSUME TypeOK, ScanInv, UNCHANGED vars
  PROVE  ScanInv'
<1>1. UNCHANGED <<sessions, pc, request, todo, pruned, observed>>
  BY DEF vars, serverVars, handlerVars, historyVars
<1>2. \A q \in Requests : /\ Keep(q)' = Keep(q)
                          /\ ToolCallNames(q)' = ToolCallNames(q)
  BY <1>1, SameKeep
<1>3. \A q \in observed : ToolCallNames(q)' = ToolCallNames(q)
  BY <1>2 DEF TypeOK
<1>4. UngatedIsWhole' /\ GatedMayBePruned'
  BY <1>1 DEF ScanInv, UngatedIsWhole, GatedMayBePruned
<1>5. KeptForReason'
  BY <1>1, <1>2 DEF ScanInv, KeptForReason, SessionId
<1>6. KnowsOnlyHistories'
  BY <1>1, <1>3 DEF ScanInv, KnowsOnlyHistories, ObservedIn, SessionId
<1>7. QED
  BY <1>4, <1>5, <1>6 DEF ScanInv

\* The invariant of the loop over the tools holds in every reachable state.
THEOREM ScanInvariant == Spec => []ScanInv
<1>1. ASSUME TypeOK, EvidenceInv, ScanInv, [Next]_vars
      PROVE  ScanInv'
  <2>1. CASE \E c \in Clients : Send(c)
    BY <1>1, <2>1, SendScan
  <2>2. CASE \E r \in Requests : HandlerStep(r) \/ Upstream(r)
    BY <1>1, <2>2, ObserveScan, ScanToolScan, QuietKeepsScan
  <2>3. CASE Restart
    BY <1>1, <2>3, RestartScan
  <2>4. CASE UNCHANGED vars
    BY <1>1, <2>4, StutterScan
  <2>5. QED
    BY <1>1, <2>1, <2>2, <2>3, <2>4
    DEF Next, HandleChatCompletions, HandleAnthropicMessages, Exhausted
<1>2. QED
  BY InitScan, TypeCorrect, EvidenceInvariant, <1>1, PTL DEF Spec

------------------------------------------------------------------------------
(* The simulation.                                                         *)

\* The contract sees of a request what pc, request, evidence and pruned say of it.
LEMMA SameView ==
  ASSUME NEW q \in Requests, PhaseOf(q)' = PhaseOf(q), request'[q] = request[q],
         evidence'[q] = evidence[q], pruned'[q] = pruned[q]
  PROVE  JobOf(q)' = JobOf(q) /\ DroppedOf(q)' = DroppedOf(q)
  BY SameKeep DEF JobOf, DroppedOf

\* A step that changes what the contract sees of one request only.
LEMMA OneRequestMoves ==
  ASSUME NEW r \in Requests, NEW p, NEW j, NEW d,
         PhaseOf(r)' = p, JobOf(r)' = j, DroppedOf(r)' = d,
         \A q \in Requests \ {r} :
           PhaseOf(q)' = PhaseOf(q) /\ JobOf(q)' = JobOf(q) /\ DroppedOf(q)' = DroppedOf(q)
  PROVE  /\ Phase' = [Phase EXCEPT ![r] = p]
         /\ Job' = [Job EXCEPT ![r] = j]
         /\ Dropped' = [Dropped EXCEPT ![r] = d]
  BY DEF Phase, Job, Dropped

\* A step that changes nothing the contract sees of any request.
LEMMA NoRequestMoves ==
  ASSUME \A q \in Requests :
           PhaseOf(q)' = PhaseOf(q) /\ JobOf(q)' = JobOf(q) /\ DroppedOf(q)' = DroppedOf(q)
  PROVE  UNCHANGED <<Phase, Job, Dropped>>
  BY DEF Phase, Job, Dropped

\* The ledgers depend on three fields of the sessions.
LEMMA SameLedger ==
  ASSUME \A id \in SessionIds :
           /\ sessions'[id].toolsUsed = sessions[id].toolsUsed
           /\ sessions'[id].turns = sessions[id].turns
           /\ sessions'[id].lastCacheHit = sessions[id].lastCacheHit
  PROVE  Ledger' = Ledger
  BY DEF Ledger, LedgerOf

\* Nothing changes about requests that a step leaves alone.
LEMMA OthersStay ==
  ASSUME NEW S \in SUBSET Requests,
         \A q \in S : /\ pc'[q] = pc[q] /\ request'[q] = request[q]
                      /\ evidence'[q] = evidence[q] /\ pruned'[q] = pruned[q]
  PROVE  \A q \in S : /\ PhaseOf(q)' = PhaseOf(q)
                      /\ JobOf(q)' = JobOf(q)
                      /\ DroppedOf(q)' = DroppedOf(q)
<1> SUFFICES ASSUME NEW q \in S
             PROVE  /\ PhaseOf(q)' = PhaseOf(q)
                    /\ JobOf(q)' = JobOf(q)
                    /\ DroppedOf(q)' = DroppedOf(q)
  OBVIOUS
<1>1. PhaseOf(q)' = PhaseOf(q)
  BY DEF PhaseOf
<1>2. QED
  BY <1>1, SameView

\* The views of the contract at one session and at one request.
LEMMA ViewAt ==
  ASSUME NEW r \in Requests
  PROVE  /\ Phase[r] = PhaseOf(r) /\ Job[r] = JobOf(r) /\ Dropped[r] = DroppedOf(r)
         /\ Home[r] = SessionId(r)
         /\ Ledger[Home[r]].called = sessions[SessionId(r)].toolsUsed
         /\ Ledger[Home[r]].turns = sessions[SessionId(r)].turns
         /\ Ledger[Home[r]].hit = sessions[SessionId(r)].lastCacheHit
<1>1. Home[r] = SessionId(r) /\ SessionId(r) \in SessionIds
  BY RequestParts DEF Home
<1>2. Ledger[Home[r]] = LedgerOf(sessions[SessionId(r)])
  BY <1>1 DEF Ledger
<1>3. QED
  BY <1>1, <1>2 DEF Phase, Job, Dropped, LedgerOf

LEMMA InitSim == Init => Contract!Init
<1> SUFFICES ASSUME Init PROVE Contract!Init
  OBVIOUS
<1>1. \A r \in Requests : PhaseOf(r) = "new"
  BY DEF Init, PhaseOf
<1>2. \A r \in Requests : /\ JobOf(r) = [offered |-> {}, keep |-> {}, known |-> {}]
                          /\ DroppedOf(r) = {}
  BY <1>1 DEF JobOf, DroppedOf
<1>3. \A id \in SessionIds :
        LedgerOf(sessions[id]) = [called |-> {}, turns |-> 0, hit |-> FALSE]
  BY DEF Init, LedgerOf, NewSession
<1>4. QED
  BY <1>1, <1>2, <1>3
  DEF Contract!Init, Contract!NewLedger, Contract!NoJob, Ledger, Phase, Job, Dropped

\* A client's request is nothing to the contract before it is observed.
LEMMA SendSim ==
  ASSUME TypeOK, NEW c \in Clients, Send(c)
  PROVE  UNCHANGED <<Ledger, Phase, Job, Dropped>>
<1>1. PICK r \in Requests : r = <<c, attempt[c] + 1>>
  BY NextRequest DEF Send
<1>2. /\ pc[r] = "idle" /\ pc'[r] = "received"
      /\ \A q \in Requests \ {r} : pc'[q] = pc[q] /\ request'[q] = request[q]
      /\ UNCHANGED <<sessions, pruned, evidence>>
  BY <1>1 DEF Send, Goto, TypeOK, serverVars, historyVars
<1>3. PhaseOf(r) = "new" /\ PhaseOf(r)' = "new"
  BY <1>2 DEF PhaseOf
<1>4. JobOf(r)' = JobOf(r) /\ DroppedOf(r)' = DroppedOf(r)
  BY <1>3 DEF JobOf, DroppedOf
<1>5. \A q \in Requests \ {r} : /\ PhaseOf(q)' = PhaseOf(q)
                                /\ JobOf(q)' = JobOf(q)
                                /\ DroppedOf(q)' = DroppedOf(q)
  BY <1>2, OthersStay
<1>6. UNCHANGED <<Phase, Job, Dropped>>
  BY <1>3, <1>4, <1>5, NoRequestMoves
<1>7. Ledger' = Ledger
  BY <1>2, SameLedger
<1>8. QED
  BY <1>6, <1>7

\* What a session knows is what its observed requests have in their histories.
LEMMA KnowledgeIsHistories ==
  ASSUME TypeOK, EvidenceInv, ScanInv, NEW id \in SessionIds
  PROVE  sessions[id].toolsUsed = UNION {ToolCallNames(q) : q \in ObservedIn(id)}
  BY DEF EvidenceInv, SessionKnowsHistories, ScanInv, KnowsOnlyHistories, ObservedIn

LEMMA ObserveSim ==
  ASSUME TypeOK, EvidenceInv, ScanInv, NEW r \in Requests, Observe(r)
  PROVE  Contract!Observe(r)
<1> DEFINE id == SessionId(r)
           known == sessions[id].toolsUsed \cup ToolCallNames(r)
           job == [offered |-> request[r].offered, keep |-> Keep(r), known |-> known]
<1>1. /\ id \in SessionIds /\ sessions[id] \in SessionStates
      /\ request[r] \in RequestForms
      /\ ToolCallNames(r) \in SUBSET Tools
  BY RequestParts DEF TypeOK, RequestForms, ToolCallNames
<1>2. /\ pc[r] = "read" /\ pc'[r] = "observed"
      /\ \A q \in Requests \ {r} : pc'[q] = pc[q]
      /\ UNCHANGED <<request, pruned>>
      /\ observed' = observed \cup {r}
      /\ \A q \in Requests \ {r} : evidence'[q] = evidence[q]
      /\ evidence'[r] =
           UNION {ToolCallNames(q) : q \in {p \in observed' : SessionId(p) = id}}
      /\ sessions'[id] = ObserveToolCalls(sessions[id], ToolCallNames(r))
      /\ \A i \in SessionIds \ {id} : sessions'[i] = sessions[i]
  BY <1>1 DEF Observe, Goto, TypeOK
<1>3. evidence'[r] = known
  <2>1. {p \in observed' : SessionId(p) = id} = ObservedIn(id) \cup {r}
    BY <1>2 DEF ObservedIn
  <2>2. sessions[id].toolsUsed = UNION {ToolCallNames(q) : q \in ObservedIn(id)}
    BY <1>1, KnowledgeIsHistories
  <2>3. QED
    BY <1>2, <2>1, <2>2
<1>4. PhaseOf(r) = "new" /\ PhaseOf(r)' = "observed"
  BY <1>2 DEF PhaseOf
<1>5. JobOf(r)' = job /\ DroppedOf(r) = {} /\ DroppedOf(r)' = {}
  BY <1>2, <1>3, <1>4, SameKeep DEF JobOf, DroppedOf
<1>6. \A q \in Requests \ {r} : /\ PhaseOf(q)' = PhaseOf(q)
                                /\ JobOf(q)' = JobOf(q)
                                /\ DroppedOf(q)' = DroppedOf(q)
  BY <1>2, OthersStay
<1>7. /\ Phase' = [Phase EXCEPT ![r] = "observed"]
      /\ Job' = [Job EXCEPT ![r] = job]
      /\ Dropped' = [Dropped EXCEPT ![r] = {}]
  BY <1>4, <1>5, <1>6, OneRequestMoves
<1>8. Dropped' = Dropped
  BY <1>5, <1>7 DEF Dropped
<1>9. Ledger' = [Ledger EXCEPT ![id] =
        [called |-> @.called \cup ToolCallNames(r), turns |-> @.turns + 1, hit |-> @.hit]]
  <2>1. LedgerOf(sessions'[id]) =
          [called |-> sessions[id].toolsUsed \cup ToolCallNames(r),
           turns |-> sessions[id].turns + 1, hit |-> sessions[id].lastCacheHit]
    <3>1. /\ sessions'[id].toolsUsed = sessions[id].toolsUsed \cup ToolCallNames(r)
          /\ sessions'[id].turns = sessions[id].turns + 1
          /\ sessions'[id].lastCacheHit = sessions[id].lastCacheHit
      BY <1>1, <1>2, SessionMonotone
    <3>2. QED
      BY <3>1 DEF LedgerOf
  <2>2. QED
    BY <1>1, <1>2, <2>1 DEF Ledger, LedgerOf
<1> HIDE DEF known, job
<1>10. Keep(r) \in SUBSET Tools /\ request[r].offered \in SUBSET Tools
  BY <1>1, OptionAssumption
  DEF Keep, RequestForms, ForcedToolChoice, OpenAIForced, AnthropicForced, ChoiceForms
<1>11. Ledger[id].called = sessions[id].toolsUsed
  BY <1>1 DEF Ledger, LedgerOf
<1>12. Home[r] = id /\ Phase[r] = "new"
  BY <1>4, ViewAt
<1> HIDE DEF id
<1>13. /\ Ledger' = [Ledger EXCEPT ![Home[r]] =
            [called |-> @.called \cup ToolCallNames(r), turns |-> @.turns + 1, hit |-> @.hit]]
       /\ Job' = [Job EXCEPT ![r] =
            [offered |-> request[r].offered, keep |-> Keep(r),
             known |-> Ledger[Home[r]].called \cup ToolCallNames(r)]]
  BY <1>7, <1>9, <1>11, <1>12 DEF job, known
<1>14. \E offered, keep, history \in SUBSET Tools :
         /\ Ledger' = [Ledger EXCEPT ![Home[r]] =
              [called |-> @.called \cup history, turns |-> @.turns + 1, hit |-> @.hit]]
         /\ Job' = [Job EXCEPT ![r] =
              [offered |-> offered, keep |-> keep,
               known |-> Ledger[Home[r]].called \cup history]]
  BY <1>1, <1>10, <1>13, Zenon
<1>15. QED
  BY <1>7, <1>8, <1>12, <1>14, Zenon DEF Contract!Observe

\* The last round of the loop is the contract's choice, the others are nothing to it.
LEMMA ScanToolSim ==
  ASSUME TypeOK, EvidenceInv, ScanInv, NEW r \in Requests, ScanTool(r)
  PROVE  Contract!Decide(r) \/ UNCHANGED <<Ledger, Phase, Job, Dropped>>
<1>1. /\ pc[r] = "scan" /\ pc'[r] \in {"scan", "shape"}
      /\ \A q \in Requests \ {r} : pc'[q] = pc[q] /\ pruned'[q] = pruned[q]
      /\ UNCHANGED <<sessions, request, evidence>>
  BY DEF ScanTool, Goto, TypeOK, serverVars, historyVars
<1>2. Ledger' = Ledger
  BY <1>1, SameLedger
<1>3. \A q \in Requests \ {r} : /\ PhaseOf(q)' = PhaseOf(q)
                                /\ JobOf(q)' = JobOf(q)
                                /\ DroppedOf(q)' = DroppedOf(q)
  BY <1>1, OthersStay
<1>4. /\ PhaseOf(r) = "deciding"
      /\ PhaseOf(r)' = IF pc'[r] = "scan" THEN "deciding" ELSE "decided"
  BY <1>1 DEF PhaseOf
<1>5. /\ JobOf(r) = [offered |-> request[r].offered, keep |-> Keep(r),
                     known |-> evidence[r]]
      /\ JobOf(r)' = JobOf(r)
  BY <1>1, <1>4, SameKeep DEF JobOf
<1>6. CASE pc'[r] = "scan"
  <2>1. PhaseOf(r)' = PhaseOf(r) /\ DroppedOf(r)' = DroppedOf(r)
    BY <1>4, <1>6 DEF DroppedOf
  <2>2. UNCHANGED <<Phase, Job, Dropped>>
    BY <1>3, <1>5, <2>1, NoRequestMoves
  <2>3. QED
    BY <1>2, <2>2
<1>7. CASE pc'[r] = "shape"
  <2>1. PhaseOf(r)' = "decided" /\ DroppedOf(r)' = pruned'[r]
    BY <1>4, <1>7 DEF DroppedOf
  <2>2. /\ Phase' = [Phase EXCEPT ![r] = "decided"]
        /\ Job' = [Job EXCEPT ![r] = JobOf(r)]
        /\ Dropped' = [Dropped EXCEPT ![r] = pruned'[r]]
    BY <1>3, <1>5, <2>1, OneRequestMoves
  <2>3. /\ Phase[r] = "deciding" /\ Job[r] = JobOf(r)
        /\ Ledger[Home[r]].called = sessions[SessionId(r)].toolsUsed
    BY <1>4, ViewAt
  <2>4. Job' = Job
    BY <2>2, <2>3 DEF Job
  <2>5. pruned'[r] \cap evidence[r] = {}
    BY <1>1, ScanEvidence DEF EvidenceInv, PrunedHadNoEvidence
  <2>6. /\ pruned'[r] \in SUBSET Job[r].offered
        /\ pruned'[r] \cap (Job[r].keep \cup Job[r].known) = {}
        /\ Job[r].offered \ (Job[r].keep \cup Ledger[Home[r]].called) \subseteq pruned'[r]
    BY <1>5, <1>7, <2>3, <2>5, ScanRound
  <2>7. QED
    BY <1>2, <2>2, <2>3, <2>4, <2>6, Zenon DEF Contract!Decide
<1>8. QED
  BY <1>1, <1>6, <1>7

\* A step that opens or closes the gate is the contract's.
LEMMA GateSim ==
  ASSUME TypeOK, TurnInv, ScanInv, NEW r \in Requests,
         \/ pc[r] = "observed" /\ pc'[r] = "shape" /\ ~MayPrune(r)
         \/ /\ pc[r] = "gate" /\ pc'[r] = "scan"
            /\ ~LastCacheHit(sessions[SessionId(r)])
         \/ pc[r] = "gate" /\ pc'[r] = "shape" /\ LastCacheHit(sessions[SessionId(r)]),
         Ledger' = Ledger, request'[r] = request[r],
         evidence'[r] = evidence[r], pruned'[r] = pruned[r],
         \A q \in Requests \ {r} : /\ PhaseOf(q)' = PhaseOf(q)
                                   /\ JobOf(q)' = JobOf(q)
                                   /\ DroppedOf(q)' = DroppedOf(q)
  PROVE  Contract!PassGate(r)
<1> DEFINE to == IF pc'[r] = "scan" THEN "deciding" ELSE "decided"
<1>1. /\ pc[r] \in {"observed", "gate"} /\ pc'[r] \in {"scan", "shape"}
      /\ PhaseOf(r) = "observed" /\ PhaseOf(r)' = to
  BY DEF PhaseOf
<1>2. DroppedOf(r) = {} /\ DroppedOf(r)' = {}
  BY <1>1 DEF DroppedOf, ScanInv, UngatedIsWhole
<1>3. /\ JobOf(r) = [offered |-> request[r].offered, keep |-> Keep(r),
                     known |-> evidence[r]]
      /\ JobOf(r)' = JobOf(r)
  BY <1>1, SameKeep DEF JobOf
<1> HIDE DEF to
<1>4. /\ Phase' = [Phase EXCEPT ![r] = to]
      /\ Job' = [Job EXCEPT ![r] = JobOf(r)]
      /\ Dropped' = [Dropped EXCEPT ![r] = {}]
  BY <1>1, <1>2, <1>3, OneRequestMoves
<1>5. UNCHANGED <<Job, Dropped>>
  BY <1>2, <1>4 DEF Job, Dropped
<1>6. /\ Job[r].offered = request[r].offered
      /\ Ledger[Home[r]].turns = Turns(sessions[SessionId(r)])
      /\ Ledger[Home[r]].hit = LastCacheHit(sessions[SessionId(r)])
  BY <1>3, ViewAt DEF Turns, LastCacheHit
<1>7. Contract!GateOpen(r) <=> pc'[r] = "scan"
  <2>1. CASE pc[r] = "observed"
    BY <1>6, <2>1 DEF Contract!GateOpen, MayPrune
  <2>2. CASE pc[r] = "gate"
    <3>1. /\ EnablePruneTools /\ request[r].offered # {}
          /\ Turns(sessions[SessionId(r)]) >= MinObservedTurns
      BY <2>2 DEF ScanInv, GatedMayBePruned, TurnInv, PassedGate
    <3>2. QED
      BY <1>6, <2>2, <3>1 DEF Contract!GateOpen
  <2>3. QED
    BY <1>1, <2>1, <2>2
<1>8. Phase' = [Phase EXCEPT ![r] = IF Contract!GateOpen(r) THEN "deciding" ELSE "decided"]
  BY <1>4, <1>7 DEF to
<1>9. Phase[r] = "observed"
  BY <1>1, ViewAt
<1>10. QED
  BY <1>5, <1>8, <1>9 DEF Contract!PassGate

\* A request that is over carries nothing any more.
LEMMA OverSim ==
  ASSUME NEW r \in Requests, PhaseOf(r)' = "over",
         \A q \in Requests \ {r} : /\ PhaseOf(q)' = PhaseOf(q)
                                   /\ JobOf(q)' = JobOf(q)
                                   /\ DroppedOf(q)' = DroppedOf(q)
  PROVE  Contract!Over(r)
<1>1. /\ JobOf(r)' = [offered |-> {}, keep |-> {}, known |-> {}]
      /\ DroppedOf(r)' = {}
  BY DEF JobOf, DroppedOf
<1>2. QED
  BY <1>1, OneRequestMoves DEF Contract!Over, Contract!NoJob

\* The ledger after an answer has been recorded.
LEMMA RecordSim ==
  ASSUME TypeOK, NEW r \in Requests, RecordHit(r)
  PROVE  \E hit \in BOOLEAN : Ledger' = [Ledger EXCEPT ![Home[r]].hit = hit]
<1> DEFINE id == SessionId(r)
           hit == reply[r] = "hit"
<1>1. id \in SessionIds /\ sessions[id] \in SessionStates /\ hit \in BOOLEAN
  BY RequestParts DEF TypeOK
<1>2. /\ sessions'[id] = RecordCacheHit(sessions[id], hit)
      /\ \A i \in SessionIds \ {id} : sessions'[i] = sessions[i]
  BY <1>1 DEF RecordHit, TypeOK
<1> HIDE DEF hit, id
<1>3. /\ sessions'[id].toolsUsed = sessions[id].toolsUsed
      /\ sessions'[id].turns = sessions[id].turns
      /\ sessions'[id].lastCacheHit = hit
  BY <1>1, <1>2, SessionMonotone
<1>4. Home[r] = id
  BY ViewAt DEF id
<1>5. Ledger' = [Ledger EXCEPT ![id].hit = hit]
  <2>1. LedgerOf(sessions'[id]) = [LedgerOf(sessions[id]) EXCEPT !.hit = hit]
    BY <1>3 DEF LedgerOf
  <2>2. \A i \in SessionIds \ {id} : LedgerOf(sessions'[i]) = LedgerOf(sessions[i])
    BY <1>2
  <2>3. Ledger[id] = LedgerOf(sessions[id])
    BY <1>1 DEF Ledger
  <2>4. QED
    BY <1>1, <2>1, <2>2, <2>3 DEF Ledger
<1>6. QED
  BY <1>1, <1>4, <1>5

\* Every other step of a handler, and every step of the upstream.
LEMMA QuietSim ==
  ASSUME TypeOK, TurnInv, ScanInv, NEW r \in Requests,
         HandlerStep(r) \/ Upstream(r), ~Observe(r), ~ScanTool(r)
  PROVE  \/ Contract!PassGate(r) \/ Contract!Learn(r) \/ Contract!Abandon(r)
         \/ UNCHANGED <<Ledger, Phase, Job, Dropped>>
<1>1. PICK to : QuietStep(r, to)
  BY QuietActions
<1>2. /\ UNCHANGED <<request, pruned, evidence>>
      /\ \A q \in Requests \ {r} : pc'[q] = pc[q]
      /\ \A id \in SessionIds : /\ sessions'[id].toolsUsed = sessions[id].toolsUsed
                                /\ sessions'[id].turns = sessions[id].turns
  BY <1>1 DEF QuietStep, TypeOK
<1>3. \A q \in Requests \ {r} : /\ PhaseOf(q)' = PhaseOf(q)
                                /\ JobOf(q)' = JobOf(q)
                                /\ DroppedOf(q)' = DroppedOf(q)
  BY <1>2, OthersStay
<1>4. pc[r] # "answered" => Ledger' = Ledger
  BY <1>2, EveryStepOf, RequestParts, SameLedger DEF StepOf, LastCacheHit
<1>5. PhaseOf(r)' = PhaseOf(r) => UNCHANGED <<Phase, Job, Dropped>>
  BY <1>2, <1>3, SameView, NoRequestMoves
<1>6. CASE \/ pc[r] = "observed" /\ pc'[r] = "shape" /\ ~MayPrune(r)
           \/ /\ pc[r] = "gate" /\ pc'[r] = "scan"
              /\ ~LastCacheHit(sessions[SessionId(r)])
           \/ pc[r] = "gate" /\ pc'[r] = "shape" /\ LastCacheHit(sessions[SessionId(r)])
  BY <1>2, <1>3, <1>4, <1>6, GateSim
<1>7. CASE \/ pc[r] = "received" /\ pc'[r] = "done"
           \/ pc[r] = "read" /\ pc'[r] = "raw"
           \/ pc[r] = "upstream" /\ pc'[r] = "lost"
  <2>1. PhaseOf(r) \in {"new", "decided"} /\ PhaseOf(r)' = "over"
    BY <1>7 DEF PhaseOf
  <2>2. Contract!Over(r)
    BY <1>3, <2>1, OverSim
  <2>3. Ledger' = Ledger /\ Phase[r] \in {"new", "decided"}
    BY <1>4, <1>7, <2>1, ViewAt
  <2>4. QED
    BY <2>2, <2>3 DEF Contract!Abandon
<1>8. CASE pc[r] = "answered" /\ pc'[r] = "recorded" /\ RecordHit(r)
  <2>1. PhaseOf(r) = "decided" /\ PhaseOf(r)' = "over"
    BY <1>8 DEF PhaseOf
  <2>2. Contract!Over(r) /\ Phase[r] = "decided"
    BY <1>3, <2>1, OverSim, ViewAt
  <2>3. \E hit \in BOOLEAN : Ledger' = [Ledger EXCEPT ![Home[r]].hit = hit]
    BY <1>8, RecordSim
  <2>4. QED
    BY <2>2, <2>3 DEF Contract!Learn
<1>9. CASE \/ pc[r] = "received" /\ pc'[r] = "read"
           \/ pc[r] = "observed" /\ pc'[r] = "gate"
           \/ pc[r] \in {"shape", "shaping"} /\ pc'[r] \in {"shaping", "upstream"}
           \/ pc[r] = "upstream" /\ pc'[r] = "answered"
           \/ pc[r] \in {"raw", "recorded"} /\ pc'[r] = "done"
  <2>1. PhaseOf(r)' = PhaseOf(r)
    BY <1>9 DEF PhaseOf
  <2>2. QED
    BY <1>4, <1>5, <1>9, <2>1
<1>10. QED
  BY <1>6, <1>7, <1>8, <1>9, QuietMoves

\* When the process ends, the requests that have not been sent are the only ones
\* the contract still has to keep.
LEMMA RestartSim ==
  ASSUME TypeOK, Restart
  PROVE  Contract!Restart
<1> DEFINE waiting == {r \in Requests : pc[r] = "idle"}
<1>1. /\ \A r \in Requests : pc'[r] = IF pc[r] \in InFlight THEN "lost" ELSE pc[r]
      /\ sessions' = [id \in SessionIds |-> NewSession]
  BY DEF Restart
<1>2. \A r \in Requests : PhaseOf(r)' = IF r \in waiting THEN "new" ELSE "over"
  <2>1. \A r \in Requests : IF r \in waiting THEN pc'[r] = "idle"
                                             ELSE pc'[r] \in {"done", "lost"}
    BY <1>1 DEF TypeOK, InFlight, Rewriting, Accounting, Final
  <2>2. QED
    BY <2>1 DEF PhaseOf
<1>3. \A r \in Requests : /\ JobOf(r)' = [offered |-> {}, keep |-> {}, known |-> {}]
                          /\ DroppedOf(r)' = {}
  BY <1>2 DEF JobOf, DroppedOf
<1>4. Ledger' = [id \in SessionIds |-> [called |-> {}, turns |-> 0, hit |-> FALSE]]
  BY <1>1 DEF Ledger, LedgerOf, NewSession
<1>5. waiting \in SUBSET {r \in Requests : Phase[r] = "new"}
  BY DEF Phase, PhaseOf
<1>6. /\ Phase' = [r \in Requests |-> IF r \in waiting THEN "new" ELSE "over"]
      /\ Job' = [r \in Requests |-> [offered |-> {}, keep |-> {}, known |-> {}]]
      /\ Dropped' = [r \in Requests |-> {}]
  BY <1>2, <1>3 DEF Phase, Job, Dropped
<1> HIDE DEF waiting
<1>7. QED
  BY <1>4, <1>5, <1>6 DEF Contract!Restart, Contract!NewLedger, Contract!NoJob

\* A step that changes nothing changes nothing the contract sees.
LEMMA StutterSim ==
  ASSUME UNCHANGED vars
  PROVE  UNCHANGED <<Ledger, Phase, Job, Dropped>>
<1>1. UNCHANGED <<sessions, pc, request, pruned, evidence>>
  BY DEF vars, serverVars, handlerVars, historyVars
<1>2. UNCHANGED <<Phase, Job, Dropped>>
  BY <1>1, OthersStay, NoRequestMoves
<1>3. QED
  BY <1>1, <1>2, SameLedger

\* Apply, PruneToolsWithReport and RecordCacheHit, run by any number of handlers at
\* once, implement the contract: every step of the proxy is a step of the contract
\* or changes nothing it speaks of.
THEOREM ProxyKeepsContract == Spec => KeepsContract
<1>1. ASSUME TypeOK, EvidenceInv, TurnInv, ScanInv, [Next]_vars
      PROVE  [Contract!Next]_<<Ledger, Phase, Job, Dropped>>
  <2>1. CASE \E c \in Clients : Send(c)
    BY <1>1, <2>1, SendSim
  <2>2. ASSUME NEW r \in Requests, HandlerStep(r) \/ Upstream(r)
        PROVE  [Contract!Next]_<<Ledger, Phase, Job, Dropped>>
    <3>1. CASE Observe(r)
      BY <1>1, <3>1, ObserveSim DEF Contract!Next
    <3>2. CASE ScanTool(r)
      BY <1>1, <3>2, ScanToolSim DEF Contract!Next
    <3>3. CASE ~Observe(r) /\ ~ScanTool(r)
      BY <1>1, <2>2, <3>3, QuietSim DEF Contract!Next
    <3>4. QED
      BY <3>1, <3>2, <3>3
  <2>3. CASE Restart
    BY <1>1, <2>3, RestartSim DEF Contract!Next
  <2>4. CASE UNCHANGED vars
    BY <2>4, StutterSim
  <2>5. QED
    BY <1>1, <2>1, <2>2, <2>3, <2>4
    DEF Next, HandleChatCompletions, HandleAnthropicMessages, Exhausted
<1>2. QED
  BY InitSim, <1>1, TypeCorrect, EvidenceInvariant, TurnInvariant, ScanInvariant, PTL
  DEF Spec, KeepsContract, Contract!Spec, Contract!contractVars

==============================================================================
