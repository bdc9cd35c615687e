---------------------------- MODULE ProxyContract ----------------------------
(***************************************************************************)
(* Proxy implements PruneContract.  The step that the contract takes for   *)
(* the gate is the check that settles it: CheckTurns when it fails, and    *)
(* otherwise CheckCacheHit.  The step it takes for the choice is the last  *)
(* round of the loop over the tools.                                       *)
(***************************************************************************)
EXTENDS Proxy

\* What a session amounts to.  Its fingerprints are of no concern to pruning.
LedgerOf(s) == [called |-> s.toolsUsed, turns |-> s.turns, hit |-> s.lastCacheHit]

PhaseOf(r) ==
  CASE pc[r] \in {"idle", "received", "read"} -> "new"
    [] pc[r] \in {"observed", "gate"} -> "observed"
    [] pc[r] = "scan" -> "deciding"
    [] pc[r] \in {"shape", "shaping", "upstream", "answered"} -> "decided"
    [] OTHER -> "over"

\* The tools a request keeps by itself.
Keep(r) == ProtectedTools \cup ForcedToolChoice(r) \cup ToolCallNames(r)

\* The contract's view of a request while it is being handled.
JobOf(r) ==
  IF PhaseOf(r) \in {"observed", "deciding", "decided"}
    THEN [offered |-> request[r].offered, keep |-> Keep(r), known |-> evidence[r]]
    ELSE [offered |-> {}, keep |-> {}, known |-> {}]

DroppedOf(r) == IF PhaseOf(r) = "decided" THEN pruned[r] ELSE {}

Home == [r \in Requests |-> SessionId(r)]
Ledger == [id \in SessionIds |-> LedgerOf(sessions[id])]
Phase == [r \in Requests |-> PhaseOf(r)]
Job == [r \in Requests |-> JobOf(r)]
Dropped == [r \in Requests |-> DroppedOf(r)]

Contract == INSTANCE PruneContract WITH
  Home    <- Home,
  ledger  <- Ledger,
  phase   <- Phase,
  job     <- Job,
  dropped <- Dropped

\* Whatever the handlers of a session do between each other's lock regions, a
\* request is pruned as if the session had been asked once: never against what was
\* known when it was observed, and never short of what is known in the end
\* (Apply, PruneToolsWithReport, RecordCacheHit).
KeepsContract == Contract!Spec

==============================================================================
