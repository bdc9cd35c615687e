------------------------------- MODULE Session -------------------------------
(***************************************************************************)
(* The state that internal/session keeps for one conversation, and the     *)
(* methods of Session as operators on it.  Every method of the code holds  *)
(* the session's mutex for its whole body, so one operator is one atomic   *)
(* read or write; nothing holds the mutex from one method to the next.     *)
(*                                                                         *)
(* toolsUsed counts calls per name in the code; the only reader tests the  *)
(* count against zero, so the set of names with a positive count is kept.  *)
(* lastFingerprints is kept as its first element: ShapeForCache reports a  *)
(* stable prefix exactly when the first fingerprints agree.                *)
(***************************************************************************)
EXTENDS Naturals

CONSTANTS
  Tools,      \* tool names
  Prints,     \* fingerprints of a first message
  NoPrint     \* no fingerprint recorded, or an empty list of them

ASSUME PrintAssumption == NoPrint \notin Prints

SessionStates ==
  [ turns         : Nat,
    toolsUsed     : SUBSET Tools,
    lastPrint     : Prints \cup {NoPrint},
    lastCacheHit  : BOOLEAN ]

\* What Store.Get creates for an id it does not know.  A missing entry of the
\* store's map and a fresh one cannot be told apart by any caller.
NewSession ==
  [ turns |-> 0, toolsUsed |-> {}, lastPrint |-> NoPrint, lastCacheHit |-> FALSE ]

Turns(s) == s.turns

HasUsedTool(s, tool) == tool \in s.toolsUsed

\* Variant for testing the properties: the flag is never consulted.
LastCacheHitIgnored(s) == FALSE

LastCacheHit(s) == s.lastCacheHit

LastMessageFingerprint(s) == s.lastPrint

\* Variants: only requests with calls count as turns; the names replace those of
\* earlier requests.
ObserveCallingTurns(s, names) ==
  [s EXCEPT !.turns = IF names = {} THEN @ ELSE @ + 1, !.toolsUsed = @ \cup names]

ObserveLastToolCalls(s, names) ==
  [s EXCEPT !.turns = @ + 1, !.toolsUsed = names]

ObserveToolCalls(s, names) ==
  [s EXCEPT !.turns = @ + 1, !.toolsUsed = @ \cup names]

\* Variant: the entry is replaced instead of updated.
ReplaceByFingerprint(s, print) == [NewSession EXCEPT !.lastPrint = print]

RecordMessageFingerprint(s, print) == [s EXCEPT !.lastPrint = print]

RecordCacheHit(s, hit) == [s EXCEPT !.lastCacheHit = hit]

==============================================================================
