\* One patient client with a session to itself, long enough to prune, hit and
\* prune again; a restart; one tool is protected.
CONSTANTS
  c1 = c1
  c2 = c2
  read = read
  push = push
  id1 = id1
  id2 = id2
  p1 = p1
  p2 = p2
  NoPrint = NoPrint
  Tools = {read, push}
  Prints = {p1}
  Clients = {c1}
  MaxAttempts = 4
  SessionIds = {id1}
  SessionOf <- OwnSession
  ApiOf <- AllAnthropic
  EagerClients = {}
  ProtectedTools = {read}
  EnablePruneTools = TRUE
  DryRun = FALSE
  MinObservedTurns = 3
  Offers <- AllTools
  Choices <- AutoOrForced
  Bodies = {"good"}
  InsertMayFail = FALSE
  MaxRestarts = 1
SPECIFICATION Spec
INVARIANTS
  GateNeedsObservedTurns
  PrunedHadNoEvidence
  HitSparesNextTurn
  FlagIsCurrent
