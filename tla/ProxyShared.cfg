\* Two clients in one session, one on each endpoint; the one of OpenAI may name
\* a tool in tool_choice.
CONSTANTS
  c1 = c1
  c2 = c2
  read = read
  push = push
  id1 = id1
  id2 = id2
  p1 = p1
  p2 = p2
  NoPrint = NoPrint
  Tools = {read, push}
  Prints = {p1}
  Clients = {c1, c2}
  MaxAttempts = 2
  SessionIds = {id1}
  SessionOf <- SharedSession
  ApiOf <- OnePerApi
  EagerClients = {}
  ProtectedTools = {}
  EnablePruneTools = TRUE
  DryRun = FALSE
  MinObservedTurns = 3
  Offers <- AllTools
  Choices <- AutoOrFunction
  Bodies = {"good"}
  InsertMayFail = FALSE
  MaxRestarts = 0
SPECIFICATION Spec
INVARIANTS
  TypeOK
  PrunedHadNoEvidence
  TurnsCountObserved
  GateNeedsObservedTurns
  FlagIsCurrent
PROPERTIES
  NothingForgotten
  KeepsContract
