\* Every kind of body, an impatient client and a restart, under fairness.
CONSTANTS
  c1 = c1
  c2 = c2
  read = read
  push = push
  id1 = id1
  id2 = id2
  p1 = p1
  p2 = p2
  NoPrint = NoPrint
  Tools = {read}
  Prints = {p1}
  Clients = {c1}
  MaxAttempts = 2
  SessionIds = {id1}
  SessionOf <- SharedSession
  ApiOf <- AllOpenAI
  EagerClients = {c1}
  ProtectedTools = {}
  EnablePruneTools = TRUE
  DryRun = FALSE
  MinObservedTurns = 1
  Offers <- AllOrNoTools
  Choices <- Auto
  Bodies = {"good", "garbled", "refused"}
  InsertMayFail = TRUE
  MaxRestarts = 1
SPECIFICATION FairSpec
INVARIANTS
  TurnsCountObserved
PROPERTIES
  HandlerNeverStalls
  KeepsContract
