\* A client that sends its next turn as soon as it has read the answer.
CONSTANTS
  c1 = c1
  c2 = c2
  read = read
  push = push
  id1 = id1
  id2 = id2
  p1 = p1
  p2 = p2
  NoPrint = NoPrint
  Tools = {read, push}
  Prints = {p1}
  Clients = {c1}
  MaxAttempts = 5
  SessionIds = {id1}
  SessionOf <- OwnSession
  ApiOf <- AllOpenAI
  EagerClients = {c1}
  ProtectedTools = {}
  EnablePruneTools = TRUE
  DryRun = FALSE
  MinObservedTurns = 3
  Offers <- AllTools
  Choices <- Auto
  Bodies = {"good"}
  InsertMayFail = FALSE
  MaxRestarts = 0
SPECIFICATION Spec
INVARIANTS
  HitSparesNextTurn
