\* Parallel calls of one assistant message, answered in one message.
CONSTANTS
  Apis = {"anthropic"}
  Signatures = {a, b}
  Contents <- ShortAndLong
  Orphans = {}
  RecencyWindow = 6
  a = a
  b = b
  StubBytes = 3
  MaxMessages = 4
SPECIFICATION Spec
INVARIANTS
  StubTellsTheTruth
