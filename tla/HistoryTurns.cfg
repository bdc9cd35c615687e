CONSTANTS
  Apis = {"openai", "anthropic"}
  Signatures = {a, b}
  Contents <- AllContents
  Orphans <- LongOnly
  RecencyWindow = 1
  a = a
  b = b
  StubBytes = 3
  MaxMessages = 5
SYMMETRY Symmetric
SPECIFICATION Spec
INVARIANTS
  TypeOK
  LatestRepeatStays
  RecentOnlyStubbed
  StubsAreReported
PROPERTIES
  RewriteNeverUndone
