\* A repeated long output that leaves the recency window.
CONSTANTS
  Apis = {"openai", "anthropic"}
  Signatures = {a, b}
  Contents <- ShortAndLong
  Orphans = {}
  RecencyWindow = 2
  a = a
  b = b
  StubBytes = 3
  MaxMessages = 7
SPECIFICATION Spec
INVARIANTS
  LatestKeptInFull
