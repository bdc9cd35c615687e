\* The same, with a field of its own in the function of a call.
CONSTANTS
  Null = Null  Empty = Empty  Absent = Absent
  NoHeader = NoHeader  Garbled = Garbled  NotBegun = NotBegun
  m1 = m1  m2 = m2  rules = rules  task1 = task1  task2 = task2  hint = hint
  args = args  shell = shell  grep = grep  dump = dump  x = x  other = other
  Tools = {shell, grep}
  Prints = {}
  NoPrint = NoPrint
  Conversations = {1, 2}
  Openings <- EitherOpenings
  Additions <- SignedAdditions
  ToolLists <- SomeTools
  Headers = {other}
  Hits = {TRUE}
  MaxRequests = 2
SPECIFICATION Spec
CHECK_DEADLOCK FALSE
INVARIANTS
  CallsArriveWhole
