\* Two conversations out of seven openings in both dialects, and their replay.
CONSTANTS
  Null = Null  Empty = Empty  Absent = Absent
  NoHeader = NoHeader  Garbled = Garbled  NotBegun = NotBegun
  m1 = m1  m2 = m2  rules = rules  task1 = task1  task2 = task2  hint = hint
  args = args  shell = shell  grep = grep  dump = dump  x = x  other = other
  Tools = {shell, grep}
  Prints = {}
  NoPrint = NoPrint
  Conversations = {1, 2}
  Openings <- EitherOpenings
  Additions <- PlainAdditions
  ToolLists <- SomeTools
  Headers = {other}
  Hits = {TRUE}
  MaxRequests = 3
SPECIFICATION Spec
CHECK_DEADLOCK FALSE
INVARIANTS
  TypeOK
  FieldsSurvive
  OneSessionPerConversation
  ReplayAgrees
PROPERTIES
  KeepsLedgers
