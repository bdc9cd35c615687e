\* Two processes that may both serve, activate a license of either size or remove it.
CONSTANTS
  server = server
  other = other
  short = short
  long = long
  Processes = {server, other}
  Handlers = {1, 2}
  Commands <- ServeOrAnything
  MaxStarts <- TwiceAndOnce
  StartingDbs <- FoundDbs
  OldRows <- OldOnes
  LoadMayFail = TRUE
  Keys = {short, long}
  KeySize <- Sizes
  OtherKey = OtherKey
SPECIFICATION FairSpec
CHECK_DEADLOCK FALSE
INVARIANTS
  TypeOK
  ServingMeansCurrent
  OneMethodPerRun
  LicenseAsLeft
PROPERTIES
  RowsStay
  LoneServerServes
  HandlersFinish
