CONSTANTS
  Names = {c1}
  Values = {v1}
  Workers = {w1}
  Main = Main
  Idle = Idle
  Torn = Torn
  EarlyRequests = FALSE
  FileFails = FALSE
  Garbage <- Uninitialised
  MaxChanges = 1
  MaxCrashes = 0
SPECIFICATION FairSpec
CHECK_DEADLOCK FALSE
PROPERTY ShutdownEnds
