CONSTANTS
  Names = {c1, c2}
  Values = {v1}
  Workers = {w1, w2}
  Main = Main
  Idle = Idle
  Torn = Torn
  EarlyRequests = TRUE
  FileFails = TRUE
  Garbage <- Uninitialised
  MaxChanges = 3
  MaxCrashes = 1
SPECIFICATION FairSpec
CHECK_DEADLOCK FALSE
INVARIANTS
  TypeOK
  NothingForgotten
  SavedAtShutdown
  
PROPERTY ChangesSaved
