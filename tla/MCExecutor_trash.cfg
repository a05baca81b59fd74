SPECIFICATION FairSpec
CONSTANTS
  Plan <- TrashPlan
  Paths <- MCPaths
  Parent <- MCParent
  Alternate <- MCAlternate
  InitialFiles <- AnyDisk
  Concurrency = 2
  Window = 2
  GroupCommit = 3
  MaxAttempts = 2
  Interactive = TRUE
  Answers <- AllAnswers
  DefaultConflict = "Skip"
  FaultKinds = {"Retryable", "Space", "Fatal"}
  JournalMayFail = TRUE
  MaxFaults = 2
  MaxControls = 2
INVARIANT TrashedHasInfo
PROPERTY JobEnds
