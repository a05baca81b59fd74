SPECIFICATION Spec
CONSTANTS
  Plan <- VerifiedMove
  Paths <- MCPaths
  Parent <- MCParent
  Alternate <- MCAlternate
  InitialFiles <- FreeOrTaken
  Concurrency = 2
  Window = 2
  GroupCommit = 3
  MaxAttempts = 2
  Interactive = TRUE
  Answers <- SafeAnswers
  DefaultConflict = "Skip"
  FaultKinds = {"Retryable", "Space"}
  JournalMayFail = FALSE
  MaxFaults = 1
  MaxControls = 1
INVARIANT WriteAhead NothingLost
