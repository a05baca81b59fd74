SPECIFICATION Spec
CONSTANTS
  Plan <- DirMove
  Paths <- MCPaths
  Parent <- MCParent
  Alternate <- MCAlternate
  InitialFiles <- Merged
  Concurrency = 2
  Window = 1
  GroupCommit = 3
  MaxAttempts = 2
  Interactive = TRUE
  Answers <- ForAll
  DefaultConflict = "Skip"
  FaultKinds = {"Fatal"}
  JournalMayFail = TRUE
  MaxFaults = 1
  MaxControls = 1
INVARIANT TypeOK GatedRemoval FinishedLast OutcomeIsHonest FinishedIsClean
