SPECIFICATION Spec
CONSTANTS
  Plan <- PlainMove
  Paths <- MCPaths
  Parent <- MCParent
  Alternate <- MCAlternate
  InitialFiles <- FirstTaken
  Concurrency = 2
  Window = 2
  GroupCommit = 3
  MaxAttempts = 2
  Interactive = FALSE
  Answers <- SafeAnswers
  DefaultConflict = "Overwrite"
  FaultKinds = {}
  JournalMayFail = TRUE
  MaxFaults = 1
  MaxControls = 2
INVARIANT OldOrNew OrphansNamed RedoneLast
