SPECIFICATION Spec
CONSTANTS
  Plans <- Two
  Ids = {0, 1}
  Answers = {"resume", "discard"}
  PowerLoss = TRUE
  MaxSessions = 2
  JobSessions = 1
  MaxFaults = 1
INVARIANT TypeOK RetiredStaysGone PartialsAccounted
CHECK_DEADLOCK FALSE
