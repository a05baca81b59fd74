SPECIFICATION Spec
CONSTANTS
  Tree <- MCTree
  Listing <- MCListing
  Tops <- MCTops
  Jobs <- MCJobs
  Alternate <- MCAlternate
  MaxFaults = 3
  MaxRounds = 3
INVARIANT PlanOrdered NothingLost CleanMeansDone
CHECK_DEADLOCK FALSE
