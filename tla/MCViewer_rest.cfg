SPECIFICATION Spec
CONSTANTS
  Files <- MCFiles
  Flavours = {TRUE, FALSE}
  Chunks = 1
  MaxOpens = 2
  MaxActs = 3
  OpenCost = 1
  MaxFaults = 1
INVARIANT LastAskedShown ShownIsComplete NoSearchLeft NeverStuck
CHECK_DEADLOCK FALSE
