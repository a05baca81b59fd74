SPECIFICATION FairSpec
CONSTANTS
  MaxJobs = 2
  MaxConcurrent = 1
  Priorities = {0}
  Workers = {w1, w2}
  Batches = 1
  FullDisk = {0}
  MaxSpace = 1
  MaxPasses = 1
  ChanCap = 1
PROPERTY CancelEnds QueuedLeaves
