SPECIFICATION Spec
CONSTANTS
  MaxJobs = 2
  MaxConcurrent = 1
  Priorities = {0, 1}
  Workers = {w1, w2}
  Batches = 1
  FullDisk = {0}
  MaxSpace = 1
  MaxPasses = 2
  ChanCap = 2
SYMMETRY WorkerSymmetry
INVARIANT TypeOK SlotAccounting NoIdleSlot TerminalIsFinal TrackedIsHeld
PROPERTY SchedulerSpec
