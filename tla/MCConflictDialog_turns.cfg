SPECIFICATION Spec
CONSTANTS
  j1 = j1
  j2 = j2
  Jobs = {j1, j2}
  Started = {j1}
  Width <- MCWidth
  MaxConflicts = 3
  Sides = {"dest"}
INVARIANT InTurn Survivable KeysReachFront
PROPERTY PromptEnds
CHECK_DEADLOCK FALSE
