SPECIFICATION Spec
CONSTANTS
  Tree <- MCTree
  Restored <- MCRestored
  Hotlist <- MCHotlist
  Matching <- MCMatching
  DefaultMode = "Jump"
  MouseMode = "Windows"
  MayFail = TRUE
  MaxLoads = 2
  MaxKeys = 2
INVARIANT ShownIsCurrent CursorLockstep AnchorKeepsEntry JumpIsTimed
