SPECIFICATION FairSpec
CONSTANTS
  Dirs <- MCDirs
  FirstDirs <- MCFirst
  Sources = {"watch", "poll"}
  Walkers = {w1}
  QueueCap = 1
  MaxChanges = 2
  MaxFaults = 2
INVARIANT WrongIsUnknown
PROPERTY WrongIsDropped
