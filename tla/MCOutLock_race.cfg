CONSTANTS
  p1 = p1
  p2 = p2
  Procs = {p1, p2}
  MaxContenders = 2
  NoFile = NoFile
  NoText = NoText
SPECIFICATION LockSpec
INVARIANT MutualExclusion
CHECK_DEADLOCK FALSE
