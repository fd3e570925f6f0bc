CONSTANTS
  p1 = p1
  p2 = p2
  p3 = p3
  Procs = {p1, p2, p3}
  MaxContenders = 1
  NoFile = NoFile
  NoText = NoText
SPECIFICATION LockSpec
INVARIANTS
  MutualExclusion
PROPERTIES
  LockSurvives
CHECK_DEADLOCK FALSE
