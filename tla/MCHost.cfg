SPECIFICATION Spec
CONSTANTS
  d0 = d0 d1 = d1 d2 = d2 d3 = d3 c1 = c1 c2 = c2 w1 = w1 w2 = w2 NoOne = NoOne
  Daemons = {d0, d1, d2, d3}
  Manual = {d0, d1}
  Clients = {c1, c2}
  Roots = {w1, w2}
  Workspace <- MCWorkspace
  Pinned = {w1}
  Old = {d0}
  Autostart = {c1, c2}
  MaxKills = 1
  Subscribers = {"s1", "s2"}
  Runners = {"r1"}
  Bound = 1
  MaxRev = 1
  MaxGen = 2
  MaxChanges = 1
INVARIANTS   StreamOrdered
PROPERTIES DialEnds SeesLatest
CHECK_DEADLOCK FALSE
