CONSTANTS
  Sources = {"x.c"}
  Shape = "BUILD"
  Contents = {0, 1}
  Bad = {}
  Acts <- MCActs
  InTree = {"x.o"}
  LeafOf <- MCLeafOf
  Tokens <- MCTokens
  ActsOf <- MCActsOf
  Clients = {"c1"}
  Streaming = {}
  MayLeave = {}
  Watching = TRUE
  Reverts = TRUE
  MaxChanges = 2
  MaxBuilds = 2
  None = None
SPECIFICATION Spec
CHECK_DEADLOCK FALSE
PROPERTIES
  WarmEqualsCold
