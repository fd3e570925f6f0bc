CONSTANTS
  Sources = {"x.c"}
  Shape = "BUILD"
  Contents = {0, 1, 2}
  Bad = {1}
  Acts <- MCActs
  InTree = {"x.o"}
  LeafOf <- MCLeafOf
  Tokens <- MCTokens
  ActsOf <- MCActsOf
  Clients = {"c1"}
  Streaming = {"c1"}
  MayLeave = {"c1"}
  Watching = TRUE
  Reverts = FALSE
  MaxChanges = 1
  MaxBuilds = 2
  None = None
SPECIFICATION Spec
CHECK_DEADLOCK FALSE
PROPERTIES
  CommitsTrue
  WarmEqualsCold
  Answered
