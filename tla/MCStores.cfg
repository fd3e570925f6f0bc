SPECIFICATION Spec
CONSTANTS
  Lines <- MCLines
  Rcs <- MCRcs
  Scopes <- MCScopes
  CrateNames = {"blake", "serde"}
  LockFiles <- MCLockFiles
  Loaders = {"t1", "t2"}
  Faults = {"curl", "corrupt", "tar", "kill"}
  MaxSessions = 2
  Commands = {"c1", "c2", "c3"}
  Request <- MCRequest
  Analysed <- MCAnalysed
  Subscribers = {"s1", "s2"}
  Sources = {"s", "h"}
  Bytes = {c1, c2, bad}
  Bad = bad
  Absent = absent
  Builds = {"b1", "b2"}
  Actions = {"gen", "link"}
  Outs <- MCOuts
  Decl <- MCDecl
  Reads <- MCDecl
  MaxEdits = 4
  MaxCrashes = 1
  CrashInStore = FALSE
  FactTargets = {"t1", "t2", "t3"}
  FieldOrder <- MCFieldOrder
  Producible <- MCFacts
  Graphs <- MCGraphs
  Decl_ <- MCDeclared
  Toolchains <- MCToolchains
  Requestable = {"a", "b", "c", "x"}
  Inputs <- MCInputs
  Scripted = {"z", "m"}
  Plains = {"p"}
  Binary = "bin"
  CrateDeps <- MCCrateDeps
  LinksDeps <- MCLinksDeps
  HasLinks = {"z"}
  Stdouts <- MCStdouts
  MaxRuns = 2
INVARIANTS     FoldsAgree FoldsInOrder SelectedIsLargest NoHoles FlagsScoped
CHECK_DEADLOCK FALSE
