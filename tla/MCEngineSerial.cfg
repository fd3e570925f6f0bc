CONSTANTS
  Inputs <- MCInputs
  Derived <- MCDerived
  Deps <- MCDeps
  Values = {0, 1}
  InitialInputs <- MCInitialInputs
  NoValue = NoValue
  Compute <- MCCompute
  MaxRev = 2
  Targets = {"tgt", "lib", "loop", "bad"}
  Broken = {"lib"}
SPECIFICATION Spec
INVARIANTS
  StackTrue
  WarmEqualsCold
PROPERTIES
  Refines
  Returns
