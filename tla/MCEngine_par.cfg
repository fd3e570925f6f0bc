CONSTANTS
  Inputs <- MCInputs
  Derived <- MCDerived
  Deps <- MCDeps
  Values = {0, 1}
  InitialInputs <- MCInitialInputs
  NoValue = NoValue
  Compute <- MCCompute
  MaxRev = 2
  Workers = {w1, w2}
  Targets = {"tgt", "loop", "bad"}
  Broken = {}
  Flaky = {"aux"}
SPECIFICATION Spec
INVARIANTS
  Fresh
  BooksTrue
  SameAsSerial
PROPERTIES
  Returns
  Refines
