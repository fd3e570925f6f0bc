SPECIFICATION Spec
CONSTANTS
  QueryWorkspaces <- MCQueried
  Questions <- MCQuestions
  Garbled <- MCGarbled
  Rounds = 4
  Modes = {"label_kind", "graph"}
  Spelling <- MCSpelling
  Numeral <- MCNumeral
  Regex <- MCRegex
  Lex <- MCLex
  Workspaces <- MCWorkspaces
  Disk <- MCDisk
  AllPkgs <- MCAllPkgs
  Configs <- MCConfigs
  Requests <- MCRequests
INVARIANTS QueryTrue LoadedEnough StableRows InputsProduced NoFalseError
PROPERTY AnalysedOnce
