CONSTANTS
  pkgP = pkgP
  pkgQ = pkgQ
  pkgR = pkgR
  modB = modB
  u1 = u1
  t1 = t1
  u2 = u2
  t2 = t2
  u3 = u3
  t3 = t3
  Workers = {w1, w2, w3}
  Main = main
  Pkgs = {pkgP, pkgQ, pkgR}
  Bzls = {modB}
  Decls = {u1, t1, u2, t2, u3, t3}
  PkgOf <- MCPkgOf
  Pair = {w1, w2}
  Entries <- MCEntries
  Workspaces <- MCWorkspaces
  MaxTakeovers = 1
  None = None
SPECIFICATION Spec
INVARIANTS
  ClaimsTrue
  RestartParity
PROPERTIES
  AllFinish
