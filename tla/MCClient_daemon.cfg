CONSTANTS
  Clients = {c1, c2}
  Daemons = {d0, d1, d2}
  NoOne = NoOne
  BuildOf <- OneBuild
  Commands <- AllButExpunge
  Sockets <- TwoSockets
  OldDaemon = d0
  OldBuilds = {"ancient", "old"}
  MaxFaults = 1
SPECIFICATION Spec
INVARIANTS OneWriter SameBuild
PROPERTY CommandEnds
