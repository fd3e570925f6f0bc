CONSTANTS
  Clients = {c1, c2, c3}
  Daemons = {d0, d1, d2}
  NoOne = NoOne
  BuildOf <- OneBuild
  Commands <- WithExpunge
  Sockets <- TwoSockets
  OldDaemon = d0
  OldBuilds = {"new"}
  MaxFaults = 0
SPECIFICATION Spec
INVARIANT OneWriter
