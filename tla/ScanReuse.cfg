SPECIFICATION SelectSpec
CONSTANTS
  c1 = c1
  Callers = {c1}
  APs <- MCTwoAPs
  MaxTable = 2
  MaxResults = 4
  MaxFds = 2
  Reused <- MCReused
  Garbage = {0}
  Changes <- MCBss
  DebugLevel = 2
  Ssids <- MCSsids
  NULL = NULL
INVARIANT CountIsListed
