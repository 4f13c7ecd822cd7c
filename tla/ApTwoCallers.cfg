SPECIFICATION Spec
CONSTANTS
  c1 = c1
  c2 = c2
  p1 = p1
  p2 = p2
  Callers = {c1, c2}
  Pids = {p1, p2}
  NoPid = NoPid
  NoFile = NoFile
  Empty = Empty
  Torn = Torn
  NoArgs = NoArgs
  NoAddress = NoAddress
  MaxFds = 2
  Daemons <- MCDaemons
  Exclusive <- MCExclusive
  Configs <- MCConfigs
  ApArgs <- MCHome
  Faults = {}
SYMMETRY PidCallerSymmetry
INVARIANTS
  StreamAccounting
  PidInv
