SPECIFICATION Spec
CONSTANTS
  c1 = c1
  Callers = {c1}
  p1 = p1
  p2 = p2
  p3 = p3
  Pids = {p1, p2, p3}
  NoPid = NoPid
  NoFile = NoFile
  Empty = Empty
  Torn = Torn
  NoArgs = NoArgs
  NoAddress = NoAddress
  MaxFds = 3
  Daemons <- MCDaemons
  Exclusive <- MCExclusive
  Configs <- MCConfigs
  StaArgs <- MCStaArgs
  ApArgs <- MCApArgs
  Faults = {}
SYMMETRY PidSymmetry
INVARIANTS
  OneMode
  NothingLeft
  ServesAsked
