SPECIFICATION Spec
CONSTANTS
  c1 = c1
  Callers = {c1}
  p1 = p1
  p2 = p2
  Pids = {p1, p2}
  NoPid = NoPid
  NoFile = NoFile
  Empty = Empty
  Torn = Torn
  NoArgs = NoArgs
  MaxFds = 2
  Daemons <- MCDaemons
  Exclusive <- MCExclusive
  Configs <- MCConfigs
  StaArgs <- MCStaArgs
  Faults = {"crash", "killed"}
SYMMETRY PidSymmetry
INVARIANTS
  StreamAccounting
  PidInv
  SupplicantConfigured
