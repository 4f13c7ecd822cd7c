SPECIFICATION FairSpec
CONSTANTS
  c1 = c1
  Callers = {c1}
  p1 = p1
  p2 = p2
  p3 = p3
  Pids = {p1, p2, p3}
  NoPid = NoPid
  NoFile = NoFile
  Empty = Empty
  Torn = Torn
  NoArgs = NoArgs
  MaxFds = 2
  Daemons <- MCDaemons
  Exclusive <- MCExclusive
  Configs <- MCConfigs
  StaArgs <- MCTwoArgs
  Faults = {}
INVARIANTS
  TypeOK
  CloseDownsSupplicant
PROPERTIES
  ServiceSpec
  CallsReturn
  CloseTakesEffect
