SPECIFICATION SelectSpec
CONSTANTS
  c1 = c1
  Callers = {c1}
  APs <- MCAPs
  MaxTable = 2
  MaxResults = 2
  MaxFds = 2
  Reused <- MCReused
  Garbage = {0, 1}
  Changes <- MCChanges
  DebugLevel = 2
  Ssids <- MCSsids
  NULL = NULL
INVARIANTS
  TypeOK
  QuietScanExact
  EntriesWhole
  VendorOwn
  WithinCount
  WithinArray
  ListStreams
  StrongestInRange
  PointerKept
