SPECIFICATION Spec
CONSTANTS
  Devices = {"d1", "d2", "d3", "d4"}
  Bases = {"eth", "wlan"}
  Attributes <- MCAttributes
  DefaultBase <- MCDefaultBase
  Iftabs <- MCIftabs
  None = None
  MaxMoves = 1
CHECK_DEADLOCK FALSE
INVARIANTS
  TypeOK
  AllNamed
PROPERTIES
  NamesKept
  ReturnsName
  EndNears
