SPECIFICATION Spec
CONSTANTS
  StaArgs <- MCShort
  ApArgs = {}
  Chars <- MCChars
  NoFile = NoFile
  Empty = Empty
  Modes = {"sta"}
INVARIANTS
  ReadsBackSta
