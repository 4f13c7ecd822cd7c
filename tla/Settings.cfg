SPECIFICATION Spec
CONSTANTS
  StaArgs <- MCSized
  ApArgs <- MCApArgs
  Chars <- MCChars
  NoFile = NoFile
  Empty = Empty
  Modes = {"sta", "ap"}
INVARIANTS
  SettingsInvSta
  SettingsInvAp
PROPERTIES
  ReopenKeepsSta
  ReopenKeepsAp
