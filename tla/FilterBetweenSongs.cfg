SPECIFICATION Spec
CONSTANTS
  MaxSongs = 2
  MaxFiles = 1
  Capacity = 1
  Block = 2
  ReadBytes = 2
  SkipMax = 1
  LastSubsong = 1
  MaxQueue = 1
  LedForced = TRUE
  FilterWhenIdle = TRUE
INVARIANT NoProtocolError
