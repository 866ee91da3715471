SPECIFICATION Spec
CONSTANTS
  MaxSongs = 2
  MaxFiles = 2
  Capacity = 2
  Block = 2
  ReadBytes = 2
  SkipMax = 1
  LastSubsong = 1
  MaxQueue = 1
  LedForced = TRUE
  FilterWhenIdle = FALSE
INVARIANTS
  NoProtocolError
  ErrorsJustified
  AssertionsHold
  NothingLeaks
  StopQuiesces
  TailBeforeTurn
  FilterFollows
PROPERTY LinkSpec
