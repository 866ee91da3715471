\* The sizes of the fifo are given where MCIpcLink instantiates it.
SPECIFICATION SpecOfParts
CONSTANTS
  Command = {"DATA"}
  Payload = {a, b}
  MaxInFlight = 3
  Byte = {b1, b2}
  Undef = undef
CONSTRAINT InFlightBound
INVARIANTS
  TypeOK
  OneDirection
  TurnNotLost
  OnlyPiecesAwaited
  WindowValid
  CapacityBounded
PROPERTY QueueSpec
CHECK_DEADLOCK FALSE
