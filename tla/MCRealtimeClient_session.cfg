CONSTANTS
  Delay = 1
  MaxStarts = 3
  MaxChunks = 3
  MaxStops = 1
SPECIFICATION Spec
INVARIANTS
  VoiceInOrder
  OverIsOver
  WayOut
CHECK_DEADLOCK FALSE
