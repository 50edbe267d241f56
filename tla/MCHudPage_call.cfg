CONSTANTS
  Forms = {asked}
  Idle = Idle
  MaxSeq = 2
  MaxAge = 2
  MaxEra = 1
  Calls = {v1, v2}
  MaxWaiting = 1
  MaxLines = 3
  None = None
SPECIFICATION HudSpec
INVARIANTS
  HelpEnds
  NewestWait
PROPERTIES
  VerdictFitsOrReset
SYMMETRY
  CallSymmetry
CHECK_DEADLOCK FALSE
