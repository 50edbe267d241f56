CONSTANTS
  o1 = o1
  o2 = o2
  Live = Live
  Old = {o1, o2}
  Born <- BornOf
  Retention = 2
  MaxSize = 1
  Noted = {o1}
  LastDay = 3
  MaxPasses = 1
  MaxUp = 2
  MaxDown = 1
  Threads = 2
SPECIFICATION FairSpec
CHECK_DEADLOCK FALSE
INVARIANTS
  RecordedInOrder
  RecordingIsNotCut
  OldestFirst
PROPERTIES
  EveryLineIsWritten
