CONSTANTS
  Sessions = {s1, s2}
  Duplex = {s1}
  None = None
  MaxPush <- Inputs
  MaxFaults = 1
SPECIFICATION FairSpec
CHECK_DEADLOCK FALSE
INVARIANTS
  StepAfterFinalize
  TrespassersAreKnown
  SlotIsOnItsWay
PROPERTIES
  SlotComesBack
  WorkerComesBack
