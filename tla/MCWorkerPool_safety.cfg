CONSTANTS
  Workers = {1, 2}
  StaticWorkers = {1, 2}
  DynamicWorkers = {}
  MovableWorkers = {}
  GpuGroup <- SharedGpu
  Clients = {c1, c2, c3}
  MaxQueue = 2
  MaxCrashes = 1
  None = None
  Pending = Pending
  Cancelled = Cancelled
SPECIFICATION Spec
SYMMETRY ClientSymmetry
INVARIANTS
  ExclusiveUnlessMoved
  WorkConserving
PROPERTIES
  ImplementsLeases
  OnlyFailedSendLeaks
