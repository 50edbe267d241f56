CONSTANTS
  Workers = {1}
  StaticWorkers = {1}
  DynamicWorkers = {1}
  MovableWorkers = {1}
  GpuGroup <- SharedGpu
  Clients = {c1, c2}
  MaxQueue = 2
  MaxCrashes = 1
  None = None
  Pending = Pending
  Cancelled = Cancelled
SPECIFICATION FairSpec
PROPERTIES
  QueueDrains
