SPECIFICATION Spec
CONSTANTS
  c1 = c1
  Clients = {c1}
  NoClient = NoClient
  kWakelockTimeout = 1
  QuantumCount = 1
  kMaxSizePendingWriteEventsQueue = 2
  SizeSpan = 8
  BatchKinds <- MCLongBatch
  MaxBatch = 3
  MaxPosts = 1
  MaxEvents = 3
  MaxInits = 1
PROPERTIES FailedWriteWithinCount
CHECK_DEADLOCK FALSE
