SPECIFICATION Spec
CONSTANTS
  c1 = c1
  Clients = {c1}
  NoClient = NoClient
  kWakelockTimeout = 0
  QuantumCount = 1
  kMaxSizePendingWriteEventsQueue = 2
  SizeSpan = 8
  BatchKinds <- MCBatchKinds
  MaxBatch = 2
  MaxPosts = 2
  MaxEvents = 3
  MaxInits = 2
INVARIANTS AcksFollowEvents AwakeForEvents
PROPERTIES ImplementsSharedWakelock OverReleaseExplained
CHECK_DEADLOCK FALSE
