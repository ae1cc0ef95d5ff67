SPECIFICATION FairQueueSpec
CONSTANTS
  QuantumCount = 2
  kMaxSizePendingWriteEventsQueue = 4
  SizeSpan = 16
  MaxBatch = 3
  MaxEvents = 8
  MaxInits = 2
INVARIANTS QueueTypeOK PendingSizeExact SingleWriter
PROPERTIES ImplementsEventStream PendingDrains
CHECK_DEADLOCK FALSE
