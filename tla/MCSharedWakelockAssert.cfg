SPECIFICATION Spec
CONSTANTS
  c1 = c1
  c2 = c2
  Clients = {c1}
  NoClient = NoClient
  kWakelockTimeout = 1
  MaxWake = 2
  MaxPosts = 2
  MaxInits = 2
INVARIANTS WakeupEventsPostedLocked
CHECK_DEADLOCK FALSE
