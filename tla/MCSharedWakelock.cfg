SPECIFICATION FairSpec
CONSTANTS
  c1 = c1
  c2 = c2
  Clients <- MCClients
  NoClient = NoClient
  kWakelockTimeout = 0
  MaxWake = 1
  MaxPosts = 2
  MaxInits = 2
INVARIANTS HeldIffCounted RefsAccounted WakeEventsCovered
PROPERTIES ReleasedOnlyWhenDue EventuallyReleased
CHECK_DEADLOCK FALSE
