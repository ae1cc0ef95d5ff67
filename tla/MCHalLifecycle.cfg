SPECIFICATION FairSpec
CONSTANTS
  NumSubHals = 2
  MaxPosts = 3
  MaxInits = 2
INVARIANTS WorkersJoined PostsNeverMissed StaleBatchesBounded
PROPERTIES InitializeReturns
CHECK_DEADLOCK FALSE
