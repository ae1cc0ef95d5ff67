SPECIFICATION Spec
CONSTANTS
  NumSubHals = 2
  MaxPosts = 3
  MaxInits = 2
INVARIANTS ClearedSafely
CHECK_DEADLOCK FALSE
