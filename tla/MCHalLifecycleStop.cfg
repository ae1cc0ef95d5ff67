SPECIFICATION FairSpec
CONSTANTS
  NumSubHals = 1
  MaxPosts = 1
  MaxInits = 2
PROPERTIES ThreadsStartAgain
CHECK_DEADLOCK FALSE
