SPECIFICATION FairSpec
CONSTANTS
  CAMERA_EVENT_DELAY_TIME = 2
  MaxInputs = 6
INVARIANTS LastEventWins Debounced CommandsCarriedOut FallKeepsClosed ListeningFollowsScreen
PROPERTIES LoweredAfterClose
CHECK_DEADLOCK FALSE
