SPECIFICATION Spec
CONSTANTS
  NumSubHals = 2
  StaticSensors <- MCStaticSensors
  DynamicSensors <- MCDynamicSensors
  Threads = {t1, t2}
  HandleSpan = 4
  None = None
  MaxInits = 3
SYMMETRY MCSymmetry
INVARIANTS TypeOK HandlesRouted DirectReportsReachSensor ModesAgree WakeupsAgree DynamicSensorsAgree DisabledBeforeClear
CHECK_DEADLOCK FALSE
