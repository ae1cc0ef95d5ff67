SPECIFICATION FairSpec
CONSTANTS
  Readings = {0, 2, 17, 89, 2393, 20793}
  Bias = 1
  Whites = {0, 48, 32000}
  Estimates = {0, 15, 32000}
  Lux = 4
  BaseGain = 2
  Gains = {2, 1}
  AgcThreshold = 1600
  MinInterval = 2
  ForceInterval = 4
  Never = Never
  MaxFailures = 2
INVARIANTS TypeOK HysteresisFits
PROPERTIES ReusedFresh CapturesSpaced ValuesKeepComing
CHECK_DEADLOCK FALSE
