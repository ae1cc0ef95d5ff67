SPECIFICATION FairSpec
CONSTANTS
  v1 = v1
  v2 = v2
  v3 = v3
  c1 = c1
  c2 = c2
  Versions <- MCVersions
  Unversioned <- MCUnversioned
  Configs <- MCConfigs
  NoFile = NoFile
  MaxResets = 3
INVARIANTS FlagOfThisBoot ConfigsCurrent MbnOtaCurrent
PROPERTIES FlagEventuallySet
CHECK_DEADLOCK FALSE
