SPECIFICATION TrackerSpec
CONSTANTS
  s1 = s1
  s2 = s2
  k1 = k1
  k2 = k2
  i1 = i1
  i2 = i2
  NoAlert = NoAlert
  Services <- MCServices
  Keys <- MCKeys
  Instances <- MCInstances
  ServiceOf <- MCServiceOf
  Window = 2
INVARIANTS RecoverOnlyIfQuiet SilencedAreSpared
PROPERTIES ImplementsFeed SweepLeavesNoneOverdue
