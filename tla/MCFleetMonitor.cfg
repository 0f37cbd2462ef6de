SPECIFICATION FairSpec
CONSTANTS
  s1 = s1
  s2 = s2
  i1 = i1
  i2 = i2
  NoAlert = NoAlert
  Services <- MCOneService
  Names <- MCServices
  Instances <- MCTwoInstances
  MinActive <- MCMinTwo
  Position <- MCPositionOne
  Suspends = TRUE
  Failures = {"link", "raise", "save", "crash"}
INVARIANTS TypeOK Agreement OneConditionShown SilencedNotTracked
PROPERTIES ImplementsForwarder ConditionReachesConsumer RecoveryReachesConsumer
