SPECIFICATION FairSpec
CONSTANTS
  NoAlert = NoAlert
  Interval = 2
  Threshold = 3
  Suspends = TRUE
  Failures = {"link", "raise", "post", "crash"}
INVARIANT OpenMeansStreak
PROPERTIES ImplementsForwarder NoThreePostsInInterval UnreachableReachesConsumer
           ReachableReachesConsumer
