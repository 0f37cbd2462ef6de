SPECIFICATION FairSpec
CONSTANTS
  s1 = s1
  s2 = s2
  k1 = k1
  k2 = k2
  i1 = i1
  h1 = h1
  h2 = h2
  NoAlert = NoAlert
  Services <- MCOneService
  Keys <- MCKeys
  Instances <- MCInstances
  ServiceOf <- MCOneServiceOf
  Window = 1
  Handlers = {h1, h2}
  Suspends = TRUE
  Failures = {"link", "raise", "save", "crash"}
INVARIANT TypeOK
PROPERTIES ImplementsForwarder QuietReachesConsumer
