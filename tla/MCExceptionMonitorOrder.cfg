SPECIFICATION Spec
CONSTANTS
  s1 = s1
  s2 = s2
  k1 = k1
  k2 = k2
  i1 = i1
  h1 = h1
  h2 = h2
  NoAlert = NoAlert
  Services <- MCServices
  Keys <- MCKeys
  Instances <- MCInstances
  ServiceOf <- MCServiceOf
  Window = 1
  Handlers = {h1}
  Suspends = FALSE
  Failures = {}
INVARIANT SettledAgreement
