SPECIFICATION Spec
CONSTANTS
  NoAlert = NoAlert
  Interval = 2
  Threshold = 3
  Suspends = TRUE
  Failures = {}
PROPERTY PostsAreSpaced
