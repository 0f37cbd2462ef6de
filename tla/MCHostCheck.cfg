SPECIFICATION FairSpec
CONSTANTS
  NoAlert = NoAlert
  NoError = NoError
  p1 = p1
  e1 = e1
  Paths <- MCPaths
  Position <- MCPosition
  Percents <- MCPercents
  Errors = {e1}
  Warning = 90
  Critical = 95
  Suspends = TRUE
  Failures = {"link", "raise", "crash"}
INVARIANTS TypeOK TableMatchesMounts OneConditionShown EveryAlertIsOffered
PROPERTIES ImplementsForwarder SeverityReachesConsumer
