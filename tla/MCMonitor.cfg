SPECIFICATION Spec
CONSTANTS
  s1 = s1
  padded = padded
  i1 = i1
  k1 = k1
  h1 = h1
  r1 = r1
  r2 = r2
  Blank = Blank
  NoAlert = NoAlert
  NoTime = NoTime
  BadTime = BadTime
  NotADict = NotADict
  Corrupt = Corrupt
  Names <- MCNames
  Raw <- MCRaw
  Normalize <- MCNormalize
  Instances = {i1}
  Failures = {"link", "save", "crash"}
  Services <- MCNames
  MinActive <- MCMinActive
  Position <- MCPosition
  Keys = {k1}
  ServiceOf <- MCServiceOf
  Window = 0
  Handlers = {h1}
  Interval = 1
  Threshold = 1
  Times = {1, 2}
  Events <- MCEvents
  Runs = {r1, r2}
  Deployments <- MCDeployments
INVARIANTS ListIsConsumersView PromisedHolds EveryAlertIsOffered OneAlertPerEvent
PROPERTIES PromisedSilence ImplementsParts
