SPECIFICATION ProcessSpec
CONSTANTS
  s1 = s1
  padded = padded
  i1 = i1
  k1 = k1
  h1 = h1
  Blank = Blank
  Absent = Absent
  Corrupt = Corrupt
  None = None
  NoAlert = NoAlert
  NoTime = NoTime
  BadTime = BadTime
  NotADict = NotADict
  Names <- MCNames
  Raw <- MCRaw
  Normalize <- MCNormalize
  Instances = {i1}
  Failures = {"link", "save", "crash"}
  Services <- MCNames
  MinActive <- MCMinActive
  Position <- MCPosition
  Keys = {k1}
  ServiceOf <- MCServiceOf
  Window = 0
  Handlers = {h1}
  Interval = 1
  Threshold = 1
  Times = {1}
  Events <- MCEvents
  Runs = {h1}
  Deployments <- MCDeployments
INVARIANT ConfirmedHolds
PROPERTY ImplementsMonitor
