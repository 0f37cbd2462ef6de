SPECIFICATION Spec
CONSTANTS
  s1 = s1
  s2 = s2
  i1 = i1
  i2 = i2
  NoAlert = NoAlert
  Services <- MCServices
  Instances <- MCInstances
  MinActive <- MCMinActive
  Position <- MCPosition
INVARIANTS TypeOK RepeatIsQuiet
PROPERTY ImplementsFeed
