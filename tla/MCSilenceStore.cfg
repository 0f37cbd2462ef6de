SPECIFICATION Spec
CONSTANTS
  n1 = n1
  n2 = n2
  padded = padded
  Blank = Blank
  Absent = Absent
  Corrupt = Corrupt
  None = None
  Raw <- MCRaw
  Names <- MCNames
  Normalize <- MCNormalize
INVARIANTS TypeOK Durable SavedMeansEqual
PROPERTY ImplementsSilences
