SPECIFICATION Spec
CONSTANTS
  s1 = s1
  s2 = s2
  s3 = s3
  d1 = d1
  d2 = d2
  Specs = {s1, s2, s3}
  Components = {d1, d2}
  MaxDepth = 2
  MaxListed = 1
  None = None
SYMMETRY MCSymmetry
INVARIANTS
  TypeOK
  NothingOutside
  MissingRowsExplained
  FilteredOnce
  RollupAddsUp
CHECK_DEADLOCK FALSE
