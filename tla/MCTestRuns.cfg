SPECIFICATION Spec
CONSTANTS
  c1 = c1
  c2 = c2
  c3 = c3
  c4 = c4
  t1 = t1
  t2 = t2
  stable = stable
  loose = loose
  Calls = {c1, c2, c3, c4}
  Tokens = {t1, t2}
  Entries = {stable, loose}
  Stable = {stable}
  Named = {loose}
  MaxBatch = 2
  MaxOthers = 1
  None = None
SYMMETRY MCSymmetry
INVARIANTS
  TypeOK
  VerdictIsOfEverything
  CountedTwiceOnlyUnsettled
  StrayRunsAreUnsettled
  ErrorsAreTrue
  OneEnd
CHECK_DEADLOCK FALSE
