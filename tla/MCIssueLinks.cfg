SPECIFICATION Spec
CONSTANTS
  c1 = c1
  c2 = c2
  t1 = t1
  t2 = t2
  i1 = i1
  s1 = s1
  s2 = s2
  Calls = {c1, c2}
  Tokens = {t1, t2}
  Day = 2
  DefaultHold = 2
  Longest = 2
  Width = 16
  MaxTime = 3
  MaxDays = 9
  MaxRepeated = 1
  Issues = {i1}
  Specs = {s1, s2}
  OnBranch = {s2}
  MaxPairs = 2
SYMMETRY MCSymmetry
INVARIANTS
  TypeOK
  HoldIsKept
  ReleaseIsKept
  LinksAsTold
CHECK_DEADLOCK FALSE
