SPECIFICATION Spec
CONSTANTS
  c1 = c1
  c2 = c2
  c3 = c3
  t1 = t1
  t2 = t2
  a1 = a1
  a2 = a2
  k1 = k1
  Calls = {c1, c2, c3}
  Tokens = {t1, t2}
  Agents = {a1, a2}
  Keys = {k1}
  Source = Source
  MaxRepeated = 1
  None = None
SYMMETRY MCSymmetry
INVARIANTS
  TypeOK
  AcceptancesStay
  SourcesStay
CHECK_DEADLOCK FALSE
