CONSTANTS
  i1 = i1
  i2 = i2
  i3 = i3
  i4 = i4
  Depth = 4
  MaxLevels = 3
  Home = 2
  Ids = {i1, i2, i3, i4}
  Bindings = {"w1"}
  None = None
  MaxChanges = 2
SPECIFICATION Spec
INVARIANT TypeOK
INVARIANT AsBeforeOrAfterAChange
INVARIANT AnswerWasThere
INVARIANT StoreNeverBinds
SYMMETRY IdSymmetry
CHECK_DEADLOCK FALSE
