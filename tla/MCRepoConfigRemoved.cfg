CONSTANTS
  i1 = i1
  i2 = i2
  i3 = i3
  i4 = i4
  Depth = 2
  MaxLevels = 2
  Home = 0
  Ids = {i1, i2, i3}
  Bindings = {"w1", "w2"}
  None = None
  MaxChanges = 1
SPECIFICATION Spec
INVARIANT MissingMeansNoneAnywhere
SYMMETRY IdSymmetry
CHECK_DEADLOCK FALSE
