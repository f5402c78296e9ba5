SPECIFICATION Spec
CONSTANTS
  Servers <- MCServers
  Arguments <- MCArguments
  Sizes <- MCSizes
  DefaultSize <- MCDefaultSize
  MaxSize = 2
  MaxPages = 2
  FirstNew = 10
  ServerSize = 1
  MaxChanges = 2
INVARIANTS
  TypeOK
  MissesExplained
  RepeatsExplained
PROPERTIES
  TraversalEnds
CHECK_DEADLOCK FALSE
