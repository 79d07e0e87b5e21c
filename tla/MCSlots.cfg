CONSTANTS
  Target <- MCTarget
  Key <- MCKey
  MaxArrayLengths = 2
  MaxDepth = 12
  Node <- MCNode
  Unvisited = Unvisited
  Programs <- MCSlots
  MinRounds = 8
  RoundsPerDefinition = 4
  MaxStack = 4
  MaxLength = 3
  Foreign = "foreign"
SPECIFICATION Spec
INVARIANT CallsAreReported
CHECK_DEADLOCK FALSE
