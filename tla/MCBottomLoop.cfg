CONSTANTS
  Target <- MCTarget
  Key <- MCKey
  MaxArrayLengths = 2
  Unvisited = Unvisited
SPECIFICATION Spec
PROPERTY Terminates
CHECK_DEADLOCK FALSE
