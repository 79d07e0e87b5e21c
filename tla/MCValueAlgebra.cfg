CONSTANTS
  f = f
  g = g
  Target <- MCTarget
  Key <- MCKey
  MaxArrayLengths = 2
  Values <- MCValues
  Probes <- MCProbes
SPECIFICATION Merging
INVARIANTS
  MergeFollowsTheRecursion
  MethodsFollowTheRecursion
  OrderIsIrrelevant
PROPERTY MergeAbsorbs
CHECK_DEADLOCK FALSE
