CONSTANTS
  f = f
  g = g
  x = x
  Target <- MCTarget
  Foreign <- MCForeign
  Key <- MCKey
  Keys <- MCKeys
  MaxArrayLengths = 2
  MaxLength = 3
  MaxCalls = 3
  Starts <- KnownAndExternal
SPECIFICATION Spec
INVARIANTS
  ArrayReadsAreSound
  ContentsAreDescribed
  MapReadsAreSound
  ListReadsAreSound
  PackingKeepsElements
CHECK_DEADLOCK FALSE
