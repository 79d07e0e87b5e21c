CONSTANTS
  Align = 4
  HeaderSize = 2
  MaxWord = 63
  MaxLayout = 31
  Memory = 29
  Sizes <- MCSizes
  Contents = {1}
  Any = Any
  MaxCalls = 5
SPECIFICATION MCSpec
INVARIANTS
  BlocksAreApart
  HeapIsAccountedFor
  ContentsAreKept
CHECK_DEADLOCK FALSE
