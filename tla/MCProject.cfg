CONSTANTS
  Up = Up
  Here = Here
  Refused = Refused
  Missing = Missing
  P = P
  Lib = Lib
  A = A
  B = B
  Blank = Blank
  TolkNames = {A, B}
  Inputs <- MCInputs
  Projects = {p, q}
  Iterators = {i}
  Version = this
  OtherVersion = other
  Size = 4
  None = None
  Threw = Threw
  Snapshots <- MCSnapshots
SPECIFICATION MCSpec
INVARIANTS
  IndexedFilesAreFound
  RootsAreOwnFiles
  IllegalPathsAreRefused
  IterationIsWhole
  SymbolForIsNearest
PROPERTIES
  EveryNextReturns
CHECK_DEADLOCK FALSE
