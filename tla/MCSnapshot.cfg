CONSTANTS
  None = None
  Unresolved = Unresolved
  LambdaKind = 0
  MaxNodes = 4
  MaxChars = 4
  IsInput <- MCIsInput
SPECIFICATION Spec
INVARIANTS
  InnermostIsFound
  TypesUnfold
  BestAnswersAreKept
  QueriesAgree
  SnapshotIsClosed
  PositionsSurvive
CHECK_DEADLOCK FALSE
