CONSTANTS
  Entry = entry
  Exit = exit
  Inner = {a, b}
  Foreign = foreign
  NoId = none
  Ids <- MCIds
  Graphs <- MCGraphs
SPECIFICATION Spec
INVARIANTS
  DominanceIsACut
  PostDominanceIsACut
  AnswersSpeakOfPaths
PROPERTIES
  EveryQueryReturns
