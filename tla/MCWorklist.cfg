CONSTANTS
  a = a
  b = b
  none = none
  Node <- Nodes
  State <- States
  Unvisited = none
  Tasks <- MCTasks
  MergeStates <- Union
  Transfer <- GenKill
SPECIFICATION FairSpec
INVARIANTS
  NoEdgeForgotten
  LeastWhenDone
PROPERTIES
  ImplementsDataflow
  Terminates
CHECK_DEADLOCK FALSE
