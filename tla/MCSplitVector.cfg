CONSTANTS
  Elems <- MCElems
  Tasks <- MCTasks
  Rounds = 2
SPECIFICATION Spec
INVARIANTS
  DoubledWhereAlone
  RoundsApart
  ParentUnchanged
PROPERTY Finishes
