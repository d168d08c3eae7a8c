CONSTANTS
  Elems <- MCElemsDivided
  Tasks <- MCTasks
  Rounds = 2
SPECIFICATION Spec
INVARIANT SequencePrinted
