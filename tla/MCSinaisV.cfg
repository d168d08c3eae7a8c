CONSTANTS
  NProcs = 3
  MaxStops = 1
SPECIFICATION Spec
INVARIANTS
  CountSound
  NoStrandedZombie
  PrintfUndisturbed
PROPERTIES
  AllCounted
  ReaperSpec
