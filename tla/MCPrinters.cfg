CONSTANTS
  Task <- MCTask
  LineLen = 3
  MaxRestarts = 1
SPECIFICATION PSpec
INVARIANTS
  Unmixed
  HeldBySomebody
PROPERTY
  KeepsPrinting
