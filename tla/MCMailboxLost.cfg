CONSTANTS
  Writer <- MCWriter
  MaxRuns = 1
SPECIFICATION Spec
INVARIANT NextLineAnnounced
