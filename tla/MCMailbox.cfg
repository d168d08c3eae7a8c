CONSTANTS
  Writer <- MCWriter
  MaxRuns = 2
SPECIFICATION Spec
INVARIANTS
  PrintsAnnounced
  OneSemaphore
PROPERTY
  PostReachesReader
