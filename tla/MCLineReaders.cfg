CONSTANTS
  Input <- MCInput
  Counts <- MCCounts
  LbufSize = 3
  MaxCalls = 4
SPECIFICATION Spec
PROPERTIES
  ImplementsLineSource
  FitsBuffer
  CallReturns
