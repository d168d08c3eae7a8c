CONSTANTS
  MaxValue = 6
  TableSize = 2
SPECIFICATION Spec
INVARIANTS
  ProcessedAsGenerated
  
  LinesOnce
PROPERTIES
  
  AllProcessed
