SPECIFICATION Spec
CONSTANTS
  Sizes <- TwoShapes
  MaxSize = 2
  MaxEvents = 3
INVARIANTS
  BlocksOwned
  ReadAsSaved
  NeuronsKept
PROPERTY
  BestKept
CHECK_DEADLOCK FALSE
