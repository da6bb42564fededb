SPECIFICATION Spec
CONSTANTS
  Sizes <- TwoShapes
  MaxSize = 2
  MaxEvents = 3
PROPERTY
  GrowthKeepsWeights
CHECK_DEADLOCK FALSE
