SPECIFICATION SpecOcr
CONSTANTS
  Batches <- EveryWay
  MaxSet = 3
  Errors = {1, 2, 3, 4}
  NaN = NaN
  MaxError = 2
  MaxTrainings = 6
  Huge = 10
  Room = 3
  Rows = 2
  Numerals <- SomeNumerals
INVARIANTS
  TypeOK
  BestWritten
  BestSoFar
  StopsAtBump
  Bounded
  UnjudgedUnlearnt
  SamplesAsWritten
PROPERTIES
  ImplementsTraining
  TrainEnds
CHECK_DEADLOCK FALSE
