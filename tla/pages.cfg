SPECIFICATION SpecPages
CONSTANTS
  MaxPages = 3
  Depths = {1, 8}
  CanReject = TRUE
  DbFails = TRUE
  Inputs <- SomeCodes
  UpFound <- Uppers
  RightFound <- Rights
  StringBytes = 34
  SidLength = 2
  Unkept = {0}
  Digits = {0, 1}
  MaxX = 2
  MaxY = 1
  Certainties = {60, 82, 90}
  Recognisers = {"compiled", "lwneuralnet", "unloadable"}
  MaxNumbers = 2
INVARIANTS
  NoDangling
  ReadUpright
  ReaderInv
  PageClean
  CodesValid
  LinksSheet
  SerialsApart
  MarksInOrder
  MarksKept
  AnswersRead
  ReadInv
  DigitsAccepted
  KeptAsRead
  UnlocatedAlike
CHECK_DEADLOCK FALSE
