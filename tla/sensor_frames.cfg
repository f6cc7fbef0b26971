SPECIFICATION FrameSpec
CONSTANTS
  Unit <- MCUnit
  Offset = {0, 3}
  Edits = 3
INVARIANTS
  EchoIsTheStrongest
  LevelsInOrder
PROPERTIES
  ReadInTheEnd
CHECK_DEADLOCK FALSE
