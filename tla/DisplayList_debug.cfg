CHECK_DEADLOCK FALSE
SPECIFICATION Spec
CONSTANTS
  Lists <- MCLists
  Root = "main"
  Null = Null
  Segmented = Segmented
  Movable <- MCMovable
  Memories <- MCMemories
INVARIANTS
  TypeOK
  PathLeadsHere
  BreaksWhereClicked
PROPERTIES
  RunsAsWritten
  FrameEnds
