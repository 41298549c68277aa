SPECIFICATION Spec
CONSTANTS
  Priorities = {0, 1, 2}
  MaxEvents = 2
  MaxListeners <- ThreeAndOne
  MaxDepth = 2
INVARIANTS
  TypeOK
  InOrder
CHECK_DEADLOCK FALSE
