SPECIFICATION Spec
CONSTANTS
  Loaders = {l1, l2}
  Handles = {h1, h2, h3}
  Files = {f}
  old = old
  new = new
  Empty = Empty
  Data <- MCData
  Absent = Absent
  Null = Null
  Zeros = Zeros
SYMMETRY Symmetry
INVARIANTS
  HandlesSound
  ReadsLastWritten
CHECK_DEADLOCK FALSE
