SPECIFICATION MCSpec
CONSTANTS
  Names <- ThreeNames
  Kinds <- ThreeKinds
  Blocks <- ThreeBlocks
  Values = {v1, v2}
  RGBA = RGBA
  None = None
  Null = Null
  Torn = Torn
  MaxVersion = 2
  Migrating = TRUE
  Crashes = TRUE
INVARIANTS
  TypeOK
  Persists
  UpdatedOnce
SYMMETRY Symmetry
