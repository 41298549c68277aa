SPECIFICATION MCSpec
CONSTANTS
  Names <- Nested
  Kinds <- NestedKinds
  Blocks <- Nested
  Values = {v1, v2}
  RGBA = RGBA
  None = None
  Null = Null
  Torn = Torn
  MaxVersion = 1
  Migrating = FALSE
  Crashes = FALSE
INVARIANT NeverLost
