SPECIFICATION Spec
CONSTANTS
  a = a
  b = b
  c = c
  absent = absent
  arcA = arcA
  arcB = arcB
  arcC = arcC
  Names = {a, b, c, absent}
  Archives = {arcA, arcB, arcC}
  Manifests <- MCManifests
  Mounted <- MCMounted
  SafeLevel = "warn"
  MaxListed = 3
  Null = Null
INVARIANTS
  TypeOK
  InDependencyOrder
  VerdictRight
PROPERTIES
  NoneForgotten
  Ends
