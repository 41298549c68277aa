SPECIFICATION RdpSpec
CONSTANTS
  plain = plain
  dual = dual
  full = full
  part = part
  point = point
  linear = linear
  Images = {i1, i2, i3}
  Hw <- MCHw
  DefaultHw = point
  CacheSize = 2
  Modes <- MCModes
  FlatModes <- MCFlatModes
  Views <- MCViews
  Whole <- MCWhole
  NoView = NoView
  Combiners <- MCCombiners
  Used <- MCUsed
  TileWords <- MCTileWords
  Framebuffers = {game, other}
  Main = game
  MaxTris = 2
  MaxEdits = 1
  Nothing = Nothing
CONSTRAINT Focus
SYMMETRY Symmetry
INVARIANTS
  RdpTypeOK
  DrawnAsAsked
  SampledAsAsked
  DrawnByItsProgram
  CacheConsistent
