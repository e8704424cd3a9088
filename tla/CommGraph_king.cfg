SPECIFICATION Spec
CONSTANTS
  left = left
  right = right
  loop = loop
  dbl = dbl
  mqp = mqp
  Data <- KingData
  Mqp = mqp
  Kind <- KingKind
  Pair <- KingPair
  SqSlots <- MCSqSlots
  Word = 64
  PadSize = 2
  LateQps = TRUE
  MaxIns = 8
INVARIANTS WaitsAim BlockTiled
