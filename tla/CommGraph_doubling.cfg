SPECIFICATION Spec
CONSTANTS
  left = left
  right = right
  loop = loop
  dbl = dbl
  mqp = mqp
  Data <- DblData
  Mqp = mqp
  Kind <- DblKind
  Pair <- DblPair
  SqSlots <- MCSqSlots
  Word = 64
  PadSize = 2
  LateQps = FALSE
  MaxIns = 4
INVARIANTS SendWaitsAim
