SPECIFICATION Spec
CONSTANTS
  left = left
  right = right
  loop = loop
  dbl = dbl
  mqp = mqp
  Data <- RingData
  Mqp = mqp
  Kind <- RingKind
  Pair <- RingOther
  SqSlots <- MCSqSlots
  Word = 8
  PadSize = 2
  LateQps = FALSE
  MaxIns = 8
INVARIANTS TypeOK WaitsAim SendWaitsAim EnablesCover BlockTiled RecvEnablesFirst FeedsRing
PROPERTIES Finishes
