SPECIFICATION RunSpec
CONSTANTS
  left = left
  right = right
  loop = loop
  dbl = dbl
  mqp = mqp
  Data <- MCData
  Mqp = mqp
  Kind <- MCKind
  Pair <- MCPair
  SqSlots <- MCSqSlots
  Word = 64
  PadSize = 2
  LateQps = FALSE
  MaxIns = 12
  Ranks <- MCRanks
  Far <- MCFar
  Scripts <- MCScripts
  Window = 3
  MaxRounds = 4
INVARIANTS RunTypeOK
PROPERTIES AsWritten RoundsEnd
