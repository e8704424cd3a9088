SPECIFICATION Spec
CONSTANTS
  ring = ring
  king = king
  N = 2
  Rings <- OneRing
  Doublings <- OneKing
  Tag <- MCTag
  DblPeer <- MCDblPeer
  BarrierOffset = 100
  MayThrow = TRUE
INVARIANTS TypeOK IInv MutexProtects RingCloses
PROPERTIES EverybodyConnects
