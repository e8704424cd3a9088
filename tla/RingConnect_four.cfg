SPECIFICATION Spec
CONSTANTS
  ring = ring
  king = king
  N = 4
  Rings <- OneRing
  Doublings <- None
  Tag <- MCTag
  DblPeer <- MCDblPeer
  BarrierOffset = 100
  MayThrow = TRUE
INVARIANTS ReadyMeansConnected NothingLeftOver
PROPERTIES EverybodyConnects
