SPECIFICATION Spec
CONSTANTS
  CqeCnt = 4
  Cqes = 3
  Word = 16
  Window = 2
  MaxRounds = 13
INVARIANTS TypeOK IInv NoFalseCompletion CompletionStays
PROPERTIES EveryRoundSeen
