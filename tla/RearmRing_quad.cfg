SPECIFICATION Spec
CONSTANTS
  Wqes = 3
  Tasks <- SplitTasks
  Base <- MCBase
  Inc <- MCInc
  Word = 8
  Dups = 4
  RecvEnables = 1
  PollSlot = 2
  Window = 1
  MaxRounds = 9
INVARIANTS TypeOK RungArmed IInv
PROPERTIES NoLiveOverwrite KeepsPromise
