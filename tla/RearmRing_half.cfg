SPECIFICATION Spec
CONSTANTS
  Wqes = 3
  Tasks <- EarlyTasks
  Base <- MCBase
  Inc <- MCInc
  Word = 8
  Dups = 2
  RecvEnables = 1
  PollSlot = 2
  Window = 1
  MaxRounds = 9
INVARIANTS
PROPERTIES KeepsPromise
