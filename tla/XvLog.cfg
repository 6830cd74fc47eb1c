SPECIFICATION Spec
CONSTANTS
  Procs = {p1, p2, p3}
  initproc = p1
  Blocks = {b1, b2}
  Values = {v0, v1}
  NoData = NoData
  LOGSIZE = 10
  MAXOPBLOCKS = 5
  OpBlocks = 3
  MaxCrashes = 2
SYMMETRY Symmetry
INVARIANTS LogHasRoom SleepersHaveReason PinnedWhileLogged DurableWhenIdle
PROPERTY ImplementsTransactions
