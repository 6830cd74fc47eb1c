SPECIFICATION Spec
CONSTANTS
  MaxCmds = 3
  MaxLines = 3
  BufLines = 2
  MaxOut = 2
  PipeSize = 1
INVARIANTS Plumbing OnlyOwnWriter 
PROPERTIES LineEnds
CHECK_DEADLOCK FALSE
