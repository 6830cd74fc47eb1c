SPECIFICATION Spec
CONSTANTS
  Procs = {p1, p2}
  first = p1
  NoProc = NoProc
  Bytes = {0, 1}
  PIPESIZE = 2
  UINT = 4
  MaxN = 2
INVARIANTS NoLostWakeup NoUseAfterFree
PROPERTIES ImplementsChannel EofIsEnd CallsEnd
CHECK_DEADLOCK FALSE
