SPECIFICATION MCSpec
CONSTANTS
  NUM = 6
  MINALLOC = 8
  Sizes = {0, 4, 8, 16, 24, 48, 56}
  PNUM = 2
  ENUM = 3
  EMINALLOC = 16
  ESizes = {4, 8, 24, 48, 56}
INVARIANTS BlocksApart 
PROPERTIES ImplementsFirstFit AllocReturns EallocGrows EallocFirstFit
CHECK_DEADLOCK FALSE
