SPECIFICATION Spec
CONSTANTS
  NPROC = 3
  CPUs = {"c1"}
  Priorities = {0, 1}
  MaxPid = 3
INVARIANTS  WaitersHaveNoWork ParentAlive
PROPERTIES NoStarvation KilledExits OrphansReaped
