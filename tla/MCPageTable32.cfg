CONSTANTS
  CPUs = {cpu0, cpu1}
  None = None
  Upper <- Upper32
  NTables = 3
  PerTable = 2
  Frames4k = 4
  MaxReq = 3
SPECIFICATION Spec
INVARIANT PagesPresent
CHECK_DEADLOCK FALSE
