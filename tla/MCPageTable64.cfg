CONSTANTS
  CPUs = {cpu0, cpu1}
  None = None
  Upper <- Upper64
  NTables = 3
  PerTable = 2
  Frames4k = 4
  MaxReq = 3
SPECIFICATION Spec
INVARIANTS PagesPresent NothingElse Translated Consecutive
CHECK_DEADLOCK FALSE
