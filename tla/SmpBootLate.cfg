CONSTANTS
  MaxCpu = 4
  Late = TRUE
SPECIFICATION Spec
INVARIANT MissedBlock
CHECK_DEADLOCK FALSE
