CONSTANTS
  MaxCache = 4
  MaxPcie = 1
  DefaultMax = 4
  DefaultMask = 15
  MaxCpu = 4
  Late = FALSE
  Machines <- MCMachines
SPECIFICATION PathSpec
INVARIANTS OneTable EbdaOfBios OptionsTaken OwnStack OnlineExact BootRendezvous
PROPERTY PathEnds
CHECK_DEADLOCK FALSE
