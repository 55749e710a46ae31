SPECIFICATION TestSpec
CONSTANTS
  CPUs <- MCCPUs
  Masks <- MCMasks
  Rounds = 1
  InTime = TRUE
INVARIANTS
  WakerOwnsRound
  OthersHalt
  FlagsTellState
  SameCall
  SharedSet
PROPERTIES
  RoundEnds
  TestsEnd
