SPECIFICATION FairSpec
CONSTANTS
  CPUs <- MCCPUs
  LoadNbrs <- MCLoadNbrs
  Ranges = 2
  EpochMod = 2
INVARIANTS
  SameCallSite
  DynOfThisLoad
  SignalUsed
PROPERTY
  BenchmarkEnds
