SPECIFICATION FairSpec
CONSTANTS
  CPUs = {0, 1, 2}
  Meetings = 3
CHECK_DEADLOCK FALSE
PROPERTY
  BenchmarkEnds
