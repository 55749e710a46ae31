CONSTANTS
  CPUs = {0, 1}
  None = None
SPECIFICATION Spec
INVARIANTS SamePlace BenchFresh ConfigHolds
PROPERTY BarriersOpen
CHECK_DEADLOCK FALSE
