SPECIFICATION FairSpec
CONSTANTS
  CPUs = {p1, p2, p3}
  EpochMod = 3
INVARIANTS
  UniqueNumber
  MasterIsLast
PROPERTIES
  Rendezvous
  EpisodeEnds
