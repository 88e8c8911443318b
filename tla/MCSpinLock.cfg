SPECIFICATION FairSpec
CONSTANTS
  CPUs = {c1, c2, c3}
  NULL = NULL
INVARIANTS
  TypeOK
  MutualExclusion
  NoLostWakeup
PROPERTIES
  ImplementsMutex
  SomeoneGetsIn
