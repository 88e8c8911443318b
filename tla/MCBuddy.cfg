SPECIFICATION FairSpec
CONSTANTS
  CPUs = {c1, c2}
  MaxOrder = 3
  Start = 3
  End = 12
  NULL = NULL
INVARIANTS
  TypeOK
  ChunksTileMemory
  FreeListsAgree
  NoHalt
  NoFalseOOM
  FreeCountExact
PROPERTIES
  LockIsReleased
  ImplementsPageAllocator
