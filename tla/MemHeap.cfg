SPECIFICATION FairSpec
CONSTANTS
  Align = 2
  MemSize = 16
  Request = {1, 4, 5}
INVARIANT TypeOK
INVARIANT HeapSane
PROPERTY FailsOnlyWhenFull
PROPERTY ImplementsAllocator
PROPERTY MallocTerminates
