\* TLSF: two pools, four size classes in each of four first levels, and sizes in
\* three of the levels, two of which are not rounded.  MemoryPool: five units of
\* memory and blocks of one to three units; the free list may hold three nodes
\* before an allocation, those of exhausted blocks included.
SPECIFICATION MCSpec
CONSTANTS
  MinimiumAllocationSize = 2
  TrueSize = 2
  SLI = 2
  FLC = 4
  SizeEnd = 64
  MaxAddress = 56
  Pools <- MCPools
  Sizes = {3, 9, 12, 17}
  nullptr = nullptr
  capacity = 5
  PoolSizes = {1, 2, 3}
  NodeBound = 3
  null = null
INVARIANTS Tiling WholeAgain ListsAgree PoolTiling
PROPERTIES AllocatorSpec PoolAllocatorSpec
