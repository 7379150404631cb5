SPECIFICATION FairSpec
CONSTANTS
  KernelHeap = FALSE
  PAGE = 6
  HEADER = 1
  OVER = 2
  InitSize = 12
  MinSize = 6
  MaxSize = 24
  IdxSize = 64
  PtrSize = 4
  Sizes = {1, 4, 5}
INVARIANTS BlocksTile IndexListsHoles AllocationsFit
PROPERTIES AllocReturns
