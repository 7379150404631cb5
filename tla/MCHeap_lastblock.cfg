SPECIFICATION Spec
CONSTANTS
  KernelHeap = TRUE
  PAGE = 4
  HEADER = 1
  OVER = 2
  InitSize = 12
  MinSize = 8
  MaxSize = 20
  IdxSize = 64
  PtrSize = 4
  Sizes = {1, 2, 5}
INVARIANTS FreeStaysInHeap
