SPECIFICATION Spec
CONSTANTS
  t1 = t1
  t2 = t2
  Thread <- Threads
  Base = 8
  Space = 8
  PAGE = 2
  MaxLen = 6
  Sizes = {1, 2, 3, 6}
  MaxSegs = 3
SYMMETRY Symmetry
INVARIANTS BlocksTile GivenOnce SegmentsDisjoint
