SPECIFICATION Spec
CONSTANTS
  p1 = p1  p2 = p2  t1 = t1  t2 = t2  t3 = t3
  Boot = Boot  Kernel = Kernel
  Thread = {t1, t2, t3}
  Proc = {p1, p2}
  ProcOf <- ThreeThreads
  Page = {1}
  KEEP = 2
  AreaTables = 2
  PerTable = 3
  HeapTables = {10}
  NFrames = 10
INVARIANT FrameGivenOnce
