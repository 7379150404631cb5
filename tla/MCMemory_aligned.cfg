SPECIFICATION Spec
CONSTANTS
  p1 = p1  p2 = p2  s1 = s1  s2 = s2  s3 = s3  s4 = s4
  Null = Null
  Proc = {p1, p2}
  Seg = {s1, s2, s3, s4}
  NFrames = 5
  PAGE = 2
  NPages = 5
  CodeAt = 0
  Heaps <- AlignedHeaps
  Shms <- AlignedShms
  MaxShm = 4
  Spots = {6}
  MaxMaps = 4
  Touched <- TouchedPages
SYMMETRY Symmetry
INVARIANTS FramesExclusive PrivateStaysPrivate FramesAccounted PagesBacked
