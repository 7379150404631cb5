SPECIFICATION Spec
CONSTANTS
  pm = pm  pcl = pcl  tm = tm  tn = tn  tc = tc  te = te
  om = om  oc = oc  ox = ox
  g1 = g1  g2 = g2  a1 = a1  a2 = a2  a3 = a3
  Null = Null
  Proc = {pm, pcl}
  Obj = {om, oc, ox}
  Seg = {}
  Map = {}
  Thread = {tm, tc, te}
  ProcOf <- ClientThreads
  Manager = pm
  Root <- TwoRoots
  Calls <- ServiceCalls
  Answers = {1}
  Offset = {}
  MaxDesc = 4
  MaxGets = 2
PROPERTIES PendingObjectsKept
