SPECIFICATION Spec
CONSTANTS
  pm = pm  pcl = pcl  tm = tm  tn = tn  tc = tc  te = te
  om = om  oc = oc  ox = ox
  g1 = g1  g2 = g2  a1 = a1  a2 = a2  a3 = a3
  Null = Null
  Proc = {pm, pcl}
  Obj = {om, oc}
  Seg = {}
  Map = {}
  Thread = {tm, tn, tc}
  ProcOf <- ServerThreads
  Manager = pm
  Root <- TwoRoots
  Calls <- PlainCalls
  Answers = {0}
  Offset = {}
  MaxDesc = 3
  MaxGets = 2
INVARIANTS DeliveredOnce
