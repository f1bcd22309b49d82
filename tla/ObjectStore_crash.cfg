SPECIFICATION Spec
CONSTANTS
  p1 = p1
  p2 = p2
  k1 = k1
  k2 = k2
  g1 = g1
  g2 = g2
  gOld = gOld
  gNew = gNew
  s1 = s1
  s2 = s2
  s3 = s3
  d1 = d1
  d2 = d2
  None = None
  Procs = {p1, p2}
  Keys = {k1}
  Graphs = {g1, g2}
  Shards = {s1, s2, s3}
  Dirs = {d1, d2}
  Pruners = {p1, p2}
  KeepSets <- KeepOne
  ShardsOf <- MCShardsOf
  Format <- MCFormat
  DirOf <- MCDirOf
  MaxKills = 1
  MaxPowerLoss = 1
SYMMETRY Symmetric
INVARIANT TypeOK
INVARIANT RefClosure
INVARIANT TempNotSwept
INVARIANT RefsAreDurableUnlessKilled
PROPERTY ImplementsGraphMap
