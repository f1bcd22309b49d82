SPECIFICATION Spec
CONSTANTS
  p1 = p1
  p2 = p2
  c1 = c1
  c2 = c2
  k1 = k1
  k2 = k2
  g1 = g1
  gNew = gNew
  s1 = s1
  s2 = s2
  None = None
  Clones = {c1}
  Procs = {p1, p2}
  At <- OneClone
  Keys = {k1, k2}
  Graphs = {g1, gNew}
  Shards = {s1, s2}
  ShardsOf <- MCShardsOf
  Newer = {gNew}
  MaxTries = 2
  MaxIndex = 1
  MaxKills = 1
SYMMETRY OneCloneSymmetric
INVARIANT RefsKeepClosureUnlessRaced
PROPERTY PullMaterializes
