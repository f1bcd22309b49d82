SPECIFICATION Spec
CONSTANTS
  p1 = p1
  p2 = p2
  t1 = t1
  t2 = t2
  base1 = base1
  base2 = base2
  flow1 = flow1
  flow2 = flow2
  None = None
  Procs = {p1}
  Indexers = {p1}
  Trees = {t1, t2}
  Graphs = {base1, base2, flow1, flow2}
  TreeOf <- MCTreeOf
  ModeOf <- MCModeOf
  IndexModes = {"dataflow"}
  Pinned = {t1, t2}
  MaxMoves = 0
  MaxKills = 0
SYMMETRY TreeSymmetric
INVARIANT PlainAnswersHaveDataflow
