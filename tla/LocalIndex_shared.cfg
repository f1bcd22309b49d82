SPECIFICATION Spec
CONSTANTS
  p1 = p1
  p2 = p2
  t1 = t1
  t2 = t2
  base1 = base1
  base2 = base2
  flow1 = flow1
  flow2 = flow2
  None = None
  Procs = {p1, p2}
  Indexers = {p1, p2}
  Trees = {t1, t2}
  Graphs = {base1, base2, flow1, flow2}
  TreeOf <- MCTreeOf
  ModeOf <- MCModeOf
  IndexModes = {"base", "dataflow"}
  Pinned = {t1, t2}
  MaxMoves = 1
  MaxKills = 1
SYMMETRY Symmetric
INVARIANT UndisturbedQueryServesHead
INVARIANT PointerWholeUnlessRaced
PROPERTY PublishedGraphIsStored
