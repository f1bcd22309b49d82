CONSTANTS
  Nodes = {1, 2, 3, 4}
  Texts <- MCTexts
  NodeInfo <- MCNodeInfo
  Selectors <- MCSelectors
  DefaultDepth = 2
  CqlGraphs <- MCCqlGraphs
  CqlQueries <- MCCqlQueries
  RowCap = 5
  MaxPaths = 2
  MaxSteps = 6
SPECIFICATION CqlSpec
INVARIANTS
  PathsRunAsWritten
CHECK_DEADLOCK FALSE
