CONSTANTS
  Nodes <- MCNodes
  Programs <- MCPrograms
  WalkQueries <- MCQueries
  NoEdge = NoEdge
  source = source
  generated = generated
  blobA = blobA
  blobB = blobB
  Absent = Absent
  Files = {source, generated}
  Contents = {blobA, blobB}
  Ignored = {generated}
  Trees <- MCTrees
  MaxMoves = 2
  Languages <- MCLanguages
  Depths = {4, 5}
  Whole = 4
  Slots <- MCSlots
  Leaves <- MCLeaves
  Texts <- MCTexts
  NodeInfo <- MCNodeInfo
  Selectors <- MCSelectors
  DefaultDepth = 2
  CqlGraphs <- MCCqlGraphs
  CqlQueries <- MCCqlQueries
  RowCap = 5
  MaxPaths = 2
  MaxSteps = 6
  Unset = Unset
  Blame <- MCBlame
  TreeDepth = 2
  TreeBudget = 4
  Paths <- MCPaths
  SourceTrees <- MCDisks
  Revisions <- MCRevisions
  TreeOf <- MCTreesOf
  MergeBase <- MCMergeBase
  GraphOf <- MCGraphOf
  Generated = {"out"}
  OwnStore = {"own"}
  Demands <- MCDemands
  MaxStirs = 1
  Histories <- MCHistories
  RangesAsked <- MCRanges
SPECIFICATION AnalysesSpec
INVARIANTS
  FindsTheNearest
  UncutPathsAreAll
  ExactIsWhole
  NarrowingKeepsTheCallee
  SummariesAreTheReachableFlows
  ReusedFunctionsAreUnchanged
  UndisturbedAnswersAsAsked
  VerdictIsRight
  VersionNamesGraph
  CallsAreSeenWhereTheyStand
  FlowsFollowTheValues
  TableIsOfTheStream
  NewPathsAreFound
  ImpactIsWhole
  WitnessesHold
  SilenceIsTrue
  CouplingCountsTheRange
PROPERTIES
  RowsAreTheMatches
CHECK_DEADLOCK FALSE
