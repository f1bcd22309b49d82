CONSTANTS
  Nodes = {}
  Unset = Unset
  Blame <- MCBlame
  TreeDepth = 2
  TreeBudget = 4
  Paths <- MCPaths
  SourceTrees <- MCDisks
  Revisions <- MCRevisions
  TreeOf <- MCTreesOf
  MergeBase <- MCMergeBase
  GraphOf <- MCGraphOf
  Generated = {"out"}
  OwnStore = {"own"}
  Demands <- MCDemands
  MaxStirs = 1
  Histories <- MCHistories
  RangesAsked <- MCRanges
SPECIFICATION ComparisonsSpec
INVARIANT ForestShowsEveryTest
CHECK_DEADLOCK FALSE
