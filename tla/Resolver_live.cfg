CONSTANTS
  Symbols <- MCSymbols
  Codes <- MCCodes
  Segment <- MCSegment
  SupernodeCap = 3
  NoModule = NoModule
  NoArity = NoArity
SPECIFICATION ResolverSpec
INVARIANTS
  LiveTargetsKept
CHECK_DEADLOCK FALSE
