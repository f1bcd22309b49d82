CONSTANTS
  Symbols <- MCSymbols
  Codes <- MCCodes
  Segment <- MCSegment
  SupernodeCap = 3
  NoModule = NoModule
  NoArity = NoArity
SPECIFICATION ResolverSpec
INVARIANTS
  UntraitedCallsKept
CHECK_DEADLOCK FALSE
