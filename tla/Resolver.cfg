CONSTANTS
  Symbols <- MCSymbols
  Codes <- MCCodes
  Segment <- MCSegment
  SupernodeCap = 3
  NoModule = NoModule
  NoArity = NoArity
SPECIFICATION ResolverSpec
INVARIANTS
  GraphIsCanonical
  OrderIndependent
  CertainIsUnambiguous
  LiveMethodsKept
  EffectsAreOfAllReached
PROPERTIES
  PassesOnlySharpen
CHECK_DEADLOCK FALSE
