CONSTANTS
  Kinds = {"map"}
  Seed <- VisibleSeed
  WordBits = 2
  MaxTotal = 2
  MaxThreads = 2
  MayThrow = FALSE
SPECIFICATION ForkJoinSpec
INVARIANTS
  MapComplete
\* Nothing is left to do when the call is over.
CHECK_DEADLOCK FALSE
