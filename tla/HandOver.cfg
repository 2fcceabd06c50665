CONSTANTS
  Kinds = {"for", "reduce", "map"}
  Seed <- VisibleSeed
  WordBits = 1
  MaxTotal = 5
  MaxThreads = 4
  MayThrow = TRUE
  Cap = 4
  Values = {v1, v2}
  Blank = Blank
  MaxPushes = 6
  EmptyCallers = {"producer", "consumer"}
  StaleLoads = TRUE
SPECIFICATION HandOverSpec
INVARIANTS
  EachElementOnce
  NoTaskOutlivesCall
  FirstFailureThrown
  ReducesInOrder
  MapComplete
  NoDataRace
  EmptyIsUsable
PROPERTIES
  CallEnds
  ImplementsFifo
  RingTransfersAll
\* Nothing is left to do when a call is over.
CHECK_DEADLOCK FALSE
