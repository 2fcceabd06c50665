CONSTANTS
  Rows = {r1, r2, r3}
  Swallows = FALSE
  MaxDepth = 2
  Databases = {a, b}
  Statements = {x, y}
  Local = Local
  Connections = {c1, c2}
  Handles = {h1, h2}
  Values = {v1, v2}
  Absent = Absent
  Null = Null
  Arenas = {a, b}
  SizeMod = 8
  MaxAlign = 2
  Addresses = {2, 10}
  Sizes = {0, 1, 6, 7}
  Alignments = {1, 2, 3, 4}
  Elements <- SomeElements
  Wrappers = {w1, w2, w3}
  Descriptors = {0, 1, 2}
  Variables = {u, v, w}
  Objects = {1, 2, 3, 4}
  MaxState = 3
  ProgramOwners = {a, b}
  OtherOwners = {b1}
  Names = {1, 2, 3, 4, 5}
  Framebuffers = {1, 2}
  Programs = {1, 2}
  Viewports = {v1, v2}
  Pipelines <- SomePipelines
  MaxPasses = 2
  Items = {0, 1, 2, 3}
  Plans <- SomePlans
  Sources <- SomeSources
  MapFn <- Double
  Keep <- Even
  Expand <- Copies
  Options = {n1, x, y}
  Manual = {n1}
  Given = {good, Bad}
  Bad = Bad
  Built = Built
  None = None
  Unknown = Unknown
  MaxLines = 2
  Widths = {1, 4, 8}
  Counts = {0, 1, 3, 4, 9, 10}
  Offsets = {0, 1, 5}
  Size = 24
  Texts = {0, 1, 3}
  Headers <- SomeHeaders
  MaxRows = 2
  Positions = {0, 1024}
  Gravity = 256
  MaxParticles = 3
  MaxConstraints = 2
  MaxSteps = 2
  MaxIterations = 2
  Exprs = {a, b}
  Literals <- SomeLiterals
  BinaryOps = {"-", "/"}
  One = 4
  Digit = 4
  Magnitudes = {0, 1, 2}
  MaxNodes = 7
  Powers = {1, 2, 3}
  Starts <- SomeStarts
  Lengths <- SomeLengths
  Halves = {0, 1, 2, 3}
  Rates <- SomeRates
  Sensors = {a, b}
  SensorNames <- SomeSensorNames
  Readings <- SomeReadings
  OtherTexts <- SomeTexts
SPECIFICATION ComponentsSpec
INVARIANTS
  NoTransactionLeftOpen
  ResourcesOwnedOnce
  ExecutesWhatWasBound
  MemoryExact
  PassesExact
  PipelineExact
  ServesAsConfigured
  WorldExact
  KernelsExact
  IntegratorsExact
  TextsExact
PROPERTIES
  NestedCallsKeepOuter
  ImplementsUnitOfWork
\* Worlds, expressions and tables grow up to their bounds.
CHECK_DEADLOCK FALSE
