CONSTANTS
  Worlds = {w1, w2}
  Types = {A, B}
  Nothing = Nothing
  MaxIds = 2
  MaxEach = 1
SPECIFICATION EcsSpec
INVARIANTS
  DestroyAlways
