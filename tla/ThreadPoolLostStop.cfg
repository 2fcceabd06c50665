CONSTANTS
  None = None
  Workers = {w1, w2}
  Clients = {c1}
  Tasks = {t1}
  Awaits = {}
  HasJthread = TRUE
  SpawnMayFail = FALSE
SPECIFICATION FairSpec
PROPERTIES
  DestructorReturns
