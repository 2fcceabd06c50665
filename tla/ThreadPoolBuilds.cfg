CONSTANTS
  t1 = t1
  t2 = t2
  t3 = t3
  None = None
  Workers = {w1, w2, w3}
  Clients = {c1, c2}
  Tasks = {t1, t2, t3}
  Awaits <- OneAwaits
  HasJthread = TRUE
  SpawnMayFail = TRUE
SPECIFICATION BuildsSpec
INVARIANTS
  EveryTaskInOnePlace
  DestructorDrains
  WorkConserving
PROPERTIES
  ImplementsExecutor
  EveryTaskRunsOrStarves
  PlainTasksRun
  PlainDestructorReturns
\* A body that waits for a task it submits once the other workers have exited
\* stops the pool for good.
CHECK_DEADLOCK FALSE
