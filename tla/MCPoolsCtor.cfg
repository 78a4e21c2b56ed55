SPECIFICATION PoolsSpec
CONSTANTS
  k1 = k1
  k2 = k2
  k3 = k3
  k4 = k4
  k5 = k5
  k6 = k6
  Workers <- MCWorkers
  Tasks <- MCTasks
  NoTask = NoTask
  Parent <- MCParent
  Awaits = {k2, k4}
INVARIANT ConstructionIsSafe
CHECK_DEADLOCK FALSE
