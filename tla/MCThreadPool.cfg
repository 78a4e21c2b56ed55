\* Few threads and tasks.  Workers are not interchangeable in the liveness
\* properties, so no symmetry is used.
SPECIFICATION Spec
CONSTANTS
  Workers = {w1, w2}
  Clients = {c1, c2}
  Owner = owner
  Tasks = {k1, k2, k3}
  NoTask = NoTask
  Throwing = {k3}
  Packaged = FALSE
  NoThread = NoThread
INVARIANTS Inv DrainsBeforeExit
PROPERTIES SubmittedTasksStart WorkersEnd RefinesTaskPool
CHECK_DEADLOCK FALSE
