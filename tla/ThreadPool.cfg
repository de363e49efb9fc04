\* Two workers, one client, three tasks: a task may enqueue another, during
\* normal work and during the destructor; k3 may hold a worker for ever.
SPECIFICATION FairSpec
CONSTANTS
  Workers = {w1, w2}
  Clients = {c1}
  Owner = owner
  Task = {k1, k2, k3}
  Endless = {k3}
  Nobody = Nobody
  NoTask = NoTask
INVARIANTS TypeOK NoLostWakeup
PROPERTIES PoolSpec EveryTaskRuns DestructorReturns
CHECK_DEADLOCK FALSE
