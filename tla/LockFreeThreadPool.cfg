\* Two workers, a client, two tasks through a queue of one node, so that a push
\* finds it full.
SPECIFICATION FairSpec
CONSTANTS
  Workers = {w1, w2}
  Clients = {c1}
  Spawners = {}
  Owner = owner
  Task = {k1, k2}
  Endless = {}
  Capacity = 1
  Nobody = Nobody
  NoTask = NoTask
INVARIANTS TypeOK
PROPERTIES PoolSpec EveryTaskRuns DestructorReturns
CHECK_DEADLOCK FALSE
