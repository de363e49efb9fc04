\* The one worker goes to sleep after the notification of the only task.
SPECIFICATION FairSpec
CONSTANTS
  Workers = {w1}
  Clients = {c1}
  Spawners = {}
  Owner = owner
  Task = {k1}
  Endless = {}
  Capacity = 2
  Nobody = Nobody
  NoTask = NoTask
PROPERTIES EveryTaskRuns
CHECK_DEADLOCK FALSE
