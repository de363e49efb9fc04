\* Two clients that wait for each answer, two descriptor numbers that are used
\* again, and three workers.
SPECIFICATION FairSpec
CONSTANTS
  Patient = TRUE
  Clients = {c, d}
  Workers = {w1, w2, w3}
  Fds = {1, 2}
  MaxCalls = 2
  Unknown = {}
  Window = 1
  BodySize = 1
  Capacity = 8
  WholeSegments = TRUE
  Nobody = Nobody
INVARIANTS TypeOK NoNullBuffer OwnBytes
PROPERTIES ServiceSpec EveryCallAnswered ConnectionsReleased
CHECK_DEADLOCK FALSE
