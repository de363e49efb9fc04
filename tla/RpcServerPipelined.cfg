\* One client that sends its second call without waiting for an answer.
SPECIFICATION FairSpec
CONSTANTS
  Patient = TRUE
  Clients = {c}
  Workers = {w1, w2}
  Fds = {1}
  MaxCalls = 2
  Unknown = {}
  Window = 2
  BodySize = 1
  Capacity = 8
  WholeSegments = TRUE
  Nobody = Nobody
PROPERTIES EveryCallAnswered
CHECK_DEADLOCK FALSE
