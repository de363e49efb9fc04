\* The stream of one client arrives cut anywhere, and it may hang up early.
SPECIFICATION Spec
CONSTANTS
  Patient = FALSE
  Clients = {c}
  Workers = {w1, w2}
  Fds = {1}
  MaxCalls = 2
  Unknown = {}
  Window = 1
  BodySize = 2
  Capacity = 8
  WholeSegments = FALSE
  Nobody = Nobody
INVARIANTS OnlyWholeCalls
CHECK_DEADLOCK FALSE
