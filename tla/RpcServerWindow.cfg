\* One client with up to four unanswered calls and three workers on its buffer:
\* three calls fill it but for two units, a fourth does not fit, and the
\* function of the second call is unknown.
SPECIFICATION Spec
CONSTANTS
  Patient = TRUE
  Clients = {c}
  Workers = {w1, w2, w3}
  Fds = {1}
  MaxCalls = 5
  Unknown = {2}
  Window = 4
  BodySize = 8
  Capacity = 32
  WholeSegments = TRUE
  Nobody = Nobody
PROPERTIES ServiceSpec
CHECK_DEADLOCK FALSE
