\* Four workers, as in client.cpp, one of them held by the event loop; two calls in turns, then
\* one without a callback and one whose answer is too large, without a wait.
SPECIFICATION FairSpec
CONSTANTS
  Workers = {w1, w2, w3, w4}
  MaxCalls = 4
  NoCallback = {3}
  Large = {4}
  SmallBody = 1
  LargeBody = 6
  Capacity = 9
  Nobody = Nobody
INVARIANTS TypeOK NoNullBuffer
PROPERTIES CallbackSpec EveryCallBack
CHECK_DEADLOCK FALSE
